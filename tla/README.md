# A specification of the Codify server and its page

This directory specifies the program of the repository: the server (`apps/server/src`), which keeps
Agents, runs their turns in containers, splits compound requests into coordination sessions and
governs recurring tasks by contracts, and the page (`apps/web/src/App.tsx`) that shows its
conversations. The modules are TLA+, checked by TLC on small instances; what matters most is proved
by TLAPS for every value of the constants. `PROJECT.json` lists every run, theorem, hazard and
finding and maps each definition to the lines it stands for. Paths below are relative to
`apps/server/src` unless they say otherwise.

## 1. The system

One Node process serves HTTP (`app.ts`), keeps all its data in one JSON file (`store.ts`) and
starts one container per run. There are no threads: a handler runs until it awaits, and anything
may happen before it resumes. Four facts shape everything else:

- `store.mutate` is the only atomic step over shared data. `store.snapshot` is a copy, and what
  is read from it may be stale by the time it is used.
- `sendMessage` returns as soon as its run is *admitted*; the run is executed in the background
  and known to the process only through `activeExecutions`.
- A restart finds the file, and what the container engine still holds. `initialize()` settles runs
  and reaps brokers; it does not touch sessions.
- Other processes (the container engine, the model provider, the embedding endpoint, the page) answer
  late, in any order, or not at all.

### Components

| Component | State it keeps | Operations | Interacts with | What is hard | What makes it correct |
|---|---|---|---|---|---|
| JSON store (`store.ts`) | `data`, the `queue` of operations, the file and its `.tmp` | `initialize`, `mutate`, `snapshot` | everything calls it | crash between rename and swap, a write that fails halfway, operations queued behind a failure | mutations are atomic, ordered and durable; every caller is answered |
| Agents and runs (`agent-service.ts`) | Agent records and badges, runs, threads by principal; `activeExecutions`, `cancellationRequests` in memory | create, start, stop, delete, reset, `sendMessage`, `executeRun`, `initialize` | store, runner, governance, sessions | sends, delegation, stops, deletes and resets interleave at every await; crashes with runs in flight; rejected mutations | one run per principal and Agent, threads are never shared, busy means running, outcomes are final, stops outlast what they stop, everything settles |
| Coordination (`codify/coordination.ts`, sessions in `service.ts` and `agent-service.ts`) | session: plan, turns, status, state | create, `selectParticipant`, `planWave`, `claimTurn`, `settleTurn`, `advanceSession`, `runSessionToCompletion`, stop, `splitIntoSession` | runs each turn through `sendMessage` | several callers plan the same steps from one snapshot, turns settle in any order, a participant disappears, a restart leaves claims behind | each step once, after its dependencies, below the ceiling; the verdict speaks of the whole plan and stands |
| Planner (`codify/planner.ts`) | none | `planSteps`, `parsePlan`, `readySteps` | model client | lines out of order, gaps, cycles in a reply of the model | a plan is numbered 1..n and a step needs earlier steps only |
| Contracts and budget (`codify/service.ts`, `codify/budget.ts`) | contracts and their versions, denials, corrections, refinement proposals, the specialist's brief | `reviseContract`, `applyRefinement`, `autoApplyRefinements`, `rejectRefinement`, `enforceBudget`, `recordRunEvidence` | store, Agents (brief, deletion), admission | versions prepared from snapshots, two-step refinement, check and admission apart | permissions widen on evidence only, revising buys no budget, the task stays governed, brief and version agree |
| Detection and promotion (`codify/service.ts`, `codify/scope.ts`) | prompt observations with their evidence, candidates | `recordPromptObservation`, `backfillEmbeddings`, `refreshCandidates`, `autoPromote`, `approveCandidate`, `rejectCandidate` | embeddings, model client, Agents | the governance pass, pages and operators decide at once, with awaits between read and write | a permission rests on the runs of enough users, a decision stands, a candidate has one contract |
| Routing (`codify/service.ts` `route`, `agent-service.ts` `sendMessage`) | none of its own | `route`, `bindToPrincipal`, `lastResponder`, delegation | contracts, Agents, continuity | ties between contracts, Agents and contracts that change between four reads | an ambiguous prompt is governed by no contract; no specialist runs outside one |
| Continuity and embeddings (`codify/continuity.ts`, `codify/semantic.ts`) | the cache of embeddings, the anchors | `classifyFollowUp`, `embedPrompt`, `embedAnchors` | embedding endpoint | shared loads, retries, eviction, outages | a verdict rests on all the anchors or on the words; an outage leaves nothing behind |
| Container and host runner (`container-codex-runner.ts`, `codex-runner.ts`) | `active`, `sessions`, the child processes | `run`, `cancel` | engine, broker, workspaces | cancellation before the container exists, removal remembered, maps keyed by different ids | cancel reaches what runs; every run ends; its evidence is its own, and whole as far as its workspace can be listed |
| Capability broker (`codify/broker-session.ts`, `broker/codify-broker.mjs`) | a container and a network per run, a log | start, stop, decide on a host, reap | runner | the process dies with brokers running, a start fails halfway | fails closed; no orphan outlives the next start |
| Workspaces (`workspace.ts`, `codify/workspace-diff.ts`) | directories | create, `ensureFor`, archive, snapshot, diff | Agents, runner | archive fails during a delete; a listing that stops at 5000 entries | evidence names the listed files the run wrote, as long as the listings are whole |
| Page (`apps/web/src/App.tsx`) | conversation, runs by message, the run and the session it follows, `pollingRunIds` | select, switch principal, send, poll | the routes of `app.ts` | independent requests, also the two of one load, answered in any order while Agent and principal change | a quiet page lacks nothing but what it does not follow, and shows nothing of another principal |
| Governance view, tracing, redaction, seed, model client, deployment | text, spans, requests | | | | |

### Known disagreements with the repository's own words

The first is the counterexample of a run that is expected to find a violation, `run_ceiling`;
`PROJECT.json` quotes its lines. The others were met while modelling. The models do what the code
does, and the properties are stated so that they hold beside it.

| What the text says | What the code does |
|---|---|
| concurrent starts cannot both slip under a run ceiling (`budget.ts:92`) | the budget is checked on a snapshot, admission does not look again |
| two snapshots yield "the write set exactly", writes "are reliable" (`workspace-diff.ts:5-8`) | a walk stops after 5000 entries, in the order of `readdir` (36, 50, 58), so in a larger workspace a file that was written may be missing and one that was there before may be named; ignored directories and names, links and unreadable files are never named |
| the badge describes the Agent, not just one turn (`agent-service.ts:1273`) | a turn that fails or is cancelled overwrites the badge while another principal's run goes on (1316) |
| a reset starts the conversation over | a turn admitted between the reset's check (350) and its mutation (355) stores the dropped thread again |
| a plan is advanced until nothing is left to run (`agent-service.ts:837`) | when a call of `/advance` holds the only ready step the background loop ends (852); later steps never run |
| a revision deprecates the old version (`service.ts:1673`) | overlapping jobs on one version leave two active ones (1746) |
| retry the brief once the specialist's run finishes (`agent-service.ts:1100`) | the refinement is already "applied" and a second call is refused |
| a follow-up belongs to whoever answered last (`agent-service.ts:485`) | `lastResponder` passes over the answers of the conversation's own Agent (276), so it goes to an earlier answerer |
| a specialist that cannot take a turn must not cost the user the turn | one that is stopped between the delegation check and the admission does: 409 |
| a scope needs "at least this share of exemplar runs" (`scope.ts:45`) | the half is of the runs that left evidence |
| a run belongs to whoever started it (`App.tsx:666`) | a load or a send of the previous principal that is answered late shows under the new name |
| cancellation and limits end a run | a removal that comes before the container exists is remembered as done (`container-codex-runner.ts:224`); nothing ends that run but itself |
| a contract's runs count for its budget (`codify/budget.ts:80-101`) | deleting the Agent of a conversation removes the runs that stayed there (`agent-service.ts:227`), and what they spent is free again |

The page has gaps that no text speaks of. `QuietPageIsTrue` and the variables `unfollowed` and `misled`
excuse these and no others:

- A load is two requests (`App.tsx:634`). When a run ends between their answers, the runs say that it is
  over while the messages lack its answer, and nothing asks for them again.
- Of the runs a load finds, only the latest is followed (639-642); the answer of an earlier one does
  not come.
- The guard of `pollRun` is by run alone (785). While the loop of a delegated run serves the display of
  another Agent, the run stays "running" on this one, and its answer does not come.
- `pollSession` (817-832) asks for the session only. What its steps file comes with the next load.
- The page appends what it sends (App.tsx 845-876), also after something that was stamped later, while
  the server orders by `createdAt` (`agent-service.ts:326`), a time taken before routing and planning (457).
- An answer may be older than what the page has: a load that was answered before a send was filed takes
  the sent message off the page again.

## 2. The modules

| Module | What it is |
|---|---|
| `JsonStore` | `store.ts`, one step per await |
| `AtomicStore` | what the rest of the server assumes of the store; `JsonStore` implements it |
| `AgentLifecycle` | Agents, runs, threads, operator calls, crash and restart |
| `Coordination` | one session from the planner's reply on, and everything that advances it |
| `PlanExecution` | what a session promises of its plan; `Coordination` implements it |
| `Promotion` | from observed prompts to candidates and contracts |
| `Contracts` | the contract of one promoted task, its versions, budget and brief |
| `Routing` | how a message finds its contract and its Agent |
| `Continuity` | whether a turn is a follow-up, over cached and retried embeddings |
| `Runner` | the three runners, the broker, the engine's containers and networks |
| `WebClient` | what the page shows of one conversation |
| `JsonStoreProofs`, `AgentLifecycleProofs`, `CoordinationProofs`, `PromotionProofs`, `ContractsProofs`, `RoutingProofs`, `ContinuityProofs`, `RunnerProofs` | their theorems |
| `MC*` | sets, functions and symmetries for TLC |

The modules compose by assumption and guarantee. `JsonStore` shows that the file behaves as
`AtomicStore`: a mutation takes effect at one instant, in the order of the calls. The other
modules therefore write a mutation as one action, taken at any time after the handler reaches it.
`Coordination` and `Contracts` assume of a run what `AgentLifecycle` establishes (it ends), and
`AgentLifecycle` assumes of the runner what `Runner` does (a run ends, a cancellation that has
returned leaves nothing live; the exception that `RunsEnd` names is outside that assumption).
`Runner` assumes the admission's one run per principal and Agent. `Promotion` ends where `Contracts`
begins, and `Routing` takes their contracts as given, two active versions of a task included.

### JsonStore

`Mutate` is the call, `Begin` the clone, `MutationReturns` / `MutationThrows` the callback,
`Write`, `Rename`, `RenameRefused`, `RenameFails` the stages of `persist` and `renameWithRetry`,
`Swap` the assignment of `this.data` and the answer. `Crash` may come at any of them and leaves
any part of the `.tmp` file. The database is the sequence of mutations it contains, which tells
lost, half-applied and reordered updates apart. `Initialize` is the read at startup, or the
first write of an empty database. `AtomicStore` is the log of mutations with the callers' outcomes: one
is appended at one instant, in call order, an acknowledged one stays, a rejected one was never there.

### AgentLifecycle

A *turn* is one call of `sendMessage` and the execution it becomes; `phase` says at which await it
stands:

    idle -> routing -> admitting -> starting -> setup -> live -> succeeding | failing | cancelled
                                                                       -> evidence -> over

`Admit` is the admission mutation with its two refusals; `StartRun` the mutation that marks the run
as running and the look at `cancellationRequests` that follows; `Launch` preparation up to the point
where `runner.cancel` can reach the container; `Succeed` and `FailRun` the outcome mutations with
their recomputation of the badge; `EndRun` the `finally`, which forgets the execution unless a
later run of the same principal has taken its place. An operator *call* goes through the stages
of `cancelExecution` (`killing`, `draining`, `finishing`), or for a reset through the check and
the mutation. `StoreFault` rejects a mutation at any of the places where the code awaits one
for a turn. `Crash` keeps only what is in the store, `Restart` is `initialize()`.

Because the store serves mutations in call order, and `resetSession` queues its mutation in the
step that reads the badge, only turns whose mutation was queued earlier may still go first. That is
what `Queued` and `Served` are for; without them the reset's race would look worse than it is.

Which Agent a turn goes to is left open (`Route` allows the one addressed and any that is ready),
and so is whether a thread is resumed, so the properties hold for every routing decision.

### Coordination

A session begins with a reply of the planning model: a sequence of lines, each with its number and
the numbers it comes after, as written. `ParsePlan` sorts, rejects and trims as `parsePlan` does; what is
no plan (`plan = <<>>`) becomes a session with a goal that is repeated. A *driver* is
`runSessionToCompletion` or one call of `/advance`. It plans a wave from a snapshot (`PlanWave`, with
`Choices` the participants that `selectParticipant` may pick for a step, one with a contract if the
text matches one and else the longest idle), looks the Agents up (`Launch`), and then each step of the
wave claims, dispatches and settles its turn as a task of its own (`Claim`, `LoseClaim`, `Dispatch`,
`Settle`). `EndWave` is the loop's condition. `Verdict` is `shouldStop` in the order of its tests;
`Claimable` the refusals of `claimTurn`. `GiveUp` and `FallBack` are `splitIntoSession`. A crash ends
the drivers and leaves the session as it was. The store may reject what a call awaits (`Reject`): a
claim is then given up like one that was lost, a settlement is tried once more as failed (`Settle` with
`outcome = "failed"`), and when that is rejected too the turn stays claimed, the call ends, and the
other turns of its wave go on (`LeaveClaimed`); a rejected stop ends the split request with an error
and no fallback. Deletions, crashes and rejected mutations are bounded together, by `MaxTroubles`. `PlanExecution` knows steps, their dependencies and a
verdict, and nothing of turns, claims, waves or callers.

### Promotion

The prompts are wordings of one task. Two prompts match when their wording is the same (the lexical
channels) or both are embedded (the semantic one), so which prompts form a cluster changes when
embeddings arrive late. `Ask` is the observation, made before the turn is routed; `EndRun` its
evidence; `Detect` the back-fill of embeddings and the clustering on a snapshot; `StoreCandidates` the
mutation that merges the proposals. A *job* is one call: a page's detection, an operator's
approval, or a governance pass, which detects, lists what is pending and reviews it one by one.
`BeginApprove` reads the candidate, `StoreContract` writes it approved and appends the contract two
awaits later without looking again; `overlapped` remembers for which candidate an operator's approval
was in progress together with another. Detection's rules are operators (`SeedOf`, `Clears`,
`DeriveScope`, `Merge`, `ClampForAutoGrant`), each written once after the code. `GrantSecrets` is
`codifyAutoGrantSecrets`, whether the governance pass may grant secrets (by default, and in the run, it
may not): what it withholds is `Withheld`.

### Contracts

A turn goes through routing to a version, the budget check, admission and its end, each a step of
its own, as in `sendMessage`. A *job* is one call that writes a version: a revision, or a
refinement (by an operator or by the governance pass) with its second step, the brief. The next
version is prepared from a snapshot (`Begin*`) and stored by `WriteVersion`, which deprecates the
parent whatever has become of it. `EndRun` records the hosts a run was denied. `Lineage` is
`contractLineage`: back along `supersedes`, then to everything that descends from a member.
`DeleteSpecialist` deprecates every version and drops the specialist's runs; `DeleteConversation` drops
those that stayed with the Agent they were asked of, any of them, since `turn` does not say of which
Agent. `late`, the turns that were routed at the ceiling, starts over then. The initial states are
those right after `approveCandidate`.

### Routing

A prompt is how well it matches each exemplar, on its best channel and relative to that channel's
threshold. `Ranked` is the one pass of `route` over the contracts in the order of the store, keeping
the best and its runner-up (`AfterContract`); `Tie` compares the two; `HeldToItsOwn` says when the
addressed Agent's own contract binds. One message goes through `FollowUp`, `Route`, `TurnAway` or
`Place` (the budget, the delegation), `Admit` or `Refuse`, each on a fresh snapshot, while Agents
stop, start and answer and contracts come and go.

### Continuity

`Classify` is the start of `classifyFollowUp`; a *call* is one `embedPrompt` for a turn or an anchor
(`Embed`, `FailTransiently`, `Refuse`, `GiveUp`), over the cache that evicts its oldest entry
(`Remember`). `Anchor` is the one load of all anchors that turns wait for together; it keeps what
it has loaded only when every anchor is there, and forgets a failure.

### Runner

One model for three providers: the brokered container, the plain container and the host process.
A run is prepared (workspace snapshot), gets its broker, spawns a client, and its container appears some
time later; it ends by itself, by the time limit or by a cancellation, publishes its evidence and
stops its broker. `Ask` is the memoised removal, `EntriesOf` what `cancel` finds, `Passes` the
broker's decision on a host, `Mounted` what a scope lets the run write, `Reap` the start after a crash.
A workspace is the set of its `Files`. `Listings` is what `snapshotWorkspace` may return: the files of
`Listed` (those not in an ignored directory, no link, readable), or any `MaxEntries` of them when there
are more, since which ones depends on the order of `readdir`; `PathsWritten` is `diffWorkspace` of two
such listings. The history variables `changed` and `cut` say what a run has really changed and for which
runs a listing was cut short. Engine calls fail (`StartFails`, `RemoveFails`). What codex does in its
container (`Write`, the hosts it asks for, when it exits) is external.

### WebClient

A request is a step at the page, a step at the server and a step back. A load is two requests that are
answered and arrive separately (`AnswerLoad` for either, `MessagesArrive`, `LoadArrives` for the runs
when both have come), as `Promise.all` of `refreshMessages` and `api.runs` is. `Wake`, `AnswerLoop`,
`RunArrives` and `LastLook` are `pollRun`; `FollowSession` is a turn of `pollSession`, any of which may
be its last (the code's 600th, or a request that fails). `Select` and `SwitchPrincipal` change what the
page is about while all these are on their way, and clear what the code clears.

A message sent goes through `Submit` (the request), `Receive` (`sendMessage` takes its timestamp), `File`
(the admission mutation, or that of the split) and `SendArrives`. A request that may be split
(`Compound`) is split by dispatching its first step, before it is filed itself; `Dispatch` sends the
steps, each a message and a run of its own, to the same conversation or another. `stamped` is the order
of timestamps and `filed` what is stored of it; `Transcript` and `RunsOf` are `getMessages` and `getRuns`,
which sort by timestamp, and a run is on the list of the Agent it was asked of and of the Agent it runs
on. `Settle` ends a run, with an answer or without, or a session after its steps.

Two history variables say what the page cannot know. `unfollowed` has the runs whose answer the page
will not hear of on this visit (`Unheard`, and a send whose run is followed for another display).
`misled` is set by an answer that is for another principal or older than what the page has heard
(`LateMessages`, `LateRuns`, `LateRun`), a message shown twice, or a request that failed, and stays
until the page is quiet and somebody moves to another Agent or principal.

## 3. What is checked

| Run | Instance | Distinct states | Shows |
|---|---|---|---|
| `json_store` | 3 mutations, 6 rename attempts, 2 crashes | 8 456 | the file is never torn, memory follows it, callers are answered, and `AtomicStore` is implemented |
| `agent_lifecycle` | 1 Agent, 2 principals, 3 turns, 1 operator call, 1 crash, 1 store fault | 971 000 | runs and threads kept apart, the store's word on them, tracking, stops, final outcomes |
| `agent_lifecycle_live` | 2 Agents, 1 principal, 2 turns, 1 call, no crash or fault | 218 000 | runs settle and calls return |
| `coordination` | 2 participants of which 1 has a contract, a plan of 3 steps from a scrambled reply or a goal, background loop and 2 callers, 1 deletion, crash or rejected mutation | 595 000 | steps once, no overlap, the ceiling, and `PlanExecution` |
| `coordination_live` | 531 replies of 2 or 3 lines, background loop only, 1 deletion, crash or rejected mutation | 62 000 | a plan reaches a verdict; the fallback runs alone |
| `promotion` | 2 users, 2 wordings, 3 prompts, 1 operator, passes of 2 runs, 2 detections | 776 000 | what a permission rests on, decisions stand, one contract per candidate |
| `contracts` | 1 host, limits 1 and 2, 1 user, 2 turns, 2 operators and the pass, 3 versions | 1 391 000 | widening, spending, governance, brief |
| `routing` | 3 contracts of 2 specialists, 5 prompts, 2 principals, 2 conversations, 2 answers, 2 changes | 2 509 000 | the choice is clear and independent of order; specialists are bound |
| `continuity` | 3 turns, 4 texts, 3 anchors, 3 attempts, 4 failures, a cache of 4 | 253 000 | verdicts are earned, outages forgotten |
| `runner` | 2 runs of one Agent, one or two principals, 3 providers, 3 files of which 1 is not listed, a listing of at most 1, 1 change per run, 1 failure or crash | 1 201 000 | evidence, clean-up, cancellation, the end of every run |
| `web_client` | 1 request, which may be split, and 1 step, 2 principals, 2 Agents, 3 events (requests, moves and failures), 2 loads at a time | 2 151 000 | a quiet page is true but for what it does not follow; only late answers mislead |

`run_ceiling` finds the violation of section 1.

**Why these bounds.** *Store*: three callers have one in service, one queued behind it and one
later; two crashes let one hit the recovery from another; six attempts are the code's own. *Lifecycle*:
the hazards are between two turns of one principal (a race for admission), two principals of one
Agent (the badge), and one of them with an operator's call; a third turn lets a run follow another
whose `finally` is still to come, which `UnsettledIsTracked` is about. One crash and one fault suffice
for each to meet every state the others produce; the proofs remove the bounds. Delegation to a second
Agent matters to safety only through the admission mutation, which is the same for both; the liveness
run has two Agents. *Coordination*: three steps are the least with a fork, a join or a chain whose
middle fails; two participants make both deferral (fewer Agents than steps) and parallel waves happen;
one caller beside the loop is enough for two claims of a step, two for an overlap in a session without
a plan; one trouble at any point leaves each of the gaps the session has to live with (a turn nobody will
settle, a participant that is not there, a driver that is), the proofs hold for any number of them. *Promotion*: two users are the least threshold that one user's prompts must not clear; three
prompts let a cluster change when an embedding arrives and a proposal be replaced between review and
approval; two detections let one read before a decision and write after it, and two runs' passes
compete. *Contracts*: three versions make a grandparent and a sibling, both of which `Lineage` must
count; two operators are needed for siblings with ceilings of their own, and the pass to overlap them.
Two turns exceed a ceiling of one. *Routing*: three contracts are the least where the runner-up is
overtaken by a later one; the prompts cover a near match, which is none once its
contract is gone, a clear one, ties of both orders and one that a third contract overrules; the second
change undoes the first, so that an Agent is back before the admission. *Continuity*: three attempts and four failures exhaust one
text and hurt a second; four places for seven texts force evictions. *Runner*: two runs meet in every
map, as one principal's successive runs or two principals' concurrent ones; one failure or crash is
enough for each cleanup to be the one that is missed. A listing of one file is cut short as soon as two are there, so
both kinds of listing occur before and after a run, and what an earlier run of the same principal left
or deleted can make the difference. *WebClient*: three events are a request and two changes of Agent or
principal (away and back around a request, a load, a settlement or a step), or a failure among them.
Two loads at a time are enough for one to overtake another. `NotLost` stops following a
misled page when no event is left: `misled` goes only with a move, so `QuietPageIsTrue` says nothing of
the states that are left out; `OnlyLateAnswersMislead` is checked on the steps that lead there, not
on those that follow.

**Deadlock** checking is on for `coordination`, `coordination_live`, `routing` and
`runner`, where it asks whether everything may stop before the bounds are reached. For the others
an instance whose turns, calls or events are used up has really finished; that nothing waits for ever
is what the liveness properties say.

**Symmetry** is used in safety runs only, over sets no constant formula orders.

**Fairness.** `JsonStore`: the head of the queue takes a next step, since a promise chain that is
ready is resumed and the file system answers. `AgentLifecycle`: every turn and every call that has
begun moves on, since the event loop resumes a handler whose await is over and `codexTimeoutMs` ends
a container that hangs; nobody has to send, stop or reset. `Coordination`: drivers that are running
move on, and runs end; nobody is assumed to call `/advance`. `Runner`: steps of the code, answers of the
engine and timers happen, while codex need not ever exit by itself. No action of an operator, no
crash, no restart and no fault is fair.

**Every property can fail.** For each property of a passing run `PROJECT.json` names a *mutant*: a
slip in one mapped definition (written before it in the module, such as `AlreadyStarted` before
`AlreadyRunning`) under which TLC finds the property violated in the same instance.

## 4. What is proved

The eight proof modules are checked by TLAPS from the named assumptions on the constants alone, and hold
for any number of callers, Agents, principals, turns, users, prompts, plans, contracts, hosts, runs,
crashes and faults. Together they state every safety property of the passing runs but those of
`WebClient`. Each states one inductive invariant, proves that every action keeps it (one step per
action), and derives the properties from it.

**JsonStoreProofs**: `TypeOK`, `MemoryTracksDisk` and the refinement of `AtomicStore`. `StoreInv`
adds `QueueFits` (the queue holds exactly the callers that wait, each once, and an operation is at work
for its head only), `ClonesFit` (the clone and the `.tmp` file hold what that operation has made of
`this.data`), `LogFits` (whatever is in the file is acknowledged, lost in a crash, or just being
answered) and `OrderFits` (the queue is in call order). A rename is the abstract store's commit; all
other steps change outcomes or stutter. `LogFits` is why a rejected mutation leaves no trace, `OrderFits`
why mutations commit in call order. `EveryCallerKeepsItsPlace` is the safety core of
`EveryCallerAnswered`: a caller that waits is in the queue of a running process, and a step leaves it at
its place, answers it, or moves it up by one because the head was answered: nobody overtakes it, and
no failure of an operation before it drops it.

**AgentLifecycleProofs**: every safety property of `agent_lifecycle`. None is inductive as it
stands. `LifecycleInv` adds

- `Addressed`: a turn that has begun has an Agent and a principal;
- `PhaseFits`: the phase of an execution and the record of its run agree. It carries most of the
  argument: an execution before its outcome has an open run, or a run removed with its Agent;
- `StopWaits`: from the request on, a stop or delete keeps account of each earlier run: either
  the run is awaited, or it is still to be found in `activeExecutions` when the wait begins;
- `ThreadsFit`: a thread belongs to the Agent and principal of the turn that began it.

Admission is the only step that opens a run and refuses a second one (`OneRunPerPrincipal`), hence
`activeExecutions`, indexed by Agent and principal, cannot lose an open run (`UnsettledIsTracked`),
hence a stop that awaits what is listed there has awaited them all (`StopsReachTheirRuns`).
`StoreTellsTruth` says among other things that a rejected mutation is the *only* way to a run left in
flight.

`WaitsAreForTheEnding` is the safety core of `NothingHangs`: what a stop or a delete waits for is an
execution that is under way (`EntriesRun`: `activeExecutions` never leads to a turn that has yet to be
admitted, nor to one that has ended), and as long as it waits for a container to end that container
has been killed. A call can then hang only with an execution that hangs.

**CoordinationProofs**: `TypeOK` with the ceiling, `StepsRunOnce`, `TurnsDoNotOverlap` and the
refinement of `PlanExecution`, for every reply of the model. `PlanShape` is what `parsePlan` guarantees:
two to five steps, dependencies backwards. `TasksFit` says that what a call waits to claim has its
dependencies behind it, although they were checked on an old snapshot (a completed step stays
completed), and that a turn in flight is held by one call; `RoomFits` that an active session without a
plan has room. `Ceiling` is a pigeonhole: a plan has at most one turn per step, so `claimTurn` need not
compare. For the refinement, `StuckMeansFailed` shows that a plan without a ready step and without a
turn in flight has a failed one, whence the verdicts of `shouldStop` are those of the plan
(`VerdictFits`), and `AbstractStep` takes each step to one of `PlanExecution` or to none.

`FallbackIsAlone` needs `AloneFits`: as long as nobody but the background call has touched the session,
only that call's wave has work, the fallback is entered after it is over, and a step that was sent has
answered the request, which then waits no more (`Answers`, the code's `onDispatch`). That nothing undoes
a disturbance (`UndisturbedBefore`) is what makes it inductive.

`PlanNeverAbandoned` and `EveryWaveAddsTurns` are the safety core of `PlansFinish`. The loop of
`runSessionToCompletion` stops when a wave has added no turn; its comment says that every wave settles
at least one step. That is so because, undisturbed, `LoopFits` holds: the step a wave intends has no
turn yet, its Agent has none in flight and no other intent (`IntentsFit`), so that `claimTurn` cannot
refuse it; a claimed turn is held by the loop's own wave (`ClaimsHeld`), so that at the end of the wave
none is outstanding; and a wave without a new turn has an intent left (`WaveWorks`), for the planner
finds one in every active session without outstanding turns: that is `VerdictCurrent` (the stored
status is what `shouldStop` says of the stored turns) with `StuckMeansFailed`. `RoundsFit` counts
rounds by turns, which `Ceiling` bounds, hence the `for` loop's own bound never cuts a plan short.
What `PlansFinish` adds is fairness: that the next step of the loop and of its runs is taken.

**PromotionProofs**: all four properties of `promotion`. `EvidenceFits` says that every candidate,
every proposal a detection carries and every approval in progress rests on enough prompts of enough users
and on grants their runs used, and that a pass carries nothing that is withheld from it, with
`codifyAutoGrantSecrets` or without; it survives because prompts are never
forgotten and what a run has used only grows (`EvidenceGrows`). `OnePass` is the serialisation of
governance passes. `DecisionsFit` says that a contract's candidate is decided and that an approval
nobody's call overlapped is the only one and comes before any contract; with `OnePass` that excludes
two contracts of passes alone.

**ContractsProofs**: every safety property of `contracts`.
`TypeInv` joins the types with

- `JobsFit`: what a call carries from its snapshot to its mutation is still right when it
  stores it: the parent is there, and every host the scope gains was denied to a run of the
  parent. It is preserved because versions never change but for their status (`HistoryStays`)
  and denials only grow: the argument why a revision prepared from a snapshot is safe although
  the mutation checks nothing;
- `RoomKept`: places for versions are counted with the calls that will store one, by the
  cardinality of a finite set (`OperatorsAssumption`);
- `TurnsFit`, `RulesFit`: turns and jobs refer to versions and rules that are there.

`WideningHolds` follows from `JobsFit`. `GovernedHolds`: what is stored last is active.
`InStepHolds` (`VersionsInStep`) needs `InStepInv`: as long as jobs do not overlap there is at most
one, the version it revises is the only active one, and while the brief is being written the last
version is the only active one and has the brief's rules.

`SpentHolds` (`SpentStaysSpent`) rests on `OneLineage`: the lineage of *every* version is the whole
task, since only the first has no parent (`Rooted`). `Lineage` follows parents by a recursive function,
and the library's induction theorems take an operator as a parameter, which no prover here can
instantiate. `ChainExists` therefore argues by a least counterexample: `<` on the naturals is well
founded, so a set of numbers for which the function does not exist would have a least member, and one
below it the function does exist and can be extended. `LateHeld` then says what a turn routed at the
ceiling keeps until its budget check: it is not admitted, the task's runs are no fewer, and the limit of
its version has not changed (`HistoryStays`). A deleted conversation may make them fewer, and `late` starts
over there.

**RoutingProofs**: every property of `routing`, for any contracts in any order and any scores. `Leads`
is the loop invariant of `route`: the best of the recognised contracts passed so far and the best of the
rest. `AfterContractLeads` shows that one more contract keeps it (it is where the forgetful mutant
breaks), and `RankedLeads` carries it to the end of the store, again by a least counterexample; that the
scores of a contract have a greatest element (`GreatestOf`) is why exemplars are finite. `BestIsAhead`
then says that `Best` is a contract exactly if it is ahead of all others by the margin, which does not
mention the order any more. `RoutingInv` adds `DecisionFits` (what was decided is what the contracts
known at that time give, whatever has changed since), `ExecutorFits` (who executes is the Agent the
message was routed for or the specialist of its contract) and `RoomKept` (the answer has a place).
`SpecialistIsBound` follows from the first two: an Agent that owned a contract known to the message has
it as `OwnContract`.

**ContinuityProofs**: every property of `continuity`. `ContinuityInv` has `CacheFits` (bounded, each
text once: `RememberFits`), `CallsFit` (who waits has one call, for the text it waits for, and a call's
attempt is at most one more than the failures so far), `AnchorsFit` (an anchor that did not embed has
its `Excused`: a refusal, or as many failures as a text has attempts, and no turn that began after
recovery knows of it; a load that is kept is whole) and `VerdictsFit`. That an attempt accounts for a
failure is what turns the retries into a bound on when the words may decide.

**RunnerProofs**: every safety property of `runner`. The parts of `RunnerInv` are

- `BegunFits`, `BrokersFit`, `EngineFits`: what exists in the engine is what the phase of its run accounts
  for; hence `NothingLeftBehind`, crashes included, for a restart reaps before it serves;
- `WorkspaceFits`: a place has one run at a time, so what is there differs from what a run found
  by just the files it has changed itself; if neither listing is cut short, the difference of the two is
  therefore `changed`, as far as it is listed. With the broker's log this gives `EvidenceIsComplete`
  for any number of files, any that are passed over, and any `MaxEntries`;
- `OverlapsFit` and `CancelFits`: a live run without an entry of its own in `active` is a host
  process another run of its Agent has overlapped; every other run that was live when `cancel` was
  called is marked until its client closes, and its outcome says so afterwards (`CancelReaches`).

`EveryHaltArrives` is the safety core of `RunsEnd`: a live execution that the time limit or `cancel`
has marked has its removal on the way, unless the removal came before its container (`missed`, the
disagreement of section 1), and a `cancel` that waits, waits for such executions alone. So the memoised
removal of `Ask` loses no request in any other way.

**Model-checked only.** Liveness (`NothingHangs`, `EveryCallerAnswered`, `PlansFinish`, `RunsEnd`), which
TLAPS cannot prove (fairness and ENABLED); the theorems above state for each of the four what it
needs of every reachable state or step. The violation of section 1. And the three properties of
`WebClient`: `QuietPageIsTrue` compares the page with a filtered history of the server (`SelectSeq` over a
sequence that is appended to), and its invariant has to relate every request on its way to what the
page was about when it was asked; `OnlyLateAnswersMislead` needs the same invariant. The run covers their
hazard, the order of requests, answers and moves, for the few that section 3 names.

## 5. What is abstracted or left out

- *Text*: prompts, instructions, briefs, answers, spans, traces, redaction. A rule is named by the
  users whose corrections it was drafted from.
- *Similarity*: `Routing` takes scores, `Continuity` distances, `Promotion` a relation; fingerprints,
  cosines and the near matches that are only explained to the user are not modelled. Which contract the
  text of a session's step matches is open in `Coordination`.
- *Agent fields*: `updateAgent` (refused while busy) and `applyBriefToAgent` change text in
  `AgentLifecycle`'s terms; the brief's rules are in `Contracts`. The single `codexThreadId` of
  old stores is not modelled.
- *Budgets*: run ceilings only; token and duration limits are sums over the same runs. A turn that is
  refused after its conversation was deleted is not told from one refused otherwise (`NotAdmitted`).
- *Corrections*: `Correct` lets a follow-up count for any version with a run that has ended, while
  the code takes the latest run of the conversation: more behaviours than the code has.
- *Promotion*: a scope is a set of grants, so the collapsing of paths to directories is the identity
  on it; the hosts and secrets that `deriveScope` never proposes and its cap on domains are left out, so
  the model proposes at least what the code does; candidate keys are wordings, while in the code the key of a cluster may shift when its seed
  changes. Observations are recorded for every turn, refused and split ones included, as in the code.
- *Sessions*: a goal's turn is claimed with an instruction that may be stale (hazard at
  `coordination.ts:360`); what a turn is asked is not followed. A session whose settlement was rejected
  never ends by itself, since the turn stays claimed (`agent-service.ts:921`); no property asks that it
  does.
- *Routing*: the tie margin is a constant; its default in the code is 0, with which only equal
  scores are a tie.
- *Runner*: a file is there or not, and one that was rewritten is another; size and mtime are taken to
  tell them apart, and reads (atime, and the commands codex reports) are not modelled. What
  `workspace-diff.ts` passes over (directories, AGENTS.md and .codex, links, what cannot be read) is not in
  `Listed`, so what the platform itself writes into a workspace does not matter. Principals have
  workspaces of their own; names that differ only in characters that `workspacePathFor` replaces
  would share one. Killing the client before its container exists is assumed to prevent the container;
  `handleArk` (the proxy to the model provider), the secrets' delivery and the parsing of events are not
  modelled. `sessions` is written and never read, so it has no variable. Containers of runs are reaped
  by `scripts/start-local-poc.sh`, not by the server, and a crash may leave them
  (`NothingLeftBehind` says so).
- *Page*: the composer's text, the list of Agents and its busy badge, contracts, uploads and the governance
  view; the button that resets a conversation, the one that dismisses a banner, and deleted Agents. A
  step of a session is stamped and filed at once, as is an answer, which in the code are an await apart;
  timestamps do not tie, and messages of old stores without a principal are left out. A delegated send
  waits for `refreshAgents` before it displays anything, which is here part of the send's own delay.
- *Not modelled*: tracing, redaction and seed data, HTTP validation, the model client's requests,
  deployment and benchmarks: text, I/O, or no state another component decides by.

## 6. Plan

The plan of the first version (promotion, runner and broker, routing, continuity, the page, store
faults in sessions, and the proofs for all components but the page) is done. What is left, in order of importance:

1. proofs for `WebClient`: `TypeOK` first (one loop per run), then the invariant that relates requests on their way to the
   Agent and principal they were asked for, and from it `OnlyLateAnswersMislead`;
2. the instruction of a goal's turn in `Coordination`, with the snapshot it was planned from;
3. `updateAgent` and refused edits in `AgentLifecycle`; token and duration limits in `Contracts`.
