---------------------------- MODULE RunnerProofs ----------------------------
(***************************************************************************)
(* What the three runners keep, for any number of Agents, runs and hosts,  *)
(* and however many engine calls fail and processes die.                   *)
(***************************************************************************)
EXTENDS Runner, TLAPS

\* A run has an Agent once it has begun, and an entry in `active` from its spawn on.
BegunFits ==
  /\ \A r \in Runs : agent[r] = NoAgent <=> phase[r] = "idle"
  /\ \A r \in active : phase[r] \notin Before

\* Only BrokerSession.start makes networks and brokers; a process that is up and whose
\* engine has not refused holds none but those of its own runs.
BrokersFit ==
  /\ \A r \in Runs : phase[r] \in {"starting", "network"} => Brokered
  /\ networks # {} \/ brokers # {} => Brokered
  /\ up /\ faults = 0 =>
       \A r \in brokers : phase[r] \in {"ready", "live", "closed", "evidence", "closing"}

\* Where nothing failed, what exists in the engine is what the phase of its run accounts for.
EngineFits ==
  crashes = 0 /\ faults = 0 =>
    /\ \A r \in containers : phase[r] = "live"
    /\ \A r \in networks :
         phase[r] \in {"network", "ready", "live", "closed", "evidence", "closing"}

\* A place has one run at a time, so that what a run found there differs from what is there
\* by what it changed itself, as far as both are listed; before its spawn it has changed and
\* reached nothing.
Undisturbed == crashes = 0 /\ faults = 0 /\ provider # "plain"

OneRunPerPlace ==
  \A r, x \in Runs : /\ r # x /\ agent[r] # NoAgent /\ Place(r) = Place(x)
                     => phase[r] = "over" \/ phase[x] = "over"

Untouched ==
  \A r \in Runs : phase[r] \in Before =>
    log[r] = {} /\ evidence[r] = Nothing /\ changed[r] = {}

FoundFits(r) == before[r] = SymDiff(workspace[Place(r)], changed[r]) \cap Listed

WorkspaceFits ==
  /\ OneRunPerPlace
  /\ \A r \in Runs : log[r] # {} => Brokered
  /\ Undisturbed =>
       /\ Untouched
       /\ \A r \in Runs \ cut : phase[r] \in Working => FoundFits(r)

\* Host processes of one Agent at a time have overlapped; an entry is lost to an overlap only.
OverlapsFit ==
  /\ provider = "host" => \A r, x \in Runs :
       /\ r # x /\ agent[r] = agent[x] /\ phase[r] \in Working /\ phase[x] \in Working
       => r \in shared /\ x \in shared
  /\ \A r \in Runs : phase[r] = "live" /\ r \notin active => provider = "host" /\ r \in shared

\* A run that was live when cancel() was called is marked until its client closes, and its
\* outcome says so after.
CancelFits ==
  cancel.phase # "idle" =>
    \A r \in cancel.earlier :
      \/ provider = "host" /\ r \in shared
      \/ /\ r \in cancel.targets /\ phase[r] \notin Before
         /\ IF phase[r] = "live"
            THEN "cancelled" \in halted[r] /\ cancel.phase = "waiting"
            ELSE outcome[r] = "cancelled"

Phases == Before \cup {"live", "closed", "evidence", "closing", "over"}

-----------------------------------------------------------------------------
\* What a run has on the engine, in its workspace and in `active` has its type, and a host
\* process has the only entry of its Agent.
LEMMA TypesStep ==
  ASSUME TypeOK, BegunFits, [Next]_vars
  PROVE  TypeOK'
<1>1. ASSUME NEW r \in Runs, NEW a \in Agents, Begin(r, a) PROVE TypeOK'
  <2>1. /\ phase' \in [Runs -> Phases] /\ agent' \in [Runs -> Agents \cup {NoAgent}]
        /\ outcome' \in [Runs -> {"none", "ended", "cancelled"}]
    BY <1>1 DEF Begin, TypeOK, Phases, Before
  <2>2. r \notin active /\ \A x \in Runs \ {r} : agent'[x] = agent[x]
    BY <1>1 DEF Begin, TypeOK, BegunFits, Before
  <2>3. provider' = "host" => \A x, y \in active' : agent'[x] = agent'[y] => x = y
    BY <1>1, <2>2 DEF Begin, TypeOK, setting
  <2> QED
    BY <1>1, <2>1, <2>3
    DEF Begin, TypeOK, Phases, setting, engine, world, history, bounds
<1>2. ASSUME NEW r \in Runs, Prepare(r) PROVE TypeOK'
  <2>1. PICK listing \in Listings(workspace[Place(r)]) :
             before' = [before EXCEPT ![r] = listing]
    BY <1>2 DEF Prepare
  <2>2. listing \subseteq Files
    BY <2>1, FilesAssumption DEF Listings
  <2>3. /\ phase' \in [Runs -> Phases] /\ before' \in [Runs -> SUBSET Files]
        /\ shared' \subseteq Runs /\ cut' \subseteq Runs
    BY <1>2, <2>1, <2>2 DEF Prepare, TypeOK, Phases, Before, Mates, CutShort
  <2> QED
    BY <1>2, <2>3 DEF Prepare, TypeOK, Phases, setting, engine, world, bounds
<1>3. ASSUME NEW r \in Runs, StartBroker(r) PROVE TypeOK'
  <2>1. /\ phase' \in [Runs -> Phases] /\ networks' \subseteq Runs /\ brokers' \subseteq Runs
    BY <1>3 DEF StartBroker, TypeOK, Phases, Before
  <2> QED
    BY <1>3, <2>1 DEF StartBroker, TypeOK, Phases, setting, world, history, bounds
<1>4. ASSUME NEW r \in Runs, StartFails(r) PROVE TypeOK'
  BY <1>4 DEF StartFails, TypeOK, Before, BegunFits, world, setting, history, bounds,
              Brokered, AfterFailedStart
<1>5. ASSUME NEW r \in Runs, Spawn(r) PROVE TypeOK'
  BY <1>5 DEF Spawn, TypeOK, Before, BegunFits, world, setting, history, bounds, Entered,
              Mates
<1>6. ASSUME NEW r \in Runs, Create(r) PROVE TypeOK'
  BY <1>6 DEF Create, TypeOK, Before, BegunFits, world, setting, local, history, bounds,
              Brokered
<1>7. ASSUME NEW r \in Runs, NEW h \in Hosts, Request(r, h) PROVE TypeOK'
  BY <1>7 DEF Request, TypeOK, Before, BegunFits, setting, local, history, engine, bounds,
              Passes, Brokered
<1>8. ASSUME NEW r \in Runs, Write(r) PROVE TypeOK'
  <2>1. PICK f \in Files :
             /\ workspace' = [workspace EXCEPT ![Place(r)] = SymDiff(@, {f})]
             /\ changed' = [changed EXCEPT ![r] = SymDiff(@, {f})]
    BY <1>8 DEF Write
  <2>2. /\ workspace' \in [Agents \X Principals -> SUBSET Files]
        /\ changed' \in [Runs -> SUBSET Files]
    BY <2>1 DEF TypeOK, SymDiff
  <2> QED
    BY <1>8, <2>2 DEF Write, TypeOK, setting, local, engine, history, bounds
<1>9. ASSUME NEW r \in Runs, Exit(r) PROVE TypeOK'
  BY <1>9 DEF Exit, TypeOK, Before, BegunFits, world, setting, history, bounds, OutcomeOf
<1>10. ASSUME NEW r \in Runs, ExitOrphaned(r) PROVE TypeOK'
  BY <1>10 DEF ExitOrphaned, TypeOK, Before, BegunFits, world, setting, local, history,
               bounds
<1>11. ASSUME NEW r \in Runs, Limit(r) PROVE TypeOK'
  BY <1>11 DEF Limit, TypeOK, Before, BegunFits, world, setting, history, engine, bounds,
               Halted, Ask
<1>12. ASSUME NEW r \in Runs, Remove(r) PROVE TypeOK'
  <2>1. /\ phase' \in [Runs -> Phases] /\ removal' \in [Runs -> {"none", "asked", "done"}]
        /\ outcome' \in [Runs -> {"none", "ended", "cancelled"}]
    BY <1>12 DEF Remove, OutcomeOf, TypeOK, Phases, Before
  <2>2. containers' \subseteq Runs /\ missed' \subseteq Runs /\ faults' \in 0 .. MaxFailures
    BY <1>12, BoundsAssumption DEF Remove, TypeOK, history, bounds
  <2>3. UNCHANGED <<provider, asker, agent, active, halted, evidence, before, cancel, networks,
                    brokers, log, workspace, shared, changed, cut,
                    up, crashes>>
    BY <1>12 DEF Remove, setting, world, history, bounds
  <2> QED
    BY <2>1, <2>2, <2>3 DEF TypeOK, Phases
<1>13. ASSUME NEW r \in Runs, RemoveFails(r) PROVE TypeOK'
  <2>1. /\ phase' \in [Runs -> Phases] /\ removal' \in [Runs -> {"none", "asked", "done"}]
        /\ outcome' \in [Runs -> {"none", "ended", "cancelled"}]
    BY <1>13 DEF RemoveFails, OutcomeOf, TypeOK, Phases, Before
  <2>2. containers' \subseteq Runs /\ missed' \subseteq Runs /\ faults' \in 0 .. MaxFailures
    BY <1>13, BoundsAssumption DEF RemoveFails, TypeOK, history, bounds
  <2>3. UNCHANGED <<provider, asker, agent, active, halted, evidence, before, cancel, networks,
                    brokers, log, workspace, shared, changed, cut,
                    up, crashes>>
    BY <1>13 DEF RemoveFails, setting, world, history, bounds
  <2> QED
    BY <2>1, <2>2, <2>3 DEF TypeOK, Phases
<1>14. ASSUME NEW r \in Runs, Settle(r) PROVE TypeOK'
  BY <1>14 DEF Settle, TypeOK, Before, BegunFits, world, setting, history, engine, bounds,
               Deleted, Mates
<1>15. ASSUME NEW r \in Runs, Publish(r) PROVE TypeOK'
  <2>1. PICK listing \in Listings(workspace[Place(r)]) :
             evidence' = [evidence EXCEPT ![r] = EvidenceOf(r, listing)]
    BY <1>15 DEF Publish
  <2>2. EvidenceOf(r, listing) \in [hosts : SUBSET Hosts, files : SUBSET Files]
    <3>1. listing \subseteq Files
      BY <2>1, FilesAssumption DEF Listings
    <3> QED
      BY <3>1 DEF EvidenceOf, HostEvidence, PathsWritten, SymDiff, TypeOK
  <2>3. /\ phase' \in [Runs -> Phases] /\ before' \in [Runs -> SUBSET Files]
        /\ evidence' \in [Runs -> [hosts : SUBSET Hosts, files : SUBSET Files]]
        /\ cut' \subseteq Runs
    BY <1>15, <2>1, <2>2 DEF Publish, TypeOK, Phases, Before, CutShort
  <2> QED
    BY <1>15, <2>3 DEF Publish, TypeOK, Phases, setting, engine, world, bounds
<1>16. ASSUME NEW r \in Runs, StopBroker(r) PROVE TypeOK'
  <2>1. phase' \in [Runs -> Phases]
    BY <1>16 DEF StopBroker, TypeOK, Phases, Before
  <2>2. networks' \subseteq Runs /\ brokers' \subseteq Runs /\ faults' \in 0 .. MaxFailures
    BY <1>16, BoundsAssumption DEF StopBroker, TypeOK, bounds
  <2>3. UNCHANGED <<provider, asker, agent, active, halted, removal, outcome, evidence, before,
                    cancel, containers, log, workspace, missed, shared, changed, cut, up, crashes>>
    BY <1>16 DEF StopBroker, setting, world, history, bounds
  <2> QED
    BY <2>1, <2>2, <2>3 DEF TypeOK, Phases
<1>17. ASSUME NEW a \in Agents, Cancel(a) PROVE TypeOK'
  BY <1>17 DEF Cancel, TypeOK, Before, BegunFits, world, setting, history, engine, bounds,
               Halted, EntriesOf, Ask
<1>18. ASSUME CancelReturns PROVE TypeOK'
  BY <1>18 DEF CancelReturns, TypeOK, Before, BegunFits, world, setting, local, history,
               engine, bounds
<1>19. ASSUME Crash PROVE TypeOK'
  <2>1. phase' \in [Runs -> Phases] /\ removal' \in [Runs -> {"none", "asked", "done"}]
    BY <1>19 DEF Crash, Phases, Before
  <2>2. cancel' \in [phase : {"idle", "waiting", "returned"}, agent : Agents \cup {NoAgent},
                    targets : SUBSET Runs, earlier : SUBSET Runs]
    BY <1>19 DEF Crash, NoCancel
  <2>3. faults' \in 0 .. MaxFailures /\ crashes' \in 0 .. MaxFailures
    <3>1. /\ faults + crashes < MaxFailures /\ faults \in 0 .. MaxFailures
          /\ crashes \in 0 .. MaxFailures /\ crashes' = crashes + 1 /\ faults' = faults
      BY <1>19 DEF Crash, TypeOK
    <3> QED
      BY <3>1, BoundsAssumption
  <2>4. /\ up' = FALSE /\ active' = {} /\ halted' \in [Runs -> SUBSET {"cancelled", "limited"}]
        /\ before' \in [Runs -> SUBSET Files]
    BY <1>19 DEF Crash
  <2>5. UNCHANGED <<provider, asker, agent, outcome, evidence, networks, brokers, containers,
                    log, workspace, missed, shared, changed, cut>>
    BY <1>19 DEF Crash, setting, engine, world, history
  <2> QED
    BY <2>1, <2>2, <2>3, <2>4, <2>5 DEF TypeOK, Phases
<1>20. ASSUME Restart PROVE TypeOK'
  BY <1>20 DEF Restart, TypeOK, Before, BegunFits, world, setting, local, history, Reap,
               Brokered
<1>21. CASE UNCHANGED vars
  BY <1>21 DEF TypeOK, Before, BegunFits, vars, world, setting, local, history, engine,
               bounds
<1> QED
  BY <1>1, <1>2, <1>3, <1>4, <1>5, <1>6, <1>7, <1>8, <1>9, <1>10, <1>11, <1>12, <1>13,
     <1>14, <1>15, <1>16, <1>17, <1>18, <1>19, <1>20, <1>21 DEF Next, RunStep, Finished

\* A run has its Agent from its first phase on, and its entry after its spawn.
LEMMA BegunStep ==
  ASSUME TypeOK, BegunFits, [Next]_vars
  PROVE  BegunFits'
<1>1. ASSUME NEW r \in Runs, NEW a \in Agents, Begin(r, a) PROVE BegunFits'
  BY <1>1, NoAgentAssumption DEF Begin, BegunFits, Before, TypeOK, world, setting, history,
                                 engine, bounds, EntriesOf
<1>2. ASSUME NEW r \in Runs, Prepare(r) PROVE BegunFits'
  BY <1>2 DEF Prepare, BegunFits, Before, TypeOK, world, setting, engine, bounds, Working,
              Place, Mates, Brokered
<1>3. ASSUME NEW r \in Runs, StartBroker(r) PROVE BegunFits'
  BY <1>3 DEF StartBroker, BegunFits, Before, TypeOK, world, setting, history, bounds
<1>4. ASSUME NEW r \in Runs, StartFails(r) PROVE BegunFits'
  BY <1>4 DEF StartFails, BegunFits, Before, TypeOK, world, setting, history, bounds,
              Brokered, AfterFailedStart
<1>5. ASSUME NEW r \in Runs, Spawn(r) PROVE BegunFits'
  BY <1>5 DEF Spawn, BegunFits, Before, TypeOK, world, setting, history, bounds, Entered,
              Mates
<1>6. ASSUME NEW r \in Runs, Create(r) PROVE BegunFits'
  BY <1>6 DEF Create, BegunFits, Before, TypeOK, world, setting, local, history, bounds,
              Brokered
<1>7. ASSUME NEW r \in Runs, NEW h \in Hosts, Request(r, h) PROVE BegunFits'
  BY <1>7 DEF Request, BegunFits, Before, TypeOK, setting, local, history, engine, bounds,
              Passes, Brokered
<1>8. ASSUME NEW r \in Runs, Write(r) PROVE BegunFits'
  BY <1>8 DEF Write, BegunFits, Before, TypeOK, setting, local, history, engine, bounds,
              Place, Mounted, Brokered
<1>9. ASSUME NEW r \in Runs, Exit(r) PROVE BegunFits'
  BY <1>9 DEF Exit, BegunFits, Before, TypeOK, world, setting, history, bounds, OutcomeOf
<1>10. ASSUME NEW r \in Runs, ExitOrphaned(r) PROVE BegunFits'
  BY <1>10 DEF ExitOrphaned, BegunFits, Before, TypeOK, world, setting, local, history,
               bounds
<1>11. ASSUME NEW r \in Runs, Limit(r) PROVE BegunFits'
  BY <1>11 DEF Limit, BegunFits, Before, TypeOK, world, setting, history, engine, bounds,
               Halted, Ask
<1>12. ASSUME NEW r \in Runs, Remove(r) PROVE BegunFits'
  BY <1>12 DEF Remove, BegunFits, Before, TypeOK, world, setting, bounds, OutcomeOf
<1>13. ASSUME NEW r \in Runs, RemoveFails(r) PROVE BegunFits'
  BY <1>13 DEF RemoveFails, BegunFits, Before, TypeOK, world, setting, history, OutcomeOf
<1>14. ASSUME NEW r \in Runs, Settle(r) PROVE BegunFits'
  BY <1>14 DEF Settle, BegunFits, Before, TypeOK, world, setting, history, engine, bounds,
               Deleted, Mates
<1>15. ASSUME NEW r \in Runs, Publish(r) PROVE BegunFits'
  BY <1>15 DEF Publish, BegunFits, Before, TypeOK, world, setting, history, engine, bounds,
               Publishable, EvidenceOf, PathsWritten, Place, HostEvidence,
               Brokered
<1>16. ASSUME NEW r \in Runs, StopBroker(r) PROVE BegunFits'
  BY <1>16 DEF StopBroker, BegunFits, Before, TypeOK, world, setting, history
<1>17. ASSUME NEW a \in Agents, Cancel(a) PROVE BegunFits'
  BY <1>17 DEF Cancel, BegunFits, Before, TypeOK, world, setting, history, engine, bounds,
               Halted, EntriesOf, Ask
<1>18. ASSUME CancelReturns PROVE BegunFits'
  BY <1>18 DEF CancelReturns, BegunFits, Before, TypeOK, world, setting, local, history,
               engine, bounds
<1>19. ASSUME Crash PROVE BegunFits'
  BY <1>19 DEF Crash, BegunFits, Before, TypeOK, world, setting, history, engine, NoCancel
<1>20. ASSUME Restart PROVE BegunFits'
  BY <1>20 DEF Restart, BegunFits, Before, TypeOK, world, setting, local, history, Reap,
               Brokered
<1>21. CASE UNCHANGED vars
  BY <1>21 DEF BegunFits, Before, TypeOK, vars, world, setting, local, history, engine,
               bounds
<1> QED
  BY <1>1, <1>2, <1>3, <1>4, <1>5, <1>6, <1>7, <1>8, <1>9, <1>10, <1>11, <1>12, <1>13,
     <1>14, <1>15, <1>16, <1>17, <1>18, <1>19, <1>20, <1>21 DEF Next, RunStep, Finished

-----------------------------------------------------------------------------
\* A broker is started by a run of a brokered process, which stops it; a restart stops all.
LEMMA BrokersStep ==
  ASSUME TypeOK, BrokersFit, [Next]_vars
  PROVE  BrokersFit'
<1>1. ASSUME NEW r \in Runs, NEW a \in Agents, Begin(r, a) PROVE BrokersFit'
  <2>1. PICK p \in {"preparing", "ready", "over"} :
             /\ phase' = [phase EXCEPT ![r] = p]
             /\ phase[r] = "idle"
    BY <1>1 DEF Begin
  <2>2. UNCHANGED <<provider, networks, brokers, up, faults>>
    BY <1>1 DEF Begin, setting, engine, bounds
  <2> QED
    BY <2>1, <2>2 DEF BrokersFit, Brokered, TypeOK
<1>2. ASSUME NEW r \in Runs, Prepare(r) PROVE BrokersFit'
  BY <1>2 DEF Prepare, BrokersFit, Brokered, TypeOK, Before, world, setting, engine, bounds,
              Working, Place, Mates
<1>3. ASSUME NEW r \in Runs, StartBroker(r) PROVE BrokersFit'
  BY <1>3 DEF StartBroker, BrokersFit, Brokered, TypeOK, Before, world, setting, history,
              bounds
<1>4. ASSUME NEW r \in Runs, StartFails(r) PROVE BrokersFit'
  BY <1>4 DEF StartFails, BrokersFit, Brokered, TypeOK, Before, world, setting, history,
              bounds, AfterFailedStart
<1>5. ASSUME NEW r \in Runs, Spawn(r) PROVE BrokersFit'
  BY <1>5 DEF Spawn, BrokersFit, Brokered, TypeOK, Before, world, setting, history, bounds,
              Entered, Mates
<1>6. ASSUME NEW r \in Runs, Create(r) PROVE BrokersFit'
  BY <1>6 DEF Create, BrokersFit, Brokered, TypeOK, Before, world, setting, local, history,
              bounds
<1>7. ASSUME NEW r \in Runs, NEW h \in Hosts, Request(r, h) PROVE BrokersFit'
  BY <1>7 DEF Request, BrokersFit, Brokered, TypeOK, Before, setting, local, history,
              engine, bounds, Passes
<1>8. ASSUME NEW r \in Runs, Write(r) PROVE BrokersFit'
  BY <1>8 DEF Write, BrokersFit, Brokered, TypeOK, Before, setting, local, history, engine,
              bounds, Place, Mounted
<1>9. ASSUME NEW r \in Runs, Exit(r) PROVE BrokersFit'
  BY <1>9 DEF Exit, BrokersFit, Brokered, TypeOK, Before, world, setting, history, bounds,
              OutcomeOf
<1>10. ASSUME NEW r \in Runs, ExitOrphaned(r) PROVE BrokersFit'
  BY <1>10 DEF ExitOrphaned, BrokersFit, Brokered, TypeOK, Before, world, setting, local,
               history, bounds
<1>11. ASSUME NEW r \in Runs, Limit(r) PROVE BrokersFit'
  BY <1>11 DEF Limit, BrokersFit, Brokered, TypeOK, Before, world, setting, history, engine,
               bounds, Halted, Ask
<1>12. ASSUME NEW r \in Runs, Remove(r) PROVE BrokersFit'
  BY <1>12 DEF Remove, BrokersFit, Brokered, TypeOK, Before, world, setting, bounds,
               OutcomeOf
<1>13. ASSUME NEW r \in Runs, RemoveFails(r) PROVE BrokersFit'
  BY <1>13 DEF RemoveFails, BrokersFit, Brokered, TypeOK, Before, world, setting, history,
               OutcomeOf
<1>14. ASSUME NEW r \in Runs, Settle(r) PROVE BrokersFit'
  BY <1>14 DEF Settle, BrokersFit, Brokered, TypeOK, Before, world, setting, history,
               engine, bounds, Deleted, Mates
<1>15. ASSUME NEW r \in Runs, Publish(r) PROVE BrokersFit'
  BY <1>15 DEF Publish, BrokersFit, Brokered, TypeOK, Before, world, setting, history,
               engine, bounds, Publishable, EvidenceOf, PathsWritten, Place,
               HostEvidence
<1>16. ASSUME NEW r \in Runs, StopBroker(r) PROVE BrokersFit'
  BY <1>16 DEF StopBroker, BrokersFit, Brokered, TypeOK, Before, world, setting, history
<1>17. ASSUME NEW a \in Agents, Cancel(a) PROVE BrokersFit'
  BY <1>17 DEF Cancel, BrokersFit, Brokered, TypeOK, Before, world, setting, history,
               engine, bounds, Halted, EntriesOf, Ask
<1>18. ASSUME CancelReturns PROVE BrokersFit'
  BY <1>18 DEF CancelReturns, BrokersFit, Brokered, TypeOK, Before, world, setting, local,
               history, engine, bounds
<1>19. ASSUME Crash PROVE BrokersFit'
  BY <1>19 DEF Crash, BrokersFit, Brokered, TypeOK, Before, world, setting, history, engine,
               NoCancel
<1>20. ASSUME Restart PROVE BrokersFit'
  BY <1>20 DEF Restart, BrokersFit, Brokered, TypeOK, Before, world, setting, local,
               history, Reap
<1>21. CASE UNCHANGED vars
  BY <1>21 DEF BrokersFit, Brokered, TypeOK, Before, vars, world, setting, local, history,
               engine, bounds
<1> QED
  BY <1>1, <1>2, <1>3, <1>4, <1>5, <1>6, <1>7, <1>8, <1>9, <1>10, <1>11, <1>12, <1>13,
     <1>14, <1>15, <1>16, <1>17, <1>18, <1>19, <1>20, <1>21 DEF Next, RunStep, Finished

\* A container ends with its client, and a network goes when its run has no container.
LEMMA EngineStep ==
  ASSUME TypeOK, BrokersFit, EngineFits, [Next]_vars
  PROVE  EngineFits'
<1>1. ASSUME NEW r \in Runs, NEW a \in Agents, Begin(r, a) PROVE EngineFits'
  BY <1>1 DEF Begin, EngineFits, BrokersFit, Brokered, TypeOK, Before, world, setting,
              history, engine, bounds, EntriesOf
<1>2. ASSUME NEW r \in Runs, Prepare(r) PROVE EngineFits'
  BY <1>2 DEF Prepare, EngineFits, BrokersFit, Brokered, TypeOK, Before, world, setting,
              engine, bounds, Working, Place, Mates
<1>3. ASSUME NEW r \in Runs, StartBroker(r) PROVE EngineFits'
  BY <1>3 DEF StartBroker, EngineFits, BrokersFit, Brokered, TypeOK, Before, world, setting,
              history, bounds
<1>4. ASSUME NEW r \in Runs, StartFails(r) PROVE EngineFits'
  BY <1>4 DEF StartFails, EngineFits, BrokersFit, Brokered, TypeOK, Before, world, setting,
              history, bounds, AfterFailedStart
<1>5. ASSUME NEW r \in Runs, Spawn(r) PROVE EngineFits'
  BY <1>5 DEF Spawn, EngineFits, BrokersFit, Brokered, TypeOK, Before, world, setting,
              history, bounds, Entered, Mates
<1>6. ASSUME NEW r \in Runs, Create(r) PROVE EngineFits'
  BY <1>6 DEF Create, EngineFits, BrokersFit, Brokered, TypeOK, Before, world, setting,
              local, history, bounds
<1>7. ASSUME NEW r \in Runs, NEW h \in Hosts, Request(r, h) PROVE EngineFits'
  BY <1>7 DEF Request, EngineFits, BrokersFit, Brokered, TypeOK, Before, setting, local,
              history, engine, bounds, Passes
<1>8. ASSUME NEW r \in Runs, Write(r) PROVE EngineFits'
  BY <1>8 DEF Write, EngineFits, BrokersFit, Brokered, TypeOK, Before, setting, local,
              history, engine, bounds, Place, Mounted
<1>9. ASSUME NEW r \in Runs, Exit(r) PROVE EngineFits'
  BY <1>9 DEF Exit, EngineFits, BrokersFit, Brokered, TypeOK, Before, world, setting,
              history, bounds, OutcomeOf
<1>10. ASSUME NEW r \in Runs, ExitOrphaned(r) PROVE EngineFits'
  BY <1>10 DEF ExitOrphaned, EngineFits, BrokersFit, Brokered, TypeOK, Before, world,
               setting, local, history, bounds
<1>11. ASSUME NEW r \in Runs, Limit(r) PROVE EngineFits'
  BY <1>11 DEF Limit, EngineFits, BrokersFit, Brokered, TypeOK, Before, world, setting,
               history, engine, bounds, Halted, Ask
<1>12. ASSUME NEW r \in Runs, Remove(r) PROVE EngineFits'
  BY <1>12 DEF Remove, EngineFits, BrokersFit, Brokered, TypeOK, Before, world, setting,
               bounds, OutcomeOf
<1>13. ASSUME NEW r \in Runs, RemoveFails(r) PROVE EngineFits'
  BY <1>13 DEF RemoveFails, EngineFits, BrokersFit, Brokered, TypeOK, Before, world,
               setting, history, OutcomeOf
<1>14. ASSUME NEW r \in Runs, Settle(r) PROVE EngineFits'
  BY <1>14 DEF Settle, EngineFits, BrokersFit, Brokered, TypeOK, Before, world, setting,
               history, engine, bounds, Deleted, Mates
<1>15. ASSUME NEW r \in Runs, Publish(r) PROVE EngineFits'
  BY <1>15 DEF Publish, EngineFits, BrokersFit, Brokered, TypeOK, Before, world, setting,
               history, engine, bounds, Publishable, EvidenceOf, PathsWritten, Place, HostEvidence
<1>16. ASSUME NEW r \in Runs, StopBroker(r) PROVE EngineFits'
  BY <1>16 DEF StopBroker, EngineFits, BrokersFit, Brokered, TypeOK, Before, world, setting,
               history
<1>17. ASSUME NEW a \in Agents, Cancel(a) PROVE EngineFits'
  BY <1>17 DEF Cancel, EngineFits, BrokersFit, Brokered, TypeOK, Before, world, setting,
               history, engine, bounds, Halted, EntriesOf, Ask
<1>18. ASSUME CancelReturns PROVE EngineFits'
  BY <1>18 DEF CancelReturns, EngineFits, BrokersFit, Brokered, TypeOK, Before, world,
               setting, local, history, engine, bounds
<1>19. ASSUME Crash PROVE EngineFits'
  BY <1>19 DEF Crash, EngineFits, BrokersFit, Brokered, TypeOK, Before, world, setting,
               history, engine, NoCancel
<1>20. ASSUME Restart PROVE EngineFits'
  BY <1>20 DEF Restart, EngineFits, BrokersFit, Brokered, TypeOK, Before, world, setting,
               local, history, Reap
<1>21. CASE UNCHANGED vars
  BY <1>21 DEF EngineFits, BrokersFit, Brokered, TypeOK, Before, vars, world, setting,
               local, history, engine, bounds
<1> QED
  BY <1>1, <1>2, <1>3, <1>4, <1>5, <1>6, <1>7, <1>8, <1>9, <1>10, <1>11, <1>12, <1>13,
     <1>14, <1>15, <1>16, <1>17, <1>18, <1>19, <1>20, <1>21 DEF Next, RunStep, Finished

\* Two host processes of an Agent overlap only as the second one's preparation noticed.
LEMMA OverlapsStep ==
  ASSUME TypeOK, BegunFits, OverlapsFit, [Next]_vars
  PROVE  OverlapsFit'
<1>1. ASSUME NEW r \in Runs, NEW a \in Agents, Begin(r, a) PROVE OverlapsFit'
  BY <1>1 DEF Begin, OverlapsFit, Working, BegunFits, Before, TypeOK, world, setting,
              history, engine, bounds, EntriesOf
<1>2. ASSUME NEW r \in Runs, Prepare(r) PROVE OverlapsFit'
  BY <1>2 DEF Prepare, OverlapsFit, Working, BegunFits, Before, TypeOK, world, setting,
              engine, bounds, Place, Mates, Brokered
<1>3. ASSUME NEW r \in Runs, StartBroker(r) PROVE OverlapsFit'
  <2>1. \A x \in Runs : phase'[x] \in Working => phase[x] \in Working
    BY <1>3 DEF StartBroker, TypeOK, Working
  <2>2. \A x \in Runs : phase'[x] = "live" => phase[x] = "live"
    BY <1>3 DEF StartBroker, TypeOK
  <2> QED
    BY <1>3, <2>1, <2>2 DEF StartBroker, OverlapsFit, setting, history
<1>4. ASSUME NEW r \in Runs, StartFails(r) PROVE OverlapsFit'
  BY <1>4 DEF StartFails, OverlapsFit, Working, BegunFits, Before, TypeOK, world, setting,
              history, bounds, Brokered, AfterFailedStart
<1>5. ASSUME NEW r \in Runs, Spawn(r) PROVE OverlapsFit'
  BY <1>5 DEF Spawn, OverlapsFit, Working, BegunFits, Before, TypeOK, world, setting,
              history, bounds, Entered, Mates
<1>6. ASSUME NEW r \in Runs, Create(r) PROVE OverlapsFit'
  BY <1>6 DEF Create, OverlapsFit, Working, BegunFits, Before, TypeOK, world, setting,
              local, history, bounds, Brokered
<1>7. ASSUME NEW r \in Runs, NEW h \in Hosts, Request(r, h) PROVE OverlapsFit'
  BY <1>7 DEF Request, OverlapsFit, Working, BegunFits, Before, TypeOK, setting, local,
              history, engine, bounds, Passes, Brokered
<1>8. ASSUME NEW r \in Runs, Write(r) PROVE OverlapsFit'
  BY <1>8 DEF Write, OverlapsFit, Working, BegunFits, Before, TypeOK, setting, local,
              history, engine, bounds, Place, Mounted, Brokered
<1>9. ASSUME NEW r \in Runs, Exit(r) PROVE OverlapsFit'
  BY <1>9 DEF Exit, OverlapsFit, Working, BegunFits, Before, TypeOK, world, setting,
              history, bounds, OutcomeOf
<1>10. ASSUME NEW r \in Runs, ExitOrphaned(r) PROVE OverlapsFit'
  BY <1>10 DEF ExitOrphaned, OverlapsFit, Working, BegunFits, Before, TypeOK, world,
               setting, local, history, bounds
<1>11. ASSUME NEW r \in Runs, Limit(r) PROVE OverlapsFit'
  BY <1>11 DEF Limit, OverlapsFit, Working, BegunFits, Before, TypeOK, world, setting,
               history, engine, bounds, Halted, Ask
<1>12. ASSUME NEW r \in Runs, Remove(r) PROVE OverlapsFit'
  <2>1. \A x \in Runs : /\ phase'[x] \in Working => phase[x] \in Working
                        /\ phase'[x] = "live" => phase[x] = "live"
    BY <1>12 DEF Remove, TypeOK, Working
  <2>2. provider' = provider /\ agent' = agent /\ active' = active /\ shared' = shared
    BY <1>12 DEF Remove, setting
  <2> QED
    BY <2>1, <2>2 DEF OverlapsFit
<1>13. ASSUME NEW r \in Runs, RemoveFails(r) PROVE OverlapsFit'
  BY <1>13 DEF RemoveFails, OverlapsFit, Working, BegunFits, Before, TypeOK, world, setting,
               history, OutcomeOf
<1>14. ASSUME NEW r \in Runs, Settle(r) PROVE OverlapsFit'
  BY <1>14 DEF Settle, OverlapsFit, Working, BegunFits, Before, TypeOK, world, setting,
               history, engine, bounds, Deleted, Mates
<1>15. ASSUME NEW r \in Runs, Publish(r) PROVE OverlapsFit'
  BY <1>15 DEF Publish, OverlapsFit, Working, BegunFits, Before, TypeOK, world, setting,
               history, engine, bounds, Publishable, EvidenceOf, PathsWritten, Place,
               HostEvidence, Brokered
<1>16. ASSUME NEW r \in Runs, StopBroker(r) PROVE OverlapsFit'
  BY <1>16 DEF StopBroker, OverlapsFit, Working, BegunFits, Before, TypeOK, world, setting,
               history
<1>17. ASSUME NEW a \in Agents, Cancel(a) PROVE OverlapsFit'
  BY <1>17 DEF Cancel, OverlapsFit, Working, BegunFits, Before, TypeOK, world, setting,
               history, engine, bounds, Halted, EntriesOf, Ask
<1>18. ASSUME CancelReturns PROVE OverlapsFit'
  BY <1>18 DEF CancelReturns, OverlapsFit, Working, BegunFits, Before, TypeOK, world,
               setting, local, history, engine, bounds
<1>19. ASSUME Crash PROVE OverlapsFit'
  BY <1>19 DEF Crash, OverlapsFit, Working, BegunFits, Before, TypeOK, world, setting,
               history, engine, NoCancel
<1>20. ASSUME Restart PROVE OverlapsFit'
  BY <1>20 DEF Restart, OverlapsFit, Working, BegunFits, Before, TypeOK, world, setting,
               local, history, Reap, Brokered
<1>21. CASE UNCHANGED vars
  BY <1>21 DEF OverlapsFit, Working, BegunFits, Before, TypeOK, vars, world, setting, local,
               history, engine, bounds
<1> QED
  BY <1>1, <1>2, <1>3, <1>4, <1>5, <1>6, <1>7, <1>8, <1>9, <1>10, <1>11, <1>12, <1>13,
     <1>14, <1>15, <1>16, <1>17, <1>18, <1>19, <1>20, <1>21 DEF Next, RunStep, Finished

\* The mark that cancel() leaves stays until the client has closed.
LEMMA CancelStep ==
  ASSUME TypeOK, BegunFits, OverlapsFit, CancelFits, [Next]_vars
  PROVE  CancelFits'
<1>1. ASSUME NEW r \in Runs, NEW a \in Agents, Begin(r, a) PROVE CancelFits'
  BY <1>1 DEF Begin, CancelFits, Before, OverlapsFit, Working, BegunFits, TypeOK, world,
              setting, history, engine, bounds, EntriesOf
<1>2. ASSUME NEW r \in Runs, Prepare(r) PROVE CancelFits'
  BY <1>2 DEF Prepare, CancelFits, Before, OverlapsFit, Working, BegunFits, TypeOK, world,
              setting, engine, bounds, Place, Mates, Brokered
<1>3. ASSUME NEW r \in Runs, StartBroker(r) PROVE CancelFits'
  BY <1>3 DEF StartBroker, CancelFits, Before, OverlapsFit, Working, BegunFits, TypeOK,
              world, setting, history, bounds
<1>4. ASSUME NEW r \in Runs, StartFails(r) PROVE CancelFits'
  BY <1>4 DEF StartFails, CancelFits, Before, OverlapsFit, Working, BegunFits, TypeOK,
              world, setting, history, bounds, Brokered, AfterFailedStart
<1>5. ASSUME NEW r \in Runs, Spawn(r) PROVE CancelFits'
  BY <1>5 DEF Spawn, CancelFits, Before, OverlapsFit, Working, BegunFits, TypeOK, world,
              setting, history, bounds, Entered, Mates
<1>6. ASSUME NEW r \in Runs, Create(r) PROVE CancelFits'
  BY <1>6 DEF Create, CancelFits, Before, OverlapsFit, Working, BegunFits, TypeOK, world,
              setting, local, history, bounds, Brokered
<1>7. ASSUME NEW r \in Runs, NEW h \in Hosts, Request(r, h) PROVE CancelFits'
  BY <1>7 DEF Request, CancelFits, Before, OverlapsFit, Working, BegunFits, TypeOK, setting,
              local, history, engine, bounds, Passes, Brokered
<1>8. ASSUME NEW r \in Runs, Write(r) PROVE CancelFits'
  BY <1>8 DEF Write, CancelFits, Before, OverlapsFit, Working, BegunFits, TypeOK, setting,
              local, history, engine, bounds, Place, Mounted, Brokered
<1>9. ASSUME NEW r \in Runs, Exit(r) PROVE CancelFits'
  BY <1>9 DEF Exit, CancelFits, Before, OverlapsFit, Working, BegunFits, TypeOK, world,
              setting, history, bounds, OutcomeOf
<1>10. ASSUME NEW r \in Runs, ExitOrphaned(r) PROVE CancelFits'
  BY <1>10 DEF ExitOrphaned, CancelFits, Before, OverlapsFit, Working, BegunFits, TypeOK,
               world, setting, local, history, bounds
<1>11. ASSUME NEW r \in Runs, Limit(r) PROVE CancelFits'
  BY <1>11 DEF Limit, CancelFits, Before, OverlapsFit, Working, BegunFits, TypeOK, world,
               setting, history, engine, bounds, Halted, Ask
<1>12. ASSUME NEW r \in Runs, Remove(r) PROVE CancelFits'
  BY <1>12 DEF Remove, CancelFits, Before, OverlapsFit, Working, BegunFits, TypeOK, world,
               setting, bounds, OutcomeOf
<1>13. ASSUME NEW r \in Runs, RemoveFails(r) PROVE CancelFits'
  BY <1>13 DEF RemoveFails, CancelFits, Before, OverlapsFit, Working, BegunFits, TypeOK,
               world, setting, history, OutcomeOf
<1>14. ASSUME NEW r \in Runs, Settle(r) PROVE CancelFits'
  BY <1>14 DEF Settle, CancelFits, Before, OverlapsFit, Working, BegunFits, TypeOK, world,
               setting, history, engine, bounds, Deleted, Mates
<1>15. ASSUME NEW r \in Runs, Publish(r) PROVE CancelFits'
  BY <1>15 DEF Publish, CancelFits, Before, OverlapsFit, Working, BegunFits, TypeOK, world,
               setting, history, engine, bounds, Publishable, EvidenceOf, PathsWritten,
               Place, HostEvidence, Brokered
<1>16. ASSUME NEW r \in Runs, StopBroker(r) PROVE CancelFits'
  BY <1>16 DEF StopBroker, CancelFits, Before, OverlapsFit, Working, BegunFits, TypeOK,
               world, setting, history
<1>17. ASSUME NEW a \in Agents, Cancel(a) PROVE CancelFits'
  BY <1>17 DEF Cancel, CancelFits, Before, OverlapsFit, Working, BegunFits, TypeOK, world,
               setting, history, engine, bounds, Halted, EntriesOf, Ask
<1>18. ASSUME CancelReturns PROVE CancelFits'
  BY <1>18 DEF CancelReturns, CancelFits, Before, OverlapsFit, Working, BegunFits, TypeOK,
               world, setting, local, history, engine, bounds
<1>19. ASSUME Crash PROVE CancelFits'
  BY <1>19 DEF Crash, CancelFits, Before, OverlapsFit, Working, BegunFits, TypeOK, world,
               setting, history, engine, NoCancel
<1>20. ASSUME Restart PROVE CancelFits'
  BY <1>20 DEF Restart, CancelFits, Before, OverlapsFit, Working, BegunFits, TypeOK, world,
               setting, local, history, Reap, Brokered
<1>21. CASE UNCHANGED vars
  BY <1>21 DEF CancelFits, Before, OverlapsFit, Working, BegunFits, TypeOK, vars, world,
               setting, local, history, engine, bounds
<1> QED
  BY <1>1, <1>2, <1>3, <1>4, <1>5, <1>6, <1>7, <1>8, <1>9, <1>10, <1>11, <1>12, <1>13,
     <1>14, <1>15, <1>16, <1>17, <1>18, <1>19, <1>20, <1>21 DEF Next, RunStep, Finished

\* One run at a time writes in a place, so that all of the rest was there before.
LEMMA WorkspaceStep ==
  ASSUME TypeOK, BegunFits, EngineFits, WorkspaceFits, [Next]_vars
  PROVE  WorkspaceFits'
<1>1. ASSUME NEW r \in Runs, NEW a \in Agents, Begin(r, a) PROVE WorkspaceFits'
  <2>1. PICK p \in {"preparing", "ready", "over"} :
             /\ phase' = [phase EXCEPT ![r] = p]
             /\ p = "ready" => provider = "plain"
    BY <1>1 DEF Begin
  <2>2. /\ phase[r] = "idle" /\ agent' = [agent EXCEPT ![r] = a]
        /\ \A x \in Runs : agent[x] = a /\ asker[x] = asker[r] => phase[x] = "over"
    BY <1>1 DEF Begin
  <2>3. UNCHANGED <<provider, asker, evidence, before, log, workspace, changed, cut,
                    crashes, faults>>
    BY <1>1 DEF Begin, setting, world, history, bounds
  <2>4. \A x \in Runs \ {r} : agent'[x] = agent[x] /\ phase'[x] = phase[x] /\ Place(x)' = Place(x)
    BY <2>1, <2>2, <2>3 DEF Place, TypeOK
  <2>5. phase'[r] = p /\ agent'[r] = a
    BY <2>1, <2>2 DEF TypeOK
  <2>6. OneRunPerPlace'
    BY <2>2, <2>3, <2>4, <2>5, NoAgentAssumption DEF WorkspaceFits, OneRunPerPlace, Place
  <2>7. Undisturbed => Untouched'
    BY <2>2, <2>3, <2>4, <2>5 DEF WorkspaceFits, Untouched, Before
  <2>8. Undisturbed => \A x \in Runs : phase'[x] \in Working => x # r
    BY <2>1, <2>5 DEF Undisturbed, Working
  <2> QED
    BY <2>3, <2>4, <2>6, <2>7, <2>8 DEF WorkspaceFits, FoundFits, Undisturbed, Brokered
<1>2. ASSUME NEW r \in Runs, Prepare(r) PROVE WorkspaceFits'
  <2>1. /\ phase[r] = "preparing" /\ cut' = CutShort(r)
        /\ \E p \in {"starting", "ready"} : phase' = [phase EXCEPT ![r] = p]
    BY <1>2 DEF Prepare
  <2>2. PICK listing \in Listings(workspace[Place(r)]) :
             before' = [before EXCEPT ![r] = listing]
    BY <1>2 DEF Prepare
  <2>3. UNCHANGED <<provider, asker, agent, evidence, log, workspace, changed, crashes, faults>>
    BY <1>2 DEF Prepare, setting, world, bounds
  <2>4. \A x \in Runs : phase'[x] = "over" <=> phase[x] = "over"
    BY <2>1 DEF TypeOK
  <2>5. \A x \in Runs : phase'[x] \in Before => phase[x] \in Before
    BY <2>1 DEF TypeOK, Before
  <2>6. OneRunPerPlace'
    BY <2>3, <2>4 DEF WorkspaceFits, OneRunPerPlace, Place
  <2>7. Undisturbed => Untouched'
    BY <2>3, <2>5 DEF WorkspaceFits, Untouched
  <2>8. \A x \in Runs \ {r} : /\ phase'[x] = phase[x] /\ before'[x] = before[x]
                              /\ x \notin cut' => x \notin cut
    BY <2>1, <2>2 DEF TypeOK, CutShort
  <2>9. r \notin cut' => before'[r] = workspace[Place(r)] \cap Listed
    BY <2>1, <2>2 DEF TypeOK, CutShort, Listings
  <2>10. Undisturbed => changed[r] = {}
    BY <2>1 DEF WorkspaceFits, Untouched, Before
  <2>11. Undisturbed /\ r \notin cut'
           => before'[r] = SymDiff(workspace[Place(r)], changed[r]) \cap Listed
    BY <2>9, <2>10 DEF SymDiff
  <2>12. ASSUME Undisturbed, NEW x \in Runs, x \notin cut', phase'[x] \in Working
         PROVE  before'[x] = SymDiff(workspace[Place(x)], changed[x]) \cap Listed
    <3>1. CASE x = r
      BY <2>11, <2>12, <3>1
    <3>2. CASE x # r
      <4>1. phase[x] \in Working /\ before'[x] = before[x] /\ x \in Runs \ cut
        BY <2>8, <2>12, <3>2
      <4>2. FoundFits(x)
        BY <2>12, <4>1 DEF WorkspaceFits
      <4> QED
        BY <4>1, <4>2 DEF FoundFits
    <3> QED
      BY <3>1, <3>2
  <2>13. Undisturbed => \A x \in Runs \ cut' : phase'[x] \in Working => FoundFits(x)'
    BY <2>3, <2>12 DEF FoundFits, Place
  <2>14. Undisturbed' <=> Undisturbed
    BY <2>3 DEF Undisturbed
  <2> QED
    BY <2>3, <2>6, <2>7, <2>13, <2>14 DEF WorkspaceFits, Brokered
<1>3. ASSUME NEW r \in Runs, StartBroker(r) PROVE WorkspaceFits'
  <2>1. \A x \in Runs : /\ phase'[x] = "over" <=> phase[x] = "over"
                        /\ phase'[x] \in Before => phase[x] \in Before
                        /\ phase'[x] \in Working => phase[x] \in Working
    BY <1>3 DEF StartBroker, TypeOK, Before, Working
  <2>2. UNCHANGED <<provider, asker, agent, before, evidence, log, workspace, changed,
                    cut, crashes, faults>>
    BY <1>3 DEF StartBroker, setting, world, history, bounds
  <2>3. OneRunPerPlace'
    BY <2>1, <2>2 DEF WorkspaceFits, OneRunPerPlace, Place
  <2>4. Undisturbed => Untouched'
    BY <2>1, <2>2 DEF WorkspaceFits, Untouched
  <2> QED
    BY <2>1, <2>2, <2>3, <2>4 DEF WorkspaceFits, FoundFits, Undisturbed, Brokered, Place
<1>4. ASSUME NEW r \in Runs, StartFails(r) PROVE WorkspaceFits'
  BY <1>4 DEF StartFails, WorkspaceFits, FoundFits, Working, Untouched, Nothing, Before,
              Undisturbed,
              Place, OneRunPerPlace, Brokered, EngineFits, BegunFits, TypeOK, world,
              setting, history, bounds, AfterFailedStart
<1>5. ASSUME NEW r \in Runs, Spawn(r) PROVE WorkspaceFits'
  BY <1>5 DEF Spawn, WorkspaceFits, FoundFits, Working, Untouched, Nothing, Before,
              Undisturbed, Place,
              OneRunPerPlace, Brokered, EngineFits, BegunFits, TypeOK, world, setting,
              history, bounds, Entered, Mates
<1>6. ASSUME NEW r \in Runs, Create(r) PROVE WorkspaceFits'
  BY <1>6 DEF Create, WorkspaceFits, FoundFits, Working, Untouched, Nothing, Before,
              Undisturbed,
              Place, OneRunPerPlace, Brokered, EngineFits, BegunFits, TypeOK, world,
              setting, local, history, bounds
<1>7. ASSUME NEW r \in Runs, NEW h \in Hosts, Request(r, h) PROVE WorkspaceFits'
  BY <1>7 DEF Request, WorkspaceFits, FoundFits, Working, Untouched, Nothing, Before,
              Undisturbed,
              Place, OneRunPerPlace, Brokered, EngineFits, BegunFits, TypeOK, setting,
              local, history, engine, bounds, Passes
<1>8. ASSUME NEW r \in Runs, Write(r) PROVE WorkspaceFits'
  <2>1. PICK f \in Files :
             /\ workspace' = [workspace EXCEPT ![Place(r)] = SymDiff(@, {f})]
             /\ changed' = [changed EXCEPT ![r] = SymDiff(@, {f})]
    BY <1>8 DEF Write
  <2>2. /\ r \in containers
        /\ UNCHANGED <<provider, asker, agent, phase, before, evidence, log, cut, crashes, faults>>
    BY <1>8 DEF Write, setting, local, bounds
  <2>3. OneRunPerPlace'
    BY <2>2 DEF WorkspaceFits, OneRunPerPlace, Place
  <2>4. Undisturbed => phase[r] = "live"
    BY <2>2 DEF EngineFits, Undisturbed
  <2>5. \A x \in Runs \ {r} : changed'[x] = changed[x]
    BY <2>1 DEF TypeOK
  <2>6. Undisturbed => Untouched'
    BY <2>2, <2>4, <2>5 DEF WorkspaceFits, Untouched, Before
  <2>7. ASSUME Undisturbed, NEW x \in Runs \ cut, phase[x] \in Working
        PROVE  before[x] = SymDiff(workspace'[Place(x)], changed'[x]) \cap Listed
    <3>1. agent[x] # NoAgent /\ agent[r] # NoAgent
      BY <2>4, <2>7 DEF BegunFits, Working
    <3>2. Place(x) \in Agents \X Principals /\ Place(r) \in Agents \X Principals
      BY <3>1, AskersAssumption DEF TypeOK, Place
    <3>3. before[x] = SymDiff(workspace[Place(x)], changed[x]) \cap Listed
      BY <2>7 DEF WorkspaceFits, FoundFits
    <3>4. CASE x = r
      <4>1. /\ workspace'[Place(x)] = SymDiff(workspace[Place(x)], {f})
            /\ changed'[x] = SymDiff(changed[x], {f})
        BY <2>1, <3>2, <3>4 DEF TypeOK
      <4> QED
        BY <3>3, <4>1 DEF SymDiff
    <3>5. CASE x # r
      <4>1. Place(x) # Place(r)
        BY <2>4, <2>7, <3>1, <3>5 DEF WorkspaceFits, OneRunPerPlace, Working
      <4>2. workspace'[Place(x)] = workspace[Place(x)]
        BY <2>1, <3>2, <4>1 DEF TypeOK
      <4> QED
        BY <2>5, <3>3, <3>5, <4>2
    <3> QED
      BY <3>4, <3>5
  <2> QED
    BY <2>2, <2>3, <2>6, <2>7 DEF WorkspaceFits, FoundFits, Undisturbed, Brokered, Place
<1>9. ASSUME NEW r \in Runs, Exit(r) PROVE WorkspaceFits'
  BY <1>9 DEF Exit, WorkspaceFits, FoundFits, Working, Untouched, Nothing, Before,
              Undisturbed, Place,
              OneRunPerPlace, Brokered, EngineFits, BegunFits, TypeOK, world, setting,
              history, bounds, OutcomeOf
<1>10. ASSUME NEW r \in Runs, ExitOrphaned(r) PROVE WorkspaceFits'
  BY <1>10 DEF ExitOrphaned, WorkspaceFits, FoundFits, Working, Untouched, Nothing, Before,
               Undisturbed, Place, OneRunPerPlace, Brokered, EngineFits, BegunFits, TypeOK,
               world, setting, local, history, bounds
<1>11. ASSUME NEW r \in Runs, Limit(r) PROVE WorkspaceFits'
  BY <1>11 DEF Limit, WorkspaceFits, FoundFits, Working, Untouched, Nothing, Before,
              Undisturbed,
               Place, OneRunPerPlace, Brokered, EngineFits, BegunFits, TypeOK, world,
               setting, history, engine, bounds, Halted, Ask
<1>12. ASSUME NEW r \in Runs, Remove(r) PROVE WorkspaceFits'
  <2>1. \A x \in Runs : /\ phase'[x] = "over" <=> phase[x] = "over"
                        /\ phase'[x] \in Before => phase[x] \in Before
                        /\ phase'[x] \in Working => phase[x] \in Working
    BY <1>12 DEF Remove, TypeOK, Before, Working
  <2>2. UNCHANGED <<provider, asker, agent, before, evidence, log, workspace, changed,
                    cut, crashes, faults>>
    BY <1>12 DEF Remove, setting, world, history, bounds
  <2>3. OneRunPerPlace'
    BY <2>1, <2>2 DEF WorkspaceFits, OneRunPerPlace, Place
  <2>4. Undisturbed => Untouched'
    BY <2>1, <2>2 DEF WorkspaceFits, Untouched
  <2> QED
    BY <2>1, <2>2, <2>3, <2>4 DEF WorkspaceFits, FoundFits, Undisturbed, Brokered, Place
<1>13. ASSUME NEW r \in Runs, RemoveFails(r) PROVE WorkspaceFits'
  BY <1>13 DEF RemoveFails, WorkspaceFits, FoundFits, Working, Untouched, Nothing, Before,
              Undisturbed,
               Place, OneRunPerPlace, Brokered, EngineFits, BegunFits, TypeOK, world,
               setting, history, OutcomeOf
<1>14. ASSUME NEW r \in Runs, Settle(r) PROVE WorkspaceFits'
  BY <1>14 DEF Settle, WorkspaceFits, FoundFits, Working, Untouched, Nothing, Before,
              Undisturbed,
               Place, OneRunPerPlace, Brokered, EngineFits, BegunFits, TypeOK, world,
               setting, history, engine, bounds, Deleted, Mates
<1>15. ASSUME NEW r \in Runs, Publish(r) PROVE WorkspaceFits'
  <2>1. /\ phase[r] = "evidence" /\ before' = [before EXCEPT ![r] = {}]
        /\ \E p \in {"closing", "over"} : phase' = [phase EXCEPT ![r] = p]
        /\ \E e : evidence' = [evidence EXCEPT ![r] = e]
    BY <1>15 DEF Publish, Publishable
  <2>2. /\ UNCHANGED <<provider, asker, agent, log, workspace, changed, crashes, faults>>
        /\ cut \subseteq cut'
    BY <1>15 DEF Publish, setting, world, bounds, CutShort
  <2>3. \A x \in Runs : /\ phase[x] = "over" => phase'[x] = "over"
                        /\ phase'[x] \in Before => x # r /\ phase[x] \in Before
                        /\ phase'[x] \in Working => x # r /\ phase[x] \in Working
    BY <2>1 DEF TypeOK, Before, Working
  <2>4. \A x \in Runs \ {r} : before'[x] = before[x] /\ evidence'[x] = evidence[x]
    BY <2>1 DEF TypeOK
  <2>5. OneRunPerPlace'
    BY <2>2, <2>3 DEF WorkspaceFits, OneRunPerPlace, Place
  <2>6. Undisturbed => Untouched'
    BY <2>2, <2>3, <2>4 DEF WorkspaceFits, Untouched
  <2> QED
    BY <2>2, <2>3, <2>4, <2>5, <2>6 DEF WorkspaceFits, FoundFits, Undisturbed, Brokered, Place
<1>16. ASSUME NEW r \in Runs, StopBroker(r) PROVE WorkspaceFits'
  BY <1>16 DEF StopBroker, WorkspaceFits, FoundFits, Working, Untouched, Nothing, Before,
              Undisturbed,
               Place, OneRunPerPlace, Brokered, EngineFits, BegunFits, TypeOK, world,
               setting, history
<1>17. ASSUME NEW a \in Agents, Cancel(a) PROVE WorkspaceFits'
  BY <1>17 DEF Cancel, WorkspaceFits, FoundFits, Working, Untouched, Nothing, Before,
              Undisturbed,
               Place, OneRunPerPlace, Brokered, EngineFits, BegunFits, TypeOK, world,
               setting, history, engine, bounds, Halted, EntriesOf, Ask
<1>18. ASSUME CancelReturns PROVE WorkspaceFits'
  BY <1>18 DEF CancelReturns, WorkspaceFits, FoundFits, Working, Untouched, Nothing, Before,
               Undisturbed, Place, OneRunPerPlace, Brokered, EngineFits, BegunFits, TypeOK,
               world, setting, local, history, engine, bounds
<1>19. ASSUME Crash PROVE WorkspaceFits'
  BY <1>19 DEF Crash, WorkspaceFits, FoundFits, Working, Untouched, Nothing, Before,
              Undisturbed,
               Place, OneRunPerPlace, Brokered, EngineFits, BegunFits, TypeOK, world,
               setting, history, engine, NoCancel
<1>20. ASSUME Restart PROVE WorkspaceFits'
  BY <1>20 DEF Restart, WorkspaceFits, FoundFits, Working, Untouched, Nothing, Before,
              Undisturbed,
               Place, OneRunPerPlace, Brokered, EngineFits, BegunFits, TypeOK, world,
               setting, local, history, Reap
<1>21. CASE UNCHANGED vars
  BY <1>21 DEF WorkspaceFits, FoundFits, Working, Untouched, Nothing, Before,
              Undisturbed, Place,
               OneRunPerPlace, Brokered, EngineFits, BegunFits, TypeOK, vars, world,
               setting, local, history, engine, bounds
<1> QED
  BY <1>1, <1>2, <1>3, <1>4, <1>5, <1>6, <1>7, <1>8, <1>9, <1>10, <1>11, <1>12, <1>13,
     <1>14, <1>15, <1>16, <1>17, <1>18, <1>19, <1>20, <1>21 DEF Next, RunStep, Finished

\* What a run publishes is what its broker let through and what it wrote, and nothing is
\* added to either afterwards.
LEMMA EvidenceStep ==
  ASSUME TypeOK, BegunFits, EngineFits, WorkspaceFits, EvidenceIsComplete, [Next]_vars
  PROVE  EvidenceIsComplete'
<1>1. ASSUME NEW r \in Runs, NEW a \in Agents, Begin(r, a) PROVE EvidenceIsComplete'
  <2>1. PICK p \in {"preparing", "ready", "over"} : phase' = [phase EXCEPT ![r] = p]
    BY <1>1 DEF Begin
  <2>2. /\ phase[r] = "idle" /\ agent' = [agent EXCEPT ![r] = a]
        /\ UNCHANGED <<provider, evidence, log, changed, cut, crashes, faults>>
    BY <1>1 DEF Begin, setting, world, history, bounds
  <2>3. \A x \in Runs \ {r} : agent'[x] = agent[x] /\ phase'[x] = phase[x]
    BY <2>1, <2>2 DEF TypeOK
  <2>4. Undisturbed => /\ evidence[r].hosts = log[r]
                       /\ evidence[r].files = changed[r] \cap Listed
    BY <2>2 DEF WorkspaceFits, Untouched, Before, Nothing
  <2> QED
    BY <2>2, <2>3, <2>4 DEF EvidenceIsComplete, Undisturbed
<1>2. ASSUME NEW r \in Runs, Prepare(r) PROVE EvidenceIsComplete'
  <2>1. /\ \A x \in Runs : phase'[x] \in {"closing", "over"} => phase[x] \in {"closing", "over"}
        /\ cut \subseteq cut'
    BY <1>2 DEF Prepare, TypeOK, CutShort
  <2>2. UNCHANGED <<provider, agent, evidence, log, changed, crashes, faults>>
    BY <1>2 DEF Prepare, setting, world, bounds
  <2> QED
    BY <2>1, <2>2 DEF EvidenceIsComplete
<1>3. ASSUME NEW r \in Runs, StartBroker(r) PROVE EvidenceIsComplete'
  BY <1>3 DEF StartBroker, EvidenceIsComplete, WorkspaceFits, FoundFits, Working, Untouched,
              Nothing, Before, Undisturbed, OneRunPerPlace, Brokered, EngineFits, BegunFits,
              TypeOK, world, setting, history, bounds
<1>4. ASSUME NEW r \in Runs, StartFails(r) PROVE EvidenceIsComplete'
  <2>1. /\ phase[r] \in Before
        /\ UNCHANGED <<provider, agent, evidence, log, changed, cut, crashes, faults>>
    BY <1>4 DEF StartFails, Before, setting, world, history, bounds
  <2>2. Undisturbed => /\ evidence[r].hosts = log[r]
                       /\ evidence[r].files = changed[r] \cap Listed
    BY <2>1 DEF WorkspaceFits, Untouched, Nothing
  <2>3. \A x \in Runs \ {r} : phase'[x] = phase[x]
    BY <1>4 DEF StartFails, TypeOK
  <2> QED
    BY <2>1, <2>2, <2>3 DEF EvidenceIsComplete, Undisturbed
<1>5. ASSUME NEW r \in Runs, Spawn(r) PROVE EvidenceIsComplete'
  BY <1>5 DEF Spawn, EvidenceIsComplete, WorkspaceFits, FoundFits, Working, Untouched, Nothing,
              Before, Undisturbed, OneRunPerPlace, Brokered, EngineFits, BegunFits, TypeOK,
              world, setting, history, bounds, Entered, Mates
<1>6. ASSUME NEW r \in Runs, Create(r) PROVE EvidenceIsComplete'
  BY <1>6 DEF Create, EvidenceIsComplete, WorkspaceFits, FoundFits, Working, Untouched, Nothing,
              Before, Undisturbed, OneRunPerPlace, Brokered, EngineFits, BegunFits, TypeOK,
              world, setting, local, history, bounds
<1>7. ASSUME NEW r \in Runs, NEW h \in Hosts, Request(r, h) PROVE EvidenceIsComplete'
  BY <1>7 DEF Request, EvidenceIsComplete, WorkspaceFits, FoundFits, Working, Untouched,
              Nothing, Before, Undisturbed, OneRunPerPlace, Brokered, EngineFits, BegunFits,
              TypeOK, setting, local, history, engine, bounds, Passes
<1>8. ASSUME NEW r \in Runs, Write(r) PROVE EvidenceIsComplete'
  BY <1>8 DEF Write, EvidenceIsComplete, WorkspaceFits, FoundFits, Working, Untouched, Nothing,
              Before, Undisturbed, OneRunPerPlace, Brokered, EngineFits, BegunFits, TypeOK,
              setting, local, history, engine, bounds, Mounted
<1>9. ASSUME NEW r \in Runs, Exit(r) PROVE EvidenceIsComplete'
  BY <1>9 DEF Exit, EvidenceIsComplete, WorkspaceFits, FoundFits, Working, Untouched, Nothing,
              Before, Undisturbed, OneRunPerPlace, Brokered, EngineFits, BegunFits, TypeOK,
              world, setting, history, bounds, OutcomeOf
<1>10. ASSUME NEW r \in Runs, ExitOrphaned(r) PROVE EvidenceIsComplete'
  BY <1>10 DEF ExitOrphaned, EvidenceIsComplete, WorkspaceFits, FoundFits, Working, Untouched,
               Nothing, Before, Undisturbed, OneRunPerPlace, Brokered, EngineFits,
               BegunFits, TypeOK, world, setting, local, history, bounds
<1>11. ASSUME NEW r \in Runs, Limit(r) PROVE EvidenceIsComplete'
  BY <1>11 DEF Limit, EvidenceIsComplete, WorkspaceFits, FoundFits, Working, Untouched, Nothing,
               Before, Undisturbed, OneRunPerPlace, Brokered, EngineFits, BegunFits, TypeOK,
               world, setting, history, engine, bounds, Halted, Ask
<1>12. ASSUME NEW r \in Runs, Remove(r) PROVE EvidenceIsComplete'
  BY <1>12 DEF Remove, EvidenceIsComplete, WorkspaceFits, FoundFits, Working, Untouched,
               Nothing, Before, Undisturbed, OneRunPerPlace, Brokered, EngineFits,
               BegunFits, TypeOK, world, setting, bounds, OutcomeOf
<1>13. ASSUME NEW r \in Runs, RemoveFails(r) PROVE EvidenceIsComplete'
  BY <1>13 DEF RemoveFails, EvidenceIsComplete, WorkspaceFits, FoundFits, Working, Untouched,
               Nothing, Before, Undisturbed, OneRunPerPlace, Brokered, EngineFits,
               BegunFits, TypeOK, world, setting, history, OutcomeOf
<1>14. ASSUME NEW r \in Runs, Settle(r) PROVE EvidenceIsComplete'
  BY <1>14 DEF Settle, EvidenceIsComplete, WorkspaceFits, FoundFits, Working, Untouched,
               Nothing, Before, Undisturbed, OneRunPerPlace, Brokered, EngineFits,
               BegunFits, TypeOK, world, setting, history, engine, bounds, Deleted, Mates
<1>15. ASSUME NEW r \in Runs, Publish(r) PROVE EvidenceIsComplete'
  <2>1. PICK listing \in Listings(workspace[Place(r)]) :
             evidence' = [evidence EXCEPT ![r] = EvidenceOf(r, listing)]
    BY <1>15 DEF Publish
  <2>2. /\ phase[r] = "evidence" /\ cut' = CutShort(r)
        /\ UNCHANGED <<provider, agent, log, changed, crashes, faults>>
    BY <1>15 DEF Publish, Publishable, setting, world, bounds
  <2>3. \A x \in Runs \ {r} : /\ phase'[x] = phase[x] /\ evidence'[x] = evidence[x]
                              /\ x \notin cut' => x \notin cut
    BY <1>15, <2>1, <2>2 DEF Publish, TypeOK, CutShort
  <2>4. evidence'[r] = EvidenceOf(r, listing)
    BY <2>1 DEF TypeOK
  <2>5. ASSUME Undisturbed, r \notin cut'
        PROVE  EvidenceOf(r, listing).files = changed[r] \cap Listed
    <3>1. r \notin cut /\ listing = workspace[Place(r)] \cap Listed
      BY <2>1, <2>2, <2>5 DEF CutShort, Listings
    <3>2. before[r] = SymDiff(workspace[Place(r)], changed[r]) \cap Listed
      BY <2>2, <2>5, <3>1 DEF WorkspaceFits, FoundFits, Working
    <3>3. PathsWritten(r, listing) = changed[r] \cap Listed
      BY <3>1, <3>2 DEF PathsWritten, SymDiff
    <3> QED
      BY <3>3 DEF EvidenceOf, HostEvidence
  <2>6. EvidenceOf(r, listing).hosts = log[r]
    BY DEF EvidenceOf, HostEvidence, WorkspaceFits, Brokered
  <2>7. ASSUME Undisturbed'
        PROVE  /\ evidence'[r].hosts = log'[r]
               /\ r \notin cut' => evidence'[r].files = changed'[r] \cap Listed
    BY <2>2, <2>4, <2>5, <2>6, <2>7 DEF Undisturbed
  <2>8. \A x \in Runs \ {r} : changed'[x] = changed[x] /\ log'[x] = log[x]
    BY <2>2
  <2>9. (crashes' = 0 /\ faults' = 0 /\ provider' # "plain" <=> Undisturbed') /\ agent' = agent
    BY <2>2 DEF Undisturbed
  <2>10. ASSUME Undisturbed', NEW x \in Runs, phase'[x] \in {"closing", "over"},
                agent'[x] # NoAgent
         PROVE  /\ evidence'[x].hosts = log'[x]
                /\ x \notin cut' => evidence'[x].files = changed'[x] \cap Listed
    <3>1. CASE x = r
      BY <2>7, <2>10, <3>1
    <3>2. CASE x # r
      BY <2>2, <2>3, <2>8, <2>9, <2>10, <3>2 DEF EvidenceIsComplete, Undisturbed
    <3> QED
      BY <3>1, <3>2
  <2> QED
    BY <2>9, <2>10 DEF EvidenceIsComplete
<1>16. ASSUME NEW r \in Runs, StopBroker(r) PROVE EvidenceIsComplete'
  BY <1>16 DEF StopBroker, EvidenceIsComplete, WorkspaceFits, FoundFits, Working, Untouched,
               Nothing, Before, Undisturbed, OneRunPerPlace, Brokered, EngineFits,
               BegunFits, TypeOK, world, setting, history
<1>17. ASSUME NEW a \in Agents, Cancel(a) PROVE EvidenceIsComplete'
  BY <1>17 DEF Cancel, EvidenceIsComplete, WorkspaceFits, FoundFits, Working, Untouched,
               Nothing, Before, Undisturbed, OneRunPerPlace, Brokered, EngineFits,
               BegunFits, TypeOK, world, setting, history, engine, bounds, Halted,
               EntriesOf, Ask
<1>18. ASSUME CancelReturns PROVE EvidenceIsComplete'
  BY <1>18 DEF CancelReturns, EvidenceIsComplete, WorkspaceFits, FoundFits, Working, Untouched,
               Nothing, Before, Undisturbed, OneRunPerPlace, Brokered, EngineFits,
               BegunFits, TypeOK, world, setting, local, history, engine, bounds
<1>19. ASSUME Crash PROVE EvidenceIsComplete'
  BY <1>19 DEF Crash, EvidenceIsComplete, WorkspaceFits, FoundFits, Working, Untouched, Nothing,
               Before, Undisturbed, OneRunPerPlace, Brokered, EngineFits, BegunFits, TypeOK,
               world, setting, history, engine, NoCancel
<1>20. ASSUME Restart PROVE EvidenceIsComplete'
  BY <1>20 DEF Restart, EvidenceIsComplete, WorkspaceFits, FoundFits, Working, Untouched,
               Nothing, Before, Undisturbed, OneRunPerPlace, Brokered, EngineFits,
               BegunFits, TypeOK, world, setting, local, history, Reap
<1>21. CASE UNCHANGED vars
  BY <1>21 DEF EvidenceIsComplete, WorkspaceFits, FoundFits, Working, Untouched, Nothing,
               Before, Undisturbed, OneRunPerPlace, Brokered, EngineFits, BegunFits, TypeOK,
               vars, world, setting, local, history, engine, bounds
<1> QED
  BY <1>1, <1>2, <1>3, <1>4, <1>5, <1>6, <1>7, <1>8, <1>9, <1>10, <1>11, <1>12, <1>13,
     <1>14, <1>15, <1>16, <1>17, <1>18, <1>19, <1>20, <1>21 DEF Next, RunStep, Finished

-----------------------------------------------------------------------------
RunnerInv ==
  /\ TypeOK /\ BegunFits /\ BrokersFit /\ EngineFits /\ WorkspaceFits
  /\ EvidenceIsComplete /\ OverlapsFit /\ CancelFits

\* At first nothing runs, and nothing is in the engine.
LEMMA InitiallyFits == Init => RunnerInv
<1> SUFFICES ASSUME Init PROVE RunnerInv
  OBVIOUS
<1>1. TypeOK
  <2>1. evidence \in [Runs -> [hosts : SUBSET Hosts, files : SUBSET Files]]
    BY DEF Init, Nothing
  <2>2. cancel \in [phase : {"idle", "waiting", "returned"}, agent : Agents \cup {NoAgent},
                    targets : SUBSET Runs, earlier : SUBSET Runs]
    BY DEF Init, NoCancel
  <2>3. up \in BOOLEAN /\ faults \in 0 .. MaxFailures /\ crashes \in 0 .. MaxFailures
    BY BoundsAssumption DEF Init
  <2>4. asker \in [Runs -> Principals] /\ workspace \in [Agents \X Principals -> SUBSET Files]
    BY AskersAssumption, FilesAssumption DEF Init
  <2> QED
    BY <2>1, <2>2, <2>3, <2>4 DEF Init, TypeOK, Before
<1>2. BegunFits /\ BrokersFit /\ EngineFits
  BY DEF Init, BegunFits, BrokersFit, EngineFits
<1>3. WorkspaceFits
  BY DEF Init, WorkspaceFits, OneRunPerPlace, Untouched, Before, Working
<1>4. EvidenceIsComplete
  BY DEF Init, EvidenceIsComplete
<1>5. OverlapsFit /\ CancelFits
  BY DEF Init, OverlapsFit, CancelFits, Working, NoCancel
<1> QED
  BY <1>1, <1>2, <1>3, <1>4, <1>5 DEF RunnerInv

LEMMA RunnerInvHolds == Spec => []RunnerInv
<1>1. RunnerInv /\ [Next]_vars => RunnerInv'
  BY TypesStep, BegunStep, BrokersStep, EngineStep, OverlapsStep, CancelStep, WorkspaceStep,
     EvidenceStep DEF RunnerInv
<1> QED
  BY <1>1, InitiallyFits, PTL DEF Spec

-----------------------------------------------------------------------------
\* Every variable has its type, and a host runner one entry in `active` per Agent.
THEOREM TypeCorrect == Spec => []TypeOK
<1>1. RunnerInv => TypeOK
  BY DEF RunnerInv
<1> QED
  BY <1>1, RunnerInvHolds, PTL

\* What a run publishes is every host its broker let it reach; and of the files that are
\* listed, if none of its two listings was cut short, exactly those it has itself changed,
\* whatever earlier runs left in its workspace; and it stays so (publishEvidence,
\* snapshotWorkspace and its MAX_ENTRIES, diffWorkspace).
THEOREM EvidenceComplete == Spec => []EvidenceIsComplete
<1>1. RunnerInv => EvidenceIsComplete
  BY DEF RunnerInv
<1> QED
  BY <1>1, RunnerInvHolds, PTL

\* A run that is over has left no broker, and without a crash no network and no container
\* (session.stop in the `finally` of run(), and reapOrphanedBrokers).
THEOREM LeavesNothing == Spec => []NothingLeftBehind
<1>1. RunnerInv => NothingLeftBehind
  BY DEF RunnerInv, NothingLeftBehind, BrokersFit, EngineFits
<1> QED
  BY <1>1, RunnerInvHolds, PTL

\* When cancel() returns, every run that was live when it was called has ended and says that
\* it was cancelled, but for a host process whose entry another run has taken.
THEOREM CancelEnds == Spec => []CancelReaches
<1>1. RunnerInv => CancelReaches
  BY DEF RunnerInv, CancelReaches, CancelFits
<1> QED
  BY <1>1, RunnerInvHolds, PTL

-----------------------------------------------------------------------------
(* What ends a run that was told to end.                                    *)

\* A container runs on after it was limited, cancelled or removed only while that removal
\* is still to come, or because it came before the container; cancel() waits for nothing
\* else. A run that has not begun its execution has no entry that either could mark.
HaltsFit ==
  /\ \A r \in Runs :
       /\ phase[r] \in Before => r \notin active /\ removal[r] = "none" /\ halted[r] = {}
       /\ phase[r] = "live" /\ (halted[r] # {} \/ removal[r] = "done")
            => removal[r] = "asked" \/ r \in missed
  /\ cancel.phase = "waiting" =>
       \A r \in cancel.targets :
         /\ phase[r] \notin Before
         /\ phase[r] = "live" => removal[r] = "asked" \/ r \in missed

\* No step marks an execution as ended without asking for its removal, and none uses up
\* that removal while the container is there and goes on.
LEMMA HaltsStep ==
  ASSUME TypeOK, BegunFits, HaltsFit, [Next]_vars
  PROVE  HaltsFit'
<1>1. ASSUME NEW r \in Runs, NEW a \in Agents, Begin(r, a) PROVE HaltsFit'
  BY <1>1 DEF Begin, HaltsFit, Before, BegunFits, TypeOK, world,
              setting, history, engine, bounds, EntriesOf
<1>2. ASSUME NEW r \in Runs, Prepare(r) PROVE HaltsFit'
  BY <1>2 DEF Prepare, HaltsFit, Before, BegunFits, TypeOK, world,
              setting, engine, bounds, Place, Mates, Brokered
<1>3. ASSUME NEW r \in Runs, StartBroker(r) PROVE HaltsFit'
  BY <1>3 DEF StartBroker, HaltsFit, Before, BegunFits, TypeOK,
              world, setting, history, bounds
<1>4. ASSUME NEW r \in Runs, StartFails(r) PROVE HaltsFit'
  BY <1>4 DEF StartFails, HaltsFit, Before, BegunFits, TypeOK,
              world, setting, history, bounds, Brokered, AfterFailedStart
<1>5. ASSUME NEW r \in Runs, Spawn(r) PROVE HaltsFit'
  BY <1>5 DEF Spawn, HaltsFit, Before, BegunFits, TypeOK, world,
              setting, history, bounds, Entered, Mates
<1>6. ASSUME NEW r \in Runs, Create(r) PROVE HaltsFit'
  BY <1>6 DEF Create, HaltsFit, Before, BegunFits, TypeOK, world,
              setting, local, history, bounds, Brokered
<1>7. ASSUME NEW r \in Runs, NEW h \in Hosts, Request(r, h) PROVE HaltsFit'
  BY <1>7 DEF Request, HaltsFit, Before, BegunFits, TypeOK, setting,
              local, history, engine, bounds, Passes, Brokered
<1>8. ASSUME NEW r \in Runs, Write(r) PROVE HaltsFit'
  BY <1>8 DEF Write, HaltsFit, Before, BegunFits, TypeOK, setting,
              local, history, engine, bounds, Place, Mounted, Brokered
<1>9. ASSUME NEW r \in Runs, Exit(r) PROVE HaltsFit'
  BY <1>9 DEF Exit, HaltsFit, Before, BegunFits, TypeOK, world,
              setting, history, bounds, OutcomeOf
<1>10. ASSUME NEW r \in Runs, ExitOrphaned(r) PROVE HaltsFit'
  BY <1>10 DEF ExitOrphaned, HaltsFit, Before, BegunFits, TypeOK,
               world, setting, local, history, bounds
<1>11. ASSUME NEW r \in Runs, Limit(r) PROVE HaltsFit'
  BY <1>11 DEF Limit, HaltsFit, Before, BegunFits, TypeOK, world,
               setting, history, engine, bounds, Halted, Ask
<1>12. ASSUME NEW r \in Runs, Remove(r) PROVE HaltsFit'
  BY <1>12 DEF Remove, HaltsFit, Before, BegunFits, TypeOK, world,
               setting, bounds, OutcomeOf
<1>13. ASSUME NEW r \in Runs, RemoveFails(r) PROVE HaltsFit'
  BY <1>13 DEF RemoveFails, HaltsFit, Before, BegunFits, TypeOK,
               world, setting, history, OutcomeOf
<1>14. ASSUME NEW r \in Runs, Settle(r) PROVE HaltsFit'
  BY <1>14 DEF Settle, HaltsFit, Before, BegunFits, TypeOK, world,
               setting, history, engine, bounds, Deleted, Mates
<1>15. ASSUME NEW r \in Runs, Publish(r) PROVE HaltsFit'
  BY <1>15 DEF Publish, HaltsFit, Before, BegunFits, TypeOK, world,
               setting, history, engine, bounds, Publishable, EvidenceOf, PathsWritten,
               Place, HostEvidence, Brokered
<1>16. ASSUME NEW r \in Runs, StopBroker(r) PROVE HaltsFit'
  BY <1>16 DEF StopBroker, HaltsFit, Before, BegunFits, TypeOK,
               world, setting, history
<1>17. ASSUME NEW a \in Agents, Cancel(a) PROVE HaltsFit'
  BY <1>17 DEF Cancel, HaltsFit, Before, BegunFits, TypeOK, world,
               setting, history, engine, bounds, Halted, EntriesOf, Ask
<1>18. ASSUME CancelReturns PROVE HaltsFit'
  BY <1>18 DEF CancelReturns, HaltsFit, Before, BegunFits, TypeOK,
               world, setting, local, history, engine, bounds
<1>19. ASSUME Crash PROVE HaltsFit'
  BY <1>19 DEF Crash, HaltsFit, Before, BegunFits, TypeOK, world,
               setting, history, engine, NoCancel
<1>20. ASSUME Restart PROVE HaltsFit'
  BY <1>20 DEF Restart, HaltsFit, Before, BegunFits, TypeOK, world,
               setting, local, history, Reap, Brokered
<1>21. CASE UNCHANGED vars
  BY <1>21 DEF HaltsFit, Before, BegunFits, TypeOK, vars, world,
               setting, local, history, engine, bounds
<1> QED
  BY <1>1, <1>2, <1>3, <1>4, <1>5, <1>6, <1>7, <1>8, <1>9, <1>10, <1>11, <1>12, <1>13,
     <1>14, <1>15, <1>16, <1>17, <1>18, <1>19, <1>20, <1>21 DEF Next, RunStep, Finished

\* The safety half of RunsEnd: when the time limit has passed for an execution, or cancel()
\* has named it, its removal is on the way for as long as it is live, unless that removal
\* came before the container; and a cancel() that waits, waits for such executions alone.
THEOREM EveryHaltArrives == Spec => []HaltsFit
<1>1. Init => HaltsFit
  BY DEF Init, HaltsFit, NoCancel
<1>2. TypeOK /\ BegunFits /\ HaltsFit /\ [Next]_vars => HaltsFit'
  BY HaltsStep
<1>3. RunnerInv => TypeOK /\ BegunFits
  BY DEF RunnerInv
<1> QED
  BY <1>1, <1>2, <1>3, RunnerInvHolds, PTL DEF Spec
=============================================================================
