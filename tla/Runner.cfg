\* Two runs of one Agent, on each of the three runners; one failure of the engine or one
\* crash. Three files, one of them there from the start; a snapshot passes one over and has
\* room for one.
SPECIFICATION FairSpec
CONSTANTS
  r1 = r1 r2 = r2 u1 = u1 u2 = u2 f1 = f1 f2 = f2
  Agents = {a1}
  Runs = {r1, r2}
  NoAgent = NoAgent
  Principals = {u1, u2}
  Askers <- MCAskers
  Hosts = {h1}
  Allowed = {}
  Observed = {r1}
  ReadOnly = {r2}
  Files = {f1, f2, f3}
  Listed = {f1, f2}
  Found <- Started
  MaxEntries = 1
  MaxWrites = 1
  Providers = {"brokered", "plain", "host"}
  MaxFailures = 1
INVARIANTS TypeOK EvidenceIsComplete NothingLeftBehind CancelReaches
PROPERTIES RunsEnd
