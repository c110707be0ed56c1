\* One request, which may be split, one step, and changes of Agent or principal,
\* requests that fail: three events in all, and not followed further than NotLost says.
SPECIFICATION Spec
CONSTANTS
  Users = {u1, u2}
  Agents = {a1, a2}
  Runs = {r1}
  Steps = {x1}
  Compound = {r1}
  NoRun = NoRun
  Nobody = Nobody
  MaxEvents = 3
  MaxLoads = 2
SYMMETRY Symmetry
CONSTRAINT NotLost
INVARIANTS TypeOK QuietPageIsTrue
PROPERTY OnlyLateAnswersMislead
CHECK_DEADLOCK FALSE
