SPECIFICATION Spec
CONSTANTS
  Participants = {p1, p2}
  Contracted = {p2}
  Fallback = p1
  Replies <- SmallReplies
  Callers = {c1, c2}
  Background = bg
  NoAgent = none
  GoalTurns = 1
  MaxAdvances = 1
  MaxTroubles = 1
SYMMETRY Symmetry
INVARIANTS TypeOK StepsRunOnce TurnsDoNotOverlap
PROPERTIES ImplementsPlan
