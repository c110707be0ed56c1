SPECIFICATION FairSpec
CONSTANTS
  Participants = {p1, p2}
  Contracted = {p1, p2}
  Fallback = p1
  Replies <- AllReplies
  Callers = {}
  Background = bg
  NoAgent = none
  GoalTurns = 2
  MaxAdvances = 0
  MaxTroubles = 1
INVARIANTS FallbackIsAlone
PROPERTIES PlansFinish
