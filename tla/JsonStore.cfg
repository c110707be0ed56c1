SPECIFICATION FairSpec
CONSTANTS
  Requests = {r1, r2, r3}
  Attempts = 6
  Torn = Torn
  MaxCrashes = 2
INVARIANTS
  TypeOK
  MemoryTracksDisk
PROPERTIES
  EveryCallerAnswered
  ImplementsAtomicStore
CHECK_DEADLOCK FALSE
