------------------------------ MODULE JsonStore ------------------------------
(***************************************************************************)
(* apps/server/src/store.ts: the one JSON file everything is kept in.      *)
(*                                                                         *)
(* The database is abstracted to the sequence of mutations it contains,    *)
(* which is enough to tell a lost update, a half-applied mutation and a    *)
(* reordering apart.  A request is one call of `mutate`.  Crashes, failed  *)
(* writes, refused renames and mutations that throw are all modelled, at   *)
(* every point where the code awaits.                                      *)
(***************************************************************************)
EXTENDS Naturals, Sequences

CONSTANTS Requests,    \* the calls of mutate, each made at most once
          Attempts,    \* renameWithRetry's budget (6 in the code)
          Torn,        \* the content of a file whose write was cut short
          MaxCrashes   \* bound: how often the process may die

ASSUME AttemptsAssumption == Attempts \in Nat \ {0}
ASSUME CrashAssumption == MaxCrashes \in Nat
ASSUME TornAssumption == Torn \notin Seq(Requests)

VARIABLES mode,      \* the process: "down", "booting" (initialize) or "up"
          step,      \* where the operation at the head of the queue stands
          data,      \* this.data
          queue,     \* this.queue: callers not yet served, oldest first
          next,      \* the clone the operation at the head works on
          attempt,   \* renames refused so far
          exists,    \* the store file exists (readFile does not say ENOENT)
          disk,      \* its content
          tmp,       \* the content of the .tmp file
          outcome,   \* what each caller has been told
          called,    \* history: the callers in the order they called
          crashes    \* crashes so far (bounded by MaxCrashes)

vars == <<mode, step, data, queue, next, attempt, exists, disk, tmp, outcome,
          called, crashes>>

Databases == Seq(Requests)
Contents == Databases \cup {Torn}
Outcomes == {"idle", "waiting", "ok", "rejected", "lost"}
Steps == {"idle", "mutating", "writing", "renaming", "swapping"}

TypeOK == /\ mode \in {"down", "booting", "up"}
          /\ step \in Steps
          /\ data \in Databases
          /\ queue \in Databases
          /\ next \in Databases
          /\ attempt \in 0 .. (Attempts - 1)
          /\ exists \in BOOLEAN
          /\ disk \in Contents
          /\ tmp \in Contents
          /\ outcome \in [Requests -> Outcomes]
          /\ called \in Databases
          /\ crashes \in 0 .. MaxCrashes

Init == /\ mode = "down"
        /\ step = "idle"
        /\ data = <<>> /\ queue = <<>> /\ next = <<>>
        /\ attempt = 0
        /\ exists = FALSE
        /\ disk = <<>> /\ tmp = <<>>
        /\ outcome = [r \in Requests |-> "idle"]
        /\ called = <<>>
        /\ crashes = 0

Serving == Head(queue)

\* What initialize() takes for this.data, what writeFile is given, where a new
\* operation is chained and when a refused rename is tried again; the latter two
\* with the slips the properties below are there to catch.
Parsed == disk

Written == {next}

EnqueueNext(r) == IF queue = <<>> THEN <<r>> ELSE <<Serving, r>> \o Tail(queue)
Enqueue(r) == Append(queue, r)

MayRetryOnceMore == attempt < Attempts
MayRetry == attempt < Attempts - 1

-----------------------------------------------------------------------------
\* initialize(): read the file, or write an empty database when there is none.
\* A file that does not parse makes startup throw, so the process stays down.
Initialize == /\ mode = "down"
              /\ \/ /\ exists
                    /\ disk # Torn
                    /\ mode' = "up"
                    /\ data' = Parsed
                    /\ UNCHANGED <<step, next>>
                 \/ /\ ~exists
                    /\ mode' = "booting"
                    /\ step' = "writing"
                    /\ next' = data
                    /\ UNCHANGED data
              /\ UNCHANGED <<queue, attempt, exists, disk, tmp, outcome, called, crashes>>

\* mutate(): chain the operation behind this.queue.
Mutate(r) == /\ mode = "up"
             /\ outcome[r] = "idle"
             /\ outcome' = [outcome EXCEPT ![r] = "waiting"]
             /\ queue' = Enqueue(r)
             /\ called' = Append(called, r)
             /\ UNCHANGED <<mode, step, data, next, attempt, exists, disk, tmp, crashes>>

\* The head of the queue starts: structuredClone(this.data).
Begin == /\ mode = "up"
         /\ step = "idle"
         /\ queue # <<>>
         /\ step' = "mutating"
         /\ next' = data
         /\ UNCHANGED <<mode, data, queue, attempt, exists, disk, tmp, outcome, called, crashes>>

\* The mutation has edited the clone; persist() comes next.
MutationReturns == /\ step = "mutating"
                   /\ step' = "writing"
                   /\ next' = Append(next, Serving)
                   /\ UNCHANGED <<mode, data, queue, attempt, exists, disk, tmp, outcome,
                                  called, crashes>>

\* The slip: the chain is dropped with the operation that failed.
FailDropsQueue == /\ mode = "up"
                  /\ step' = "idle"
                  /\ attempt' = 0
                  /\ next' = <<>>
                  /\ queue' = <<>>
                  /\ outcome' = [outcome EXCEPT ![Serving] = "rejected"]
                  /\ UNCHANGED mode

\* The operation at the head rejects: only its own caller hears of it, the
\* queue goes on (operation.catch) and the clone is dropped.  A rejected
\* initialize() ends the process.
Fail == /\ step' = "idle"
        /\ attempt' = 0
        /\ next' = <<>>
        /\ IF mode = "booting"
           THEN /\ mode' = "down"
                /\ UNCHANGED <<queue, outcome>>
           ELSE /\ outcome' = [outcome EXCEPT ![Serving] = "rejected"]
                /\ queue' = Tail(queue)
                /\ UNCHANGED mode

MutationThrowsInPlace == /\ step = "mutating"
                         /\ Fail
                         /\ data' = Append(data, Head(queue))   \* no structuredClone
                         /\ UNCHANGED <<exists, disk, tmp, called, crashes>>

MutationThrows == /\ step = "mutating"
                  /\ Fail
                  /\ UNCHANGED <<data, exists, disk, tmp, called, crashes>>

\* persist(): writeFile on the .tmp file ...
Write == /\ step = "writing"
         /\ tmp' \in Written
         /\ step' = "renaming"
         /\ UNCHANGED <<mode, data, queue, next, attempt, exists, disk, outcome, called, crashes>>

WriteFails == /\ step = "writing"
              /\ tmp' = Torn
              /\ Fail
              /\ UNCHANGED <<data, exists, disk, called, crashes>>

\* ... then renameWithRetry over the store file, which replaces it at once.
Rename == /\ step = "renaming"
          /\ exists' = TRUE
          /\ disk' = tmp
          /\ step' = "swapping"
          /\ attempt' = 0
          /\ UNCHANGED <<mode, data, queue, next, tmp, outcome, called, crashes>>

RenameRefused == /\ step = "renaming"
                 /\ MayRetry
                 /\ attempt' = attempt + 1
                 /\ UNCHANGED <<mode, step, data, queue, next, exists, disk, tmp, outcome,
                                called, crashes>>

\* A code that is not transient, or the last attempt.
RenameFails == /\ step = "renaming"
               /\ Fail
               /\ UNCHANGED <<data, exists, disk, tmp, called, crashes>>

\* this.data = next, and the caller's promise resolves.  During initialize()
\* the data persisted is this.data itself and there is no caller.
Swap == /\ step = "swapping"
        /\ step' = "idle"
        /\ next' = <<>>
        /\ IF mode = "booting"
           THEN /\ mode' = "up"
                /\ UNCHANGED <<data, queue, outcome>>
           ELSE /\ data' = next
                /\ outcome' = [outcome EXCEPT ![Serving] = "ok"]
                /\ queue' = Tail(queue)
                /\ UNCHANGED mode
        /\ UNCHANGED <<attempt, exists, disk, tmp, called, crashes>>

\* The process dies.  Everything but the two files is gone; a write in progress
\* leaves any part of the .tmp file behind.
Crash == /\ mode # "down"
         /\ crashes < MaxCrashes
         /\ crashes' = crashes + 1
         /\ mode' = "down"
         /\ step' = "idle"
         /\ data' = <<>> /\ queue' = <<>> /\ next' = <<>>
         /\ attempt' = 0
         /\ tmp' \in (IF step = "writing" THEN {tmp, Torn, next} ELSE {tmp})
         /\ outcome' = [r \in Requests |->
                          IF outcome[r] = "waiting" THEN "lost" ELSE outcome[r]]
         /\ UNCHANGED <<exists, disk, called>>

-----------------------------------------------------------------------------
Work == \/ Begin \/ MutationReturns \/ MutationThrows \/ Write \/ WriteFails
        \/ Rename \/ RenameRefused \/ RenameFails \/ Swap

Next == \/ Initialize
        \/ \E r \in Requests : Mutate(r)
        \/ Work
        \/ Crash

Spec == Init /\ [][Next]_vars

\* The event loop runs a promise chain that is ready, and the file system
\* answers: the operation at the head of the queue always takes a next step.
FairSpec == Spec /\ WF_vars(Work)

-----------------------------------------------------------------------------
\* The stored file is never half written, and it and this.data agree except between the
\* rename and the swap, where the file is ahead by exactly the mutation being served.
MemoryTracksDisk ==
  /\ disk # Torn
  /\ mode = "up" /\ step # "swapping" => data = disk
  /\ mode = "up" /\ step = "swapping" => disk = Append(data, Serving)

\* Every caller hears back while the process lives: one operation failing never
\* stalls the ones queued behind it.
EveryCallerAnswered ==
  \A r \in Requests : outcome[r] = "waiting" ~> outcome[r] # "waiting"

\* The file implements the atomic store; a mutation happens when rename does. Whatever
\* fails or crashes, an acknowledged mutation stays, a rejected one leaves no trace, and
\* mutations take effect in the order their callers called.
Atomic == INSTANCE AtomicStore WITH log <- disk

ImplementsAtomicStore == Atomic!Spec
=============================================================================
