--------------------------- MODULE JsonStoreProofs ---------------------------
(***************************************************************************)
(* What the store keeps for every number of calls, attempts and crashes:   *)
(* its memory agrees with its file, and it implements AtomicStore.         *)
(***************************************************************************)
EXTENDS JsonStore, SequenceTheorems, TLAPS

\* The queue holds exactly the callers that wait, each once.
QueueIsWaiters ==
  /\ \A i \in DOMAIN queue : outcome[queue[i]] = "waiting"
  /\ \A i, j \in DOMAIN queue : queue[i] = queue[j] => i = j
  /\ \A r \in Requests : outcome[r] = "waiting" => \E i \in DOMAIN queue : queue[i] = r

\* An operation is at work only on behalf of the head of the queue, or of initialize().
QueueFits ==
  /\ mode # "up" => queue = <<>>
  /\ mode = "down" => step = "idle"
  /\ mode = "booting" => step \in {"writing", "renaming", "swapping"}
  /\ mode = "up" /\ step # "idle" => queue # <<>>
  /\ QueueIsWaiters

\* The clone and the .tmp file hold what the operation at the head has made of this.data.
ClonesFit ==
  /\ ~exists => disk = <<>>
  /\ mode # "up" => data = <<>>
  /\ mode = "booting" =>
       /\ next = <<>>
       /\ step = "renaming" => tmp = <<>>
       /\ IF step = "swapping" THEN disk = <<>> ELSE ~exists
  /\ mode = "up" =>
       /\ step = "mutating" => next = data
       /\ step \in {"writing", "renaming", "swapping"} => next = Append(data, Serving)
       /\ step = "renaming" => tmp = next

\* Every mutation in the file is acknowledged, or its caller was lost in a crash, or it is
\* the one between its rename and its answer.
LogFits ==
  \A i \in DOMAIN disk :
    \/ outcome[disk[i]] \in {"ok", "lost"}
    \/ mode = "up" /\ step = "swapping" /\ disk[i] = Serving

\* The queue is in the order of the calls.
OrderFits ==
  /\ \A i \in DOMAIN called : outcome[called[i]] # "idle"
  /\ \A i, j \in DOMAIN called : \A q \in DOMAIN queue :
       i < j /\ called[j] = queue[q] /\ outcome[called[i]] = "waiting"
         => \E p \in 1 .. q - 1 : queue[p] = called[i]

StoreInv == TypeOK /\ QueueFits /\ ClonesFit /\ MemoryTracksDisk /\ LogFits /\ OrderFits

-----------------------------------------------------------------------------
\* What the sequences of the store are made of.
LEMMA Chained ==
  ASSUME NEW s \in Databases, NEW r \in Requests
  PROVE  /\ Append(s, r) \in Databases
         /\ Len(Append(s, r)) = Len(s) + 1
         /\ Append(s, r) # <<>>
         /\ DOMAIN s = 1 .. Len(s) /\ Len(s) \in Nat
         /\ DOMAIN Append(s, r) = 1 .. Len(s) + 1
         /\ \A i \in 1 .. Len(s) : Append(s, r)[i] = s[i]
         /\ Append(s, r)[Len(s) + 1] = r
         /\ s # <<>> => Head(Append(s, r)) = Head(s)
<1>1. /\ Append(s, r) \in Seq(Requests)
      /\ Len(Append(s, r)) = Len(s) + 1
      /\ \A i \in 1 .. Len(s) : Append(s, r)[i] = s[i]
      /\ Append(s, r)[Len(s) + 1] = r
      /\ Append(s, r) # <<>>
  BY AppendProperties DEF Databases
<1>2. DOMAIN s = 1 .. Len(s) /\ Len(s) \in Nat /\ DOMAIN Append(s, r) = 1 .. Len(s) + 1
  BY <1>1, LenProperties DEF Databases
<1>4. s # <<>> => Len(s) \in Nat \ {0}
  BY EmptySeq DEF Databases
<1>5. s # <<>> => Head(Append(s, r)) = Append(s, r)[1] /\ Head(s) = s[1]
  OBVIOUS
<1> QED
  BY <1>1, <1>2, <1>4, <1>5 DEF Databases

LEMMA Served ==
  ASSUME NEW s \in Databases, s # <<>>
  PROVE  /\ Head(s) \in Requests /\ Head(s) = s[1]
         /\ Tail(s) \in Databases
         /\ 1 \in DOMAIN s /\ DOMAIN s = 1 .. Len(s) /\ Len(s) \in Nat
         /\ DOMAIN Tail(s) = 1 .. Len(s) - 1
         /\ \A i \in DOMAIN Tail(s) : i + 1 \in DOMAIN s /\ Tail(s)[i] = s[i + 1]
<1>1. Head(s) \in Requests /\ Tail(s) \in Seq(Requests) /\ Len(Tail(s)) = Len(s) - 1
      /\ \A i \in 1 .. Len(Tail(s)) : Tail(s)[i] = s[i + 1]
  BY HeadTailProperties DEF Databases
<1>2. Len(s) \in Nat \ {0} /\ DOMAIN s = 1 .. Len(s)
  BY EmptySeq, LenProperties DEF Databases
<1>3. DOMAIN Tail(s) = 1 .. Len(s) - 1
  BY <1>1, LenProperties
<1>4. Head(s) = s[1]
  OBVIOUS
<1> QED
  BY <1>1, <1>2, <1>3, <1>4 DEF Databases

-----------------------------------------------------------------------------
LEMMA TypeStep == TypeOK /\ QueueFits /\ [Next]_vars => TypeOK'
<1> SUFFICES ASSUME TypeOK, QueueFits, [Next]_vars PROVE TypeOK'
  OBVIOUS
<1> USE AttemptsAssumption, CrashAssumption DEF Steps, Outcomes, Contents
<1>1. CASE UNCHANGED vars
  BY <1>1 DEF TypeOK, vars
<1>2. <<>> \in Databases
  BY EmptySeq DEF Databases
<1>3. step # "idle" /\ mode = "up" => Serving \in Requests /\ Tail(queue) \in Databases
  BY Served DEF TypeOK, QueueFits, Serving
<1>16. ASSUME Fail, step # "idle", UNCHANGED <<data, exists, disk, called, crashes>>,
              tmp' \in Contents
       PROVE  TypeOK'
  <2>1. CASE mode = "booting"
    BY <1>2, <1>16, <2>1 DEF TypeOK, Fail
  <2>2. CASE mode # "booting"
    <3>1. mode = "up"
      BY <1>16, <2>2 DEF QueueFits, TypeOK
    <3>2. outcome' \in [Requests -> Outcomes] /\ queue' \in Databases /\ mode' = mode
      BY <1>3, <1>16, <2>2, <3>1 DEF TypeOK, Fail
    <3>3. step' = "idle" /\ attempt' = 0 /\ next' = <<>>
      BY <1>16 DEF Fail
    <3> QED
      BY <1>2, <1>16, <3>2, <3>3 DEF TypeOK
  <2> QED
    BY <2>1, <2>2
<1>4. CASE Initialize
  BY <1>4 DEF TypeOK, Initialize, Parsed
<1>5. ASSUME NEW r \in Requests, Mutate(r) PROVE TypeOK'
  BY <1>5, Chained DEF TypeOK, Mutate, Enqueue
<1>6. CASE Begin
  BY <1>6 DEF TypeOK, Begin
<1>7. CASE MutationReturns
  BY <1>7, <1>3, Chained DEF TypeOK, QueueFits, MutationReturns
<1>8. CASE MutationThrows
  BY <1>8, <1>16 DEF TypeOK, MutationThrows
<1>9. CASE Write
  BY <1>9 DEF TypeOK, Write, Written
<1>10. CASE WriteFails
  BY <1>10, <1>16 DEF TypeOK, WriteFails
<1>11. CASE Rename
  BY <1>11 DEF TypeOK, Rename
<1>12. CASE RenameRefused
  BY <1>12 DEF TypeOK, RenameRefused, MayRetry
<1>13. CASE RenameFails
  BY <1>13, <1>16 DEF TypeOK, RenameFails
<1>14. CASE Swap
  <2>1. CASE mode = "booting"
    BY <1>14, <1>2, <2>1 DEF TypeOK, Swap
  <2>2. CASE mode # "booting"
    <3>1. mode = "up"
      BY <1>14, <2>2 DEF QueueFits, TypeOK, Swap
    <3> QED
      BY <1>14, <1>2, <1>3, <2>2, <3>1 DEF TypeOK, Swap
  <2> QED
    BY <2>1, <2>2
<1>15. CASE Crash
  BY <1>15, <1>2 DEF TypeOK, Crash
<1> QED
  BY <1>1, <1>4, <1>5, <1>6, <1>7, <1>8, <1>9, <1>10, <1>11, <1>12, <1>13, <1>14, <1>15
     DEF Next, Work

\* What every step does to the callers: nothing, a call, an answer to the head of the
\* queue (the operation at work having left nothing of its own in the file, or all of it),
\* or a crash.
Calls(r) ==
  /\ mode = "up" /\ outcome[r] = "idle"
  /\ outcome' = [outcome EXCEPT ![r] = "waiting"]
  /\ queue' = Append(queue, r) /\ called' = Append(called, r)

Answers(answer) ==
  /\ mode = "up" /\ queue # <<>>
  /\ outcome' = [outcome EXCEPT ![Serving] = answer]
  /\ queue' = Tail(queue) /\ called' = called

Dies ==
  /\ outcome' = [r \in Requests |-> IF outcome[r] = "waiting" THEN "lost" ELSE outcome[r]]
  /\ queue' = <<>> /\ called' = called

Unswapped == ~(mode = "up" /\ step = "swapping")

LEMMA CallerStep ==
  ASSUME TypeOK, QueueFits, Next
  PROVE  \/ UNCHANGED <<queue, outcome, called>> /\ Unswapped /\ (disk' = disk \/ Rename)
         \/ \E r \in Requests : Calls(r) /\ UNCHANGED <<mode, step, disk>>
         \/ Answers("ok") /\ step = "swapping" /\ UNCHANGED <<mode, disk>>
         \/ Answers("rejected") /\ step # "swapping" /\ UNCHANGED <<mode, disk>>
         \/ Dies /\ mode' = "down" /\ UNCHANGED disk
<1>1. CASE Initialize \/ Begin \/ MutationReturns \/ Write \/ Rename \/ RenameRefused
  BY <1>1 DEF Initialize, Begin, MutationReturns, Write, Rename, RenameRefused, Unswapped
<1>2. ASSUME NEW r \in Requests, Mutate(r)
      PROVE  Calls(r) /\ UNCHANGED <<mode, step, disk>>
  BY <1>2 DEF Mutate, Enqueue, Calls
<1>3. CASE MutationThrows \/ WriteFails \/ RenameFails
  BY <1>3 DEF MutationThrows, WriteFails, RenameFails, Fail, Answers, QueueFits, TypeOK,
              Unswapped
<1>4. CASE Swap
  BY <1>4 DEF Swap, Answers, QueueFits, TypeOK, Unswapped
<1>5. CASE Crash
  BY <1>5 DEF Crash, Dies
<1> QED
  BY <1>1, <1>2, <1>3, <1>4, <1>5 DEF Next, Work

LEMMA WaitersStep == TypeOK /\ QueueFits /\ Next => QueueIsWaiters'
<1> SUFFICES ASSUME TypeOK, QueueFits, Next PROVE QueueIsWaiters'
  OBVIOUS
<1>1. QueueIsWaiters /\ queue \in Databases /\ outcome \in [Requests -> Outcomes]
  BY DEF QueueFits, TypeOK
<1>2. \A i \in DOMAIN queue : queue[i] \in Requests
  BY <1>1, ElementOfSeq, LenProperties DEF Databases
<1>3. CASE UNCHANGED <<queue, outcome, called>>
  BY <1>1, <1>3 DEF QueueIsWaiters
<1>4. ASSUME NEW r \in Requests, Calls(r) PROVE QueueIsWaiters'
  <2> DEFINE n == Len(queue)
  <2>1. /\ n \in Nat /\ DOMAIN queue = 1 .. n /\ DOMAIN queue' = 1 .. n + 1
        /\ \A i \in 1 .. n : queue'[i] = queue[i]
        /\ queue'[n + 1] = r
    BY <1>1, <1>4, Chained DEF Calls
  <2>2. \A i \in 1 .. n : queue[i] # r
    BY <1>1, <1>4, <2>1 DEF Calls, QueueIsWaiters
  <2>3. \A q \in Requests : outcome'[q] = IF q = r THEN "waiting" ELSE outcome[q]
    BY <1>1, <1>4 DEF Calls
  <2> HIDE DEF n
  <2>4. \A i \in DOMAIN queue' : outcome'[queue'[i]] = "waiting"
    BY <1>1, <1>2, <2>1, <2>3 DEF QueueIsWaiters
  <2>5. \A i, j \in DOMAIN queue' : queue'[i] = queue'[j] => i = j
    BY <1>1, <2>1, <2>2 DEF QueueIsWaiters
  <2>6. ASSUME NEW q \in Requests, outcome'[q] = "waiting"
        PROVE  \E i \in DOMAIN queue' : queue'[i] = q
    <3>1. CASE q = r
      BY <2>1, <3>1
    <3>2. CASE q # r
      BY <1>1, <2>1, <2>3, <2>6, <3>2 DEF QueueIsWaiters
    <3> QED
      BY <3>1, <3>2
  <2> QED
    BY <2>4, <2>5, <2>6 DEF QueueIsWaiters
<1>5. ASSUME NEW answer \in {"ok", "rejected"}, Answers(answer) PROVE QueueIsWaiters'
  <2> DEFINE n == Len(queue)
  <2>1. /\ n \in Nat /\ DOMAIN queue = 1 .. n /\ 1 \in DOMAIN queue
        /\ DOMAIN queue' = 1 .. n - 1
        /\ \A i \in 1 .. n - 1 : queue'[i] = queue[i + 1]
        /\ Serving = queue[1]
    BY <1>1, <1>5, Served DEF Answers, Serving
  <2>2. \A q \in Requests : outcome'[q] = IF q = Serving THEN answer ELSE outcome[q]
    BY <1>1, <1>5 DEF Answers
  <2> HIDE DEF n
  <2>3. ASSUME NEW i \in DOMAIN queue' PROVE outcome'[queue'[i]] = "waiting"
    <3>1. i + 1 \in DOMAIN queue /\ queue'[i] = queue[i + 1] /\ i + 1 # 1
      BY <2>1, <2>3
    <3> QED
      BY <1>1, <1>2, <2>1, <2>2, <3>1 DEF QueueIsWaiters
  <2>4. ASSUME NEW i \in DOMAIN queue', NEW j \in DOMAIN queue', queue'[i] = queue'[j]
        PROVE  i = j
    <3>1. i + 1 = j + 1
      BY <1>1, <2>1, <2>4 DEF QueueIsWaiters
    <3> QED
      BY <2>1, <3>1
  <2>5. ASSUME NEW q \in Requests, outcome'[q] = "waiting"
        PROVE  \E i \in DOMAIN queue' : queue'[i] = q
    <3>1. q # Serving /\ outcome[q] = "waiting"
      BY <2>2, <2>5
    <3>2. PICK k \in DOMAIN queue : queue[k] = q
      BY <1>1, <3>1 DEF QueueIsWaiters
    <3>3. k - 1 \in DOMAIN queue' /\ queue'[k - 1] = q
      BY <2>1, <3>1, <3>2
    <3> QED
      BY <3>3
  <2> QED
    BY <2>3, <2>4, <2>5 DEF QueueIsWaiters
<1>6. CASE Dies
  BY <1>1, <1>6, EmptySeq, LenProperties DEF Dies, QueueIsWaiters
<1> QED
  BY <1>3, <1>4, <1>5, <1>6, CallerStep

LEMMA QueueStep == TypeOK /\ QueueFits /\ [Next]_vars => QueueFits'
<1> SUFFICES ASSUME TypeOK, QueueFits, [Next]_vars PROVE QueueFits'
  OBVIOUS
<1>1. CASE UNCHANGED vars
  BY <1>1 DEF QueueFits, QueueIsWaiters, vars
<1>2. ASSUME Next
      PROVE  /\ mode' = "down" => step' = "idle"
             /\ mode' = "booting" => step' \in {"writing", "renaming", "swapping"}
  BY <1>2 DEF Next, Work, Initialize, Mutate, Begin, MutationReturns, MutationThrows, Write,
              WriteFails, Rename, RenameRefused, RenameFails, Fail, Swap, Crash, QueueFits,
              TypeOK, Steps
<1>3. ASSUME Next
      PROVE  /\ mode' # "up" => queue' = <<>>
             /\ mode' = "up" /\ step' # "idle" => queue' # <<>>
  <2>1. CASE UNCHANGED <<queue, outcome, called>>
    BY <1>3, <2>1 DEF Next, Work, Initialize, Mutate, Begin, MutationReturns, MutationThrows,
              Write, WriteFails, Rename, RenameRefused, RenameFails, Fail, Swap, Crash,
              QueueFits, TypeOK
  <2>2. ASSUME NEW r \in Requests, Calls(r), UNCHANGED <<mode, step, disk>>
        PROVE  mode' = "up" /\ queue' # <<>>
    BY <2>2, Chained DEF Calls, TypeOK
  <2>3. CASE mode = "up" /\ mode' = "up" /\ step' = "idle"
    BY <2>3
  <2>4. (\E answer : Answers(answer)) => mode = "up" /\ queue # <<>>
    BY DEF Answers
  <2>5. CASE Dies /\ mode' = "down"
    BY <2>5 DEF Dies
  <2>6. CASE MutationThrows \/ WriteFails \/ RenameFails \/ Swap
    BY <2>6, <2>3, <1>3, <2>1 DEF MutationThrows, WriteFails, RenameFails, Fail, Swap, QueueFits, TypeOK
  <2> QED
    BY <1>3, <2>1, <2>2, <2>5, <2>6 DEF Next, Work, Initialize, Mutate, Begin, MutationReturns,
       Write, Rename, RenameRefused, Crash, Dies, Calls, Enqueue
<1> QED
  BY <1>1, <1>2, <1>3, WaitersStep DEF QueueFits

-----------------------------------------------------------------------------
LEMMA ClonesStep ==
  TypeOK /\ QueueFits /\ ClonesFit /\ MemoryTracksDisk /\ [Next]_vars
    => ClonesFit' /\ MemoryTracksDisk'
<1> SUFFICES ASSUME TypeOK, QueueFits, ClonesFit, MemoryTracksDisk, [Next]_vars
             PROVE  ClonesFit' /\ MemoryTracksDisk'
  OBVIOUS
<1>1. CASE UNCHANGED vars
  BY <1>1 DEF ClonesFit, MemoryTracksDisk, Serving, vars
<1>2. <<>> # Torn /\ \A s \in Databases, r \in Requests : Append(s, r) # Torn
  BY TornAssumption, EmptySeq, Chained DEF Databases
<1>3. mode = "up" /\ step # "idle" => Serving \in Requests
  BY Served DEF TypeOK, QueueFits, Serving
<1>4. CASE Initialize
  BY <1>4 DEF Initialize, Parsed, ClonesFit, MemoryTracksDisk, QueueFits, TypeOK
<1>5. ASSUME NEW r \in Requests, Mutate(r) PROVE ClonesFit' /\ MemoryTracksDisk'
  <2>1. step # "idle" => Serving' = Serving
    BY <1>5, Chained DEF Mutate, Enqueue, QueueFits, TypeOK, Serving
  <2> QED
    BY <1>5, <2>1 DEF Mutate, ClonesFit, MemoryTracksDisk
<1>6. CASE Begin \/ MutationReturns
  BY <1>6 DEF Begin, MutationReturns, ClonesFit, MemoryTracksDisk, QueueFits, Serving
<1>7. ASSUME Fail, step # "swapping", step # "idle", UNCHANGED <<data, exists, disk>>
      PROVE  ClonesFit' /\ MemoryTracksDisk'
  BY <1>7 DEF Fail, ClonesFit, MemoryTracksDisk, QueueFits, TypeOK
<1>8. CASE MutationThrows \/ WriteFails \/ RenameFails
  BY <1>7, <1>8 DEF MutationThrows, WriteFails, RenameFails
<1>9. CASE Write
  BY <1>9 DEF Write, Written, ClonesFit, MemoryTracksDisk, QueueFits, Serving
<1>10. CASE Rename
  <2>1. disk' # Torn
    BY <1>2, <1>3, <1>10 DEF Rename, ClonesFit, QueueFits, TypeOK
  <2> QED
    BY <1>10, <2>1 DEF Rename, ClonesFit, MemoryTracksDisk, QueueFits, Serving, TypeOK
<1>11. CASE RenameRefused
  BY <1>11 DEF RenameRefused, ClonesFit, MemoryTracksDisk, Serving
<1>12. CASE Swap
  BY <1>12 DEF Swap, ClonesFit, MemoryTracksDisk, QueueFits, TypeOK, Serving
<1>13. CASE Crash
  BY <1>13 DEF Crash, ClonesFit, MemoryTracksDisk
<1> QED
  BY <1>1, <1>4, <1>5, <1>6, <1>8, <1>9, <1>10, <1>11, <1>12, <1>13 DEF Next, Work

\* What the head of the queue has or has not in the file.
LEMMA HeadWaits ==
  ASSUME TypeOK, QueueFits, queue # <<>>
  PROVE  Serving \in Requests /\ outcome[Serving] = "waiting" /\ Serving = queue[1]
<1>1. Serving \in Requests /\ Serving = queue[1] /\ 1 \in DOMAIN queue
  BY Served DEF TypeOK, Serving
<1> QED
  BY <1>1 DEF QueueFits, QueueIsWaiters

LEMMA LogStep ==
  TypeOK /\ QueueFits /\ ClonesFit /\ MemoryTracksDisk /\ LogFits /\ [Next]_vars => LogFits'
<1> SUFFICES ASSUME TypeOK, QueueFits, ClonesFit, MemoryTracksDisk, LogFits, [Next]_vars
             PROVE  LogFits'
  OBVIOUS
<1>1. CASE UNCHANGED vars
  BY <1>1 DEF LogFits, Serving, vars
<1>2. disk \in Databases /\ outcome \in [Requests -> Outcomes]
  BY DEF MemoryTracksDisk, TypeOK, Contents
<1>3. \A i \in DOMAIN disk : disk[i] \in Requests
  BY <1>2, ElementOfSeq, LenProperties DEF Databases
<1>4. CASE UNCHANGED <<queue, outcome, called>> /\ Unswapped /\ disk' = disk
  BY <1>4 DEF LogFits, Unswapped
<1>5. CASE UNCHANGED <<queue, outcome, called>> /\ Unswapped /\ Rename
  <2>1. CASE mode = "up"
    <3>1. Serving \in Requests /\ data = disk /\ disk' = Append(disk, Serving) /\ mode' = "up"
          /\ step' = "swapping" /\ Serving' = Serving
      BY <1>5, <2>1, HeadWaits
         DEF Rename, ClonesFit, MemoryTracksDisk, QueueFits, Serving
    <3>2. /\ DOMAIN disk' = 1 .. Len(disk) + 1 /\ DOMAIN disk = 1 .. Len(disk)
          /\ Len(disk) \in Nat
          /\ \A i \in 1 .. Len(disk) : disk'[i] = disk[i]
          /\ disk'[Len(disk) + 1] = Serving
      BY <1>2, <3>1, Chained
    <3>3. \A i \in DOMAIN disk : outcome[disk[i]] \in {"ok", "lost"}
      BY <1>5 DEF LogFits, Unswapped
    <3> QED
      BY <1>5, <3>1, <3>2, <3>3 DEF LogFits
  <2>2. CASE mode # "up"
    BY <1>5, <2>2, EmptySeq, LenProperties DEF Rename, ClonesFit, QueueFits, TypeOK, LogFits
  <2> QED
    BY <2>1, <2>2
<1>6. ASSUME NEW r \in Requests, Calls(r), UNCHANGED <<mode, step, disk>> PROVE LogFits'
  <2>1. queue # <<>> => Serving' = Serving
    BY <1>6, Chained DEF Calls, TypeOK, Serving
  <2> QED
    BY <1>2, <1>3, <1>6, <2>1, HeadWaits DEF Calls, LogFits, QueueFits
<1>7. CASE Answers("ok") /\ step = "swapping" /\ UNCHANGED <<mode, disk>>
  BY <1>2, <1>3, <1>7, HeadWaits DEF Answers, LogFits
<1>8. CASE Answers("rejected") /\ step # "swapping" /\ UNCHANGED <<mode, disk>>
  BY <1>2, <1>3, <1>8, HeadWaits DEF Answers, LogFits
<1>9. CASE Dies /\ mode' = "down" /\ UNCHANGED disk
  BY <1>2, <1>3, <1>9, HeadWaits DEF Dies, LogFits, QueueFits
<1> QED
  BY <1>1, <1>4, <1>5, <1>6, <1>7, <1>8, <1>9, CallerStep

LEMMA OrderStep == TypeOK /\ QueueFits /\ OrderFits /\ [Next]_vars => OrderFits'
<1> SUFFICES ASSUME TypeOK, QueueFits, OrderFits, [Next]_vars PROVE OrderFits'
  OBVIOUS
<1>1. CASE UNCHANGED vars
  BY <1>1 DEF OrderFits, vars
<1>2. /\ called \in Databases /\ queue \in Databases /\ outcome \in [Requests -> Outcomes]
      /\ QueueIsWaiters
  BY DEF TypeOK, QueueFits
<1>3. /\ \A i \in DOMAIN called : called[i] \in Requests
      /\ \A i \in DOMAIN queue : queue[i] \in Requests
  BY <1>2, ElementOfSeq, LenProperties DEF Databases
<1>4. CASE UNCHANGED <<queue, outcome, called>>
  BY <1>4 DEF OrderFits
<1>5. ASSUME NEW r \in Requests, Calls(r) PROVE OrderFits'
  <2> DEFINE n == Len(queue)  m == Len(called)
  <2>1. /\ n \in Nat /\ DOMAIN queue = 1 .. n /\ DOMAIN queue' = 1 .. n + 1
        /\ \A i \in 1 .. n : queue'[i] = queue[i]
        /\ queue'[n + 1] = r
        /\ m \in Nat /\ DOMAIN called = 1 .. m /\ DOMAIN called' = 1 .. m + 1
        /\ \A i \in 1 .. m : called'[i] = called[i]
        /\ called'[m + 1] = r
    BY <1>2, <1>5, Chained DEF Calls
  <2>2. \A q \in Requests : outcome'[q] = IF q = r THEN "waiting" ELSE outcome[q]
    BY <1>2, <1>5 DEF Calls
  <2>3. (\A i \in 1 .. n : queue[i] # r) /\ (\A i \in 1 .. m : called[i] # r)
    BY <1>2, <1>5, <2>1 DEF Calls, QueueIsWaiters, OrderFits
  <2> HIDE DEF n, m
  <2>4. \A i \in DOMAIN called' : outcome'[called'[i]] # "idle"
    BY <1>3, <2>1, <2>2 DEF OrderFits
  <2>5. ASSUME NEW i \in DOMAIN called', NEW j \in DOMAIN called', NEW q \in DOMAIN queue',
               i < j, called'[j] = queue'[q], outcome'[called'[i]] = "waiting"
        PROVE  \E p \in 1 .. q - 1 : queue'[p] = called'[i]
    <3>1. i \in 1 .. m /\ called'[i] = called[i] /\ outcome[called[i]] = "waiting"
      BY <1>3, <2>1, <2>2, <2>3, <2>5
    <3>2. CASE j \in 1 .. m
      <4>1. q \in 1 .. n /\ called[j] = queue[q]
        BY <2>1, <2>3, <2>5, <3>2
      <4>2. PICK p \in 1 .. q - 1 : queue[p] = called[i]
        BY <2>1, <2>5, <3>1, <3>2, <4>1 DEF OrderFits
      <4> QED
        BY <2>1, <3>1, <4>1, <4>2
    <3>3. CASE j = m + 1
      <4>1. q = n + 1
        BY <2>1, <2>3, <2>5, <3>3
      <4>2. PICK p \in 1 .. n : queue[p] = called[i]
        BY <1>2, <1>3, <2>1, <3>1 DEF QueueIsWaiters
      <4> QED
        BY <2>1, <3>1, <4>1, <4>2
    <3> QED
      BY <2>1, <2>5, <3>2, <3>3
  <2> QED
    BY <2>4, <2>5 DEF OrderFits
<1>6. ASSUME NEW answer \in {"ok", "rejected"}, Answers(answer) PROVE OrderFits'
  <2> DEFINE n == Len(queue)
  <2>1. /\ n \in Nat /\ DOMAIN queue = 1 .. n /\ 1 \in DOMAIN queue
        /\ DOMAIN queue' = 1 .. n - 1
        /\ \A i \in 1 .. n - 1 : queue'[i] = queue[i + 1]
        /\ Serving = queue[1] /\ called' = called
    BY <1>2, <1>6, Served DEF Answers, Serving
  <2>2. \A q \in Requests : outcome'[q] = IF q = Serving THEN answer ELSE outcome[q]
    BY <1>2, <1>6 DEF Answers
  <2> HIDE DEF n
  <2>3. \A i \in DOMAIN called' : outcome'[called'[i]] # "idle"
    BY <1>3, <2>1, <2>2 DEF OrderFits
  <2>4. ASSUME NEW i \in DOMAIN called, NEW j \in DOMAIN called, NEW q \in DOMAIN queue',
               i < j, called[j] = queue'[q], outcome'[called[i]] = "waiting"
        PROVE  \E p \in 1 .. q - 1 : queue'[p] = called[i]
    <3>1. called[i] # queue[1] /\ outcome[called[i]] = "waiting"
      BY <1>3, <2>1, <2>2, <2>4
    <3>2. q + 1 \in DOMAIN queue /\ called[j] = queue[q + 1]
      BY <2>1, <2>4
    <3>3. PICK p \in 1 .. (q + 1) - 1 : queue[p] = called[i]
      BY <2>4, <3>1, <3>2 DEF OrderFits
    <3>4. p - 1 \in 1 .. q - 1 /\ queue'[p - 1] = called[i]
      BY <2>1, <3>1, <3>3
    <3> QED
      BY <3>4
  <2> QED
    BY <2>1, <2>3, <2>4 DEF OrderFits
<1>7. CASE Dies
  BY <1>2, <1>3, <1>7, EmptySeq, LenProperties DEF Dies, OrderFits
<1> QED
  BY <1>1, <1>4, <1>5, <1>6, <1>7, CallerStep

-----------------------------------------------------------------------------
LEMMA StoreInit == Init => StoreInv
<1> SUFFICES ASSUME Init PROVE StoreInv
  OBVIOUS
<1>1. <<>> \in Databases /\ <<>> # Torn /\ DOMAIN <<>> = {}
  <2>1. <<>> \in Seq(Requests)
    BY EmptySeq
  <2>2. DOMAIN <<>> = {}
    OBVIOUS
  <2> QED
    BY <2>1, <2>2, TornAssumption DEF Databases
<1>2. TypeOK
  <2>1. 0 \in 0 .. (Attempts - 1) /\ 0 \in 0 .. MaxCrashes
    BY AttemptsAssumption, CrashAssumption
  <2>2. [r \in Requests |-> "idle"] \in [Requests -> Outcomes]
    BY DEF Outcomes
  <2> QED
    BY <1>1, <2>1, <2>2 DEF Init, TypeOK, Contents, Steps
<1>3. QueueFits /\ ClonesFit /\ MemoryTracksDisk
  BY <1>1 DEF Init, QueueFits, QueueIsWaiters, ClonesFit, MemoryTracksDisk
<1>4. LogFits /\ OrderFits
  BY <1>1 DEF Init, LogFits, OrderFits
<1> QED
  BY <1>2, <1>3, <1>4 DEF StoreInv

\* The invariant the theorems below rest on.
THEOREM StoreInvariant == Spec => []StoreInv
<1>1. StoreInv /\ [Next]_vars => StoreInv'
  BY TypeStep, QueueStep, ClonesStep, LogStep, OrderStep DEF StoreInv
<1> QED
  BY <1>1, StoreInit, PTL DEF Spec

\* Every value the store holds is of the kind the code gives it; in particular a rename
\* is never refused more often than renameWithRetry allows.
THEOREM TypeCorrect == Spec => []TypeOK
<1>1. StoreInv => TypeOK
  BY DEF StoreInv
<1> QED
  BY <1>1, StoreInvariant, PTL

\* this.data and the file agree whatever fails and whenever the process dies, except
\* between a rename and the swap that follows it; the file is never half written.
THEOREM MemoryHolds == Spec => []MemoryTracksDisk
<1>1. StoreInv => MemoryTracksDisk
  BY DEF StoreInv
<1> QED
  BY <1>1, StoreInvariant, PTL

-----------------------------------------------------------------------------
LEMMA AtomicInit == Init => Atomic!Init
BY DEF Init, Atomic!Init

LEMMA AtomicStep == StoreInv /\ [Next]_vars => [Atomic!Next]_(Atomic!vars)
<1> SUFFICES ASSUME StoreInv, [Next]_vars PROVE [Atomic!Next]_(Atomic!vars)
  OBVIOUS
<1> USE DEF StoreInv
<1>1. CASE UNCHANGED vars
  BY <1>1 DEF vars, Atomic!vars
<1>2. CASE UNCHANGED <<queue, outcome, called>> /\ Unswapped /\ disk' = disk
  BY <1>2 DEF Atomic!vars
<1>3. CASE UNCHANGED <<queue, outcome, called>> /\ Unswapped /\ Rename
  <2>1. CASE mode = "up"
    <3>1. /\ Serving \in Requests /\ outcome[Serving] = "waiting" /\ Serving = queue[1]
          /\ 1 \in DOMAIN queue /\ disk' = Append(disk, Serving)
      BY <1>3, <2>1, HeadWaits, Served
         DEF Rename, ClonesFit, MemoryTracksDisk, QueueFits, TypeOK, Serving
    <3>2. ~Atomic!Logged(Serving)
      BY <1>3, <3>1 DEF LogFits, Unswapped, Atomic!Logged
    <3>3. Atomic!IsFirst(Serving)
      BY <3>1 DEF OrderFits, Atomic!IsFirst
    <3>4. Atomic!Commit(Serving)
      BY <1>3, <3>1, <3>2, <3>3 DEF Atomic!Commit
    <3> QED
      BY <3>1, <3>4 DEF Atomic!Next
  <2>2. CASE mode # "up"
    BY <1>3, <2>2 DEF Rename, ClonesFit, QueueFits, TypeOK, Atomic!vars
  <2> QED
    BY <2>1, <2>2
<1>4. ASSUME NEW r \in Requests, Calls(r), UNCHANGED disk PROVE Atomic!Next
  BY <1>4 DEF Calls, Atomic!Next, Atomic!Submit
<1>5. CASE Answers("ok") /\ step = "swapping" /\ UNCHANGED <<mode, disk>>
  <2>1. Serving \in Requests /\ outcome[Serving] = "waiting"
    BY <1>5, HeadWaits DEF Answers
  <2>2. data \in Databases /\ disk = Append(data, Serving)
    BY <1>5 DEF Answers, MemoryTracksDisk, TypeOK
  <2>3. Len(data) + 1 \in DOMAIN disk /\ disk[Len(data) + 1] = Serving
    BY <2>1, <2>2, Chained
  <2>4. Atomic!Acknowledge(Serving)
    BY <1>5, <2>1, <2>3 DEF Answers, Atomic!Acknowledge, Atomic!Logged
  <2> QED
    BY <2>1, <2>4 DEF Atomic!Next
<1>6. CASE Answers("rejected") /\ step # "swapping" /\ UNCHANGED <<mode, disk>>
  <2>1. Serving \in Requests /\ outcome[Serving] = "waiting"
    BY <1>6, HeadWaits DEF Answers
  <2>2. Atomic!Reject(Serving)
    BY <1>6, <2>1 DEF Answers, LogFits, Atomic!Reject, Atomic!Logged
  <2> QED
    BY <2>1, <2>2 DEF Atomic!Next
<1>7. CASE Dies /\ UNCHANGED disk
  BY <1>7 DEF Dies, Atomic!Next, Atomic!Abandon
<1> QED
  BY <1>1, <1>2, <1>3, <1>4, <1>5, <1>6, <1>7, CallerStep

\* The file implements the atomic store, for any number of calls, attempts and crashes:
\* an acknowledged mutation stays, a rejected one leaves no trace, and mutations take
\* effect in the order in which they were called.
THEOREM Refinement == Spec => ImplementsAtomicStore
<1> QED
  BY AtomicInit, AtomicStep, StoreInvariant, PTL DEF Spec, ImplementsAtomicStore, Atomic!Spec

-----------------------------------------------------------------------------
\* A caller that waits is in the queue of a process that is up ...
CallersInLine ==
  \A r \in Requests : outcome[r] = "waiting" => mode = "up" /\ \E i \in DOMAIN queue : queue[i] = r

\* ... where it stays in its place, or moves up by one when the first has been answered,
\* until it has its own answer.
NobodyOvertakes ==
  \A i \in DOMAIN queue :
    \/ outcome'[queue[i]] # "waiting"
    \/ i \in DOMAIN queue' /\ queue'[i] = queue[i]
    \/ /\ i - 1 \in DOMAIN queue' /\ queue'[i - 1] = queue[i]
       /\ outcome'[queue[1]] \in {"ok", "rejected"}

LEMMA LineStep == StoreInv /\ [Next]_vars => [NobodyOvertakes]_vars
<1> SUFFICES ASSUME StoreInv, Next, NEW i \in DOMAIN queue, outcome'[queue[i]] = "waiting"
             PROVE  \/ i \in DOMAIN queue' /\ queue'[i] = queue[i]
                    \/ /\ i - 1 \in DOMAIN queue' /\ queue'[i - 1] = queue[i]
                       /\ outcome'[queue[1]] \in {"ok", "rejected"}
  BY DEF NobodyOvertakes
<1>1. /\ queue \in Databases /\ outcome \in [Requests -> Outcomes]
      /\ queue[i] \in Requests
  BY ElementOfSeq, LenProperties DEF StoreInv, TypeOK, Databases
<1>2. CASE UNCHANGED <<queue, outcome, called>>
  BY <1>2
<1>3. ASSUME NEW r \in Requests, Calls(r)
      PROVE  i \in DOMAIN queue' /\ queue'[i] = queue[i]
  <2>1. /\ DOMAIN queue = 1 .. Len(queue) /\ Len(queue) \in Nat
        /\ DOMAIN queue' = 1 .. Len(queue) + 1
        /\ \A k \in 1 .. Len(queue) : queue'[k] = queue[k]
    BY <1>1, <1>3, Chained DEF Calls
  <2> QED
    BY <2>1
<1>4. ASSUME NEW answer \in {"ok", "rejected"}, Answers(answer)
      PROVE  /\ i - 1 \in DOMAIN queue' /\ queue'[i - 1] = queue[i]
             /\ outcome'[queue[1]] \in {"ok", "rejected"}
  <2>1. /\ DOMAIN queue = 1 .. Len(queue) /\ Len(queue) \in Nat
        /\ DOMAIN queue' = 1 .. Len(queue) - 1
        /\ \A k \in DOMAIN queue' : queue'[k] = queue[k + 1]
        /\ Serving = queue[1] /\ Serving \in Requests
    BY <1>1, <1>4, Served DEF Answers, Serving
  <2>2. outcome'[queue[1]] = answer
    BY <1>1, <1>4, <2>1 DEF Answers
  <2>3. i # 1
    BY <2>2
  <2>4. i - 1 \in DOMAIN queue' /\ (i - 1) + 1 = i
    BY <2>1, <2>3
  <2> QED
    BY <2>1, <2>2, <2>4
<1>5. ~Dies
  BY <1>1 DEF Dies, Outcomes
<1> QED
  BY <1>2, <1>3, <1>4, <1>5, CallerStep DEF StoreInv

\* Whatever fails, a caller of mutate keeps its place in the queue and nobody is served
\* before it who came later; a step can neither forget it nor send it back. Beyond this,
\* EveryCallerAnswered needs that the one at the head gets an answer, which is fairness.
THEOREM EveryCallerKeepsItsPlace == Spec => []CallersInLine /\ [][NobodyOvertakes]_vars
<1>1. StoreInv => CallersInLine
  <2> SUFFICES ASSUME StoreInv, NEW r \in Requests, outcome[r] = "waiting"
               PROVE  mode = "up" /\ \E i \in DOMAIN queue : queue[i] = r
    BY DEF CallersInLine
  <2>1. PICK i \in DOMAIN queue : queue[i] = r
    BY DEF StoreInv, QueueFits, QueueIsWaiters
  <2>2. queue # <<>>
    BY <2>1
  <2> QED
    BY <2>1, <2>2 DEF StoreInv, QueueFits
<1> QED
  BY <1>1, LineStep, StoreInvariant, PTL DEF Spec
=============================================================================
