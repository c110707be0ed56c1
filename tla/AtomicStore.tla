----------------------------- MODULE AtomicStore -----------------------------
(***************************************************************************)
(* What every other part of the server assumes of the store: a mutation    *)
(* takes effect at one instant, in full or not at all, and after those of  *)
(* everyone who called before has been answered; a caller told that        *)
(* it succeeded can rely on it for ever, and a caller told that it failed  *)
(* can rely on it never having happened.  Only a crash leaves a caller     *)
(* without an answer, and then the mutation is still all or nothing.       *)
(***************************************************************************)
EXTENDS Naturals, Sequences

CONSTANT Requests

VARIABLES log,      \* the mutations the store contains, in the order they took effect
          outcome,  \* what each caller of `mutate` has been told
          called    \* the callers in the order in which they called

vars == <<log, outcome, called>>

Logged(r) == \E i \in DOMAIN log : log[i] = r

\* Whoever called before r has had an answer.
IsFirst(r) ==
  \A i, j \in DOMAIN called : i < j /\ called[j] = r => outcome[called[i]] # "waiting"

Init == /\ log = <<>>
        /\ outcome = [r \in Requests |-> "idle"]
        /\ called = <<>>

Submit(r) == /\ outcome[r] = "idle"
             /\ outcome' = [outcome EXCEPT ![r] = "waiting"]
             /\ called' = Append(called, r)
             /\ UNCHANGED log

Commit(r) == /\ outcome[r] = "waiting"
             /\ ~Logged(r) /\ IsFirst(r)
             /\ log' = Append(log, r)
             /\ UNCHANGED <<outcome, called>>

Acknowledge(r) == /\ outcome[r] = "waiting"
                  /\ Logged(r)
                  /\ outcome' = [outcome EXCEPT ![r] = "ok"]
                  /\ UNCHANGED <<log, called>>

Reject(r) == /\ outcome[r] = "waiting"
             /\ ~Logged(r)
             /\ outcome' = [outcome EXCEPT ![r] = "rejected"]
             /\ UNCHANGED <<log, called>>

\* The process dies: nobody still waiting will ever be answered.
Abandon == /\ outcome' = [r \in Requests |->
                            IF outcome[r] = "waiting" THEN "lost" ELSE outcome[r]]
           /\ UNCHANGED <<log, called>>

Next == \/ \E r \in Requests : Submit(r) \/ Commit(r) \/ Acknowledge(r) \/ Reject(r)
        \/ Abandon

Spec == Init /\ [][Next]_vars
=============================================================================
