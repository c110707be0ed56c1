--------------------------- MODULE PlanExecution ---------------------------
(***************************************************************************)
(* What a coordination session promises of the plan a compound request was *)
(* split into (codify/coordination.ts, CoordinationSession.plan): a step   *)
(* runs at most once, after the steps it depends on have completed, and    *)
(* never in a session that is over; a verdict comes with a settled step.   *)
(***************************************************************************)
EXTENDS Naturals, Sequences

CONSTANT Plans   \* a plan gives each of its steps the earlier steps it needs

VARIABLES plan, steps,
          met,       \* a participant has marked the goal as met
          verdict

Init ==
  /\ plan \in Plans
  /\ steps = [s \in DOMAIN plan |-> "waiting"]
  /\ met \in BOOLEAN
  /\ verdict = "active"

Start(s) ==
  /\ verdict = "active"
  /\ steps[s] = "waiting"
  /\ \A d \in plan[s] : steps[d] = "completed"
  /\ steps' = [steps EXCEPT ![s] = "running"]
  /\ UNCHANGED <<plan, met, verdict>>

\* A session completes with a completed step, when the goal is met or every step has
\* completed, and fails on account of a failed step; a verdict, once there, is kept.
Finish(s, outcome) ==
  /\ steps[s] = "running"
  /\ steps' = [steps EXCEPT ![s] = outcome]
  /\ met' \in BOOLEAN /\ (outcome = "failed" => met' = met)
  /\ \/ verdict' = verdict
     \/ /\ verdict = "active" /\ outcome = "completed" /\ verdict' = "completed"
        /\ met' \/ \A x \in DOMAIN plan : steps'[x] = "completed"
     \/ verdict = "active" /\ verdict' = "failed" /\ \E x \in DOMAIN plan : steps'[x] = "failed"
  /\ UNCHANGED plan

Stop ==
  /\ verdict' = "stopped"
  /\ UNCHANGED <<plan, steps, met>>

\* Of a session without a plan only that its verdict stands.
WithoutPlan ==
  /\ plan = <<>>
  /\ met' \in BOOLEAN
  /\ verdict = "active" \/ verdict' = verdict
  /\ verdict' \in {"active", "completed", "failed", "stopped"}
  /\ UNCHANGED <<plan, steps>>

Next ==
  \/ \E s \in DOMAIN plan :
       Start(s) \/ \E outcome \in {"completed", "failed"} : Finish(s, outcome)
  \/ Stop \/ WithoutPlan

Spec == Init /\ [][Next]_<<plan, steps, met, verdict>>
=============================================================================
