--------------------------- MODULE PlanLifecycle ---------------------------
(***************************************************************************)
(* What the registry promises about a plan, as the registry that keeps its *)
(* plans in memory does it: whatever happens to a plan is one of the three *)
(* operations, applied to the plan as it is.                               *)
(***************************************************************************)
EXTENDS TaskPlan

CONSTANT Graphs
VARIABLE plan

NoPlan == [deps |-> "none"]

Init == plan = NoPlan

Create ==
  /\ plan = NoPlan
  /\ \E d \in Graphs : plan' = [deps |-> d, status |-> Untouched]

Record(step, outcome) ==
  /\ plan # NoPlan
  /\ CanRecord(plan.deps, plan.status, step, outcome)
  /\ plan' = [deps |-> plan.deps, status |-> Recorded(plan.status, step, outcome)]

Retry(step) ==
  /\ plan # NoPlan
  /\ plan.status[step] = "failed"
  /\ plan' = [deps |-> plan.deps, status |-> Retried(plan.deps, plan.status, step)]

Next ==
  \/ Create
  \/ \E step \in Steps :
       Retry(step) \/ \E outcome \in StepStatuses : Record(step, outcome)

Spec == Init /\ [][Next]_plan
=============================================================================
