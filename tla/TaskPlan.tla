------------------------------ MODULE TaskPlan ------------------------------
(***************************************************************************)
(* The steps of a task plan (core/task-plan.ts, task-plan-transitions.ts): *)
(* the graph a plan is created with, the moves a recorded outcome may make *)
(* and the selective retry.  Pure operators on the statuses of the steps;  *)
(* CoreRegistry puts them behind the registry's lock.                      *)
(***************************************************************************)
EXTENDS FiniteSets

CONSTANT Steps

StepStatuses == {"pending", "running", "failed", "completed"}
PlanStatuses == {"planned", "running", "failed", "completed"}

\* What the schema lets a plan's steps depend on: known steps, not themselves.
DependencyGraphs == {d \in [Steps -> SUBSET Steps] : \A s \in Steps : s \notin d[s]}

Untouched == [s \in Steps |-> "pending"]

AllCompleted(wanted, status) == \A s \in wanted : status[s] = "completed"

RollUp(status) ==
  CASE \E s \in Steps : status[s] = "failed"    -> "failed"
    [] /\ \A s \in Steps : status[s] # "failed"
       /\ \E s \in Steps : status[s] = "running" -> "running"
    [] AllCompleted(Steps, status)              -> "completed"
    [] OTHER                                    -> "planned"

LegalMoves == ({"pending"} \X {"running", "completed", "failed"})
                \cup ({"running"} \X {"completed", "failed"})

\* A repeated report changes nothing; a step starts once its dependencies are
\* completed, and may be skipped to its end at any time.
CanRecord(deps, status, step, outcome) ==
  \/ status[step] = outcome
  \/ /\ <<status[step], outcome>> \in LegalMoves
     /\ outcome = "running" => AllCompleted(deps[step], status)

Recorded(status, step, outcome) == [status EXCEPT ![step] = outcome]

\* The failed step and everything that depends on it, however indirectly: the
\* least set that is closed under dependence.
Feeds(deps, set) == \A s \in Steps : deps[s] \cap set # {} => s \in set
\* Mutant: only those that depend on it directly.
ToResetDirectly(deps, step) == {s \in Steps : s = step \/ step \in deps[s]}
ToReset(deps, step) ==
  {s \in Steps : \A set \in SUBSET Steps : step \in set /\ Feeds(deps, set) => s \in set}

Retried(deps, status, step) ==
  [s \in Steps |-> IF s \in ToReset(deps, step) THEN "pending" ELSE status[s]]

Ready(deps, status) ==
  {s \in Steps : status[s] = "pending" /\ AllCompleted(deps[s], status)}

\* Every set of steps has one that depends on none of them.
Acyclic(deps) ==
  \A set \in SUBSET Steps : set # {} => \E s \in set : deps[s] \cap set = {}
=============================================================================
