---------------------------- MODULE CoreRegistry ----------------------------
(***************************************************************************)
(* The registry that the CLI, the GUI bridge and the MCP bridge share as   *)
(* JSON files, and .projects.lock, the file that serializes its writers    *)
(* (withDirLock in core/json-directory-registry.ts).  One step is one call *)
(* on the file system by one process; a file's contents are replaced whole *)
(* and at once (atomicWriteFile).                                          *)
(*                                                                         *)
(* Of the registry's files the model keeps those whose operations depend   *)
(* on what they read: the plans, the sessions, and the failed attempts     *)
(* with the rules made from them.                                          *)
(***************************************************************************)
EXTENDS TaskPlan, Naturals

CONSTANTS
  Processes,   \* the programs that open the registry
  Graphs,      \* the dependency graphs plans are created with
  Sessions,    \* session ids
  Faults,      \* the faults this instance may suffer
  MaxRules,    \* bound: rules made from one attempt
  MaxFaults    \* bound: faults

ASSUME ProcessesAssumption == Processes \cap {"none", "dead"} = {}
ASSUME GraphsAssumption == Graphs \subseteq DependencyGraphs
ASSUME FaultsAssumption == Faults \subseteq {"crash", "io"}
ASSUME BoundAssumption == MaxRules \in Nat /\ MaxFaults \in Nat

VARIABLES
  lock,       \* .projects.lock: who created it, and is a pid in it
  pc,         \* where each process is in withDirLock and its operation
  todo,       \* the contents each process is about to write
  plan,       \* task-plans/<project>.jsonl, with one plan
  sessions,   \* sessions.json
  failures,   \* session-failures/: the sessions with failures on file
  attempt,    \* failed-attempts/<project>.jsonl: is the attempt converted
  rules,      \* project-rules/<project>.jsonl: rules made from that attempt
  budget,     \* faults left
  robbed,     \* history: a live process's lock was removed by another
  torn        \* history: how many conversions ended between the rule and the mark

files == <<plan, sessions, failures, attempt, rules>>
vars == <<lock, pc, todo, files, budget, robbed, torn>>

NoLock == [by |-> "none", pid |-> FALSE]
NoPlan == [deps |-> "none"]
Plans == [deps : DependencyGraphs, status : [Steps -> StepStatuses]]
SessionStates == {"absent", "open", "ended"}

Nothing == [file |-> "none"]
Writes ==
  {Nothing}
    \cup [file : {"plan"}, value : Plans]
    \cup [file : {"sessions"}, value : [Sessions -> SessionStates], of : Sessions]
    \cup [file : {"failures", "clear"}, of : Sessions]
    \cup [file : {"rules"}, value : 1..MaxRules]

Waiting == {"acquire", "judge", "reclaim", "wait"}
Inside == {"read", "write", "mark", "clear", "release"}

TypeOK ==
  /\ lock \in [by : Processes \cup {"dead"}, pid : BOOLEAN] \cup {NoLock}
  /\ pc \in [Processes -> {"idle", "fill"} \cup Waiting \cup Inside]
  /\ todo \in [Processes -> Writes]
  /\ \A p \in Processes :
       /\ pc[p] \in {"write", "clear"} <=> todo[p] # Nothing
       /\ lock.by = p /\ lock.pid => pc[p] \in Inside
  /\ plan \in Plans \cup {NoPlan}
  /\ sessions \in [Sessions -> SessionStates]
  /\ failures \subseteq Sessions
  /\ attempt \in {"open", "converted"}
  /\ rules \in 0..MaxRules
  /\ budget \in Nat
  /\ robbed \in BOOLEAN /\ torn \in Nat

Init ==
  /\ lock \in {NoLock} \cup [by : {"dead"}, pid : BOOLEAN]
  /\ pc = [p \in Processes |-> "idle"]
  /\ todo = [p \in Processes |-> Nothing]
  /\ plan = NoPlan
  /\ sessions = [s \in Sessions |-> "absent"]
  /\ failures = {}
  /\ attempt = "open" /\ rules = 0
  /\ budget = MaxFaults
  /\ robbed = FALSE /\ torn = 0

-----------------------------------------------------------------------------
(* withDirLock                                                             *)

Goto(p, there) == pc' = [pc EXCEPT ![p] = there]
Mine(p) == [by |-> p, pid |-> FALSE]

\* Removing the lock by name robs its owner, unless that is p or beyond caring.
Removed(p) ==
  /\ lock' = NoLock
  /\ robbed' = (robbed \/ (lock.by \in Processes \ {p} /\ pc[lock.by] # "idle"))

Call(p) ==
  /\ pc[p] = "idle"
  /\ Goto(p, "acquire")
  /\ UNCHANGED <<lock, todo, files, budget, robbed, torn>>

\* Mutant: without the exclusive flag.
AcquireOver(p) ==
  /\ pc[p] = "acquire"
  /\ lock' = Mine(p)
  /\ Goto(p, "fill")
  /\ UNCHANGED <<todo, files, budget, robbed, torn>>

\* openSync(lockPath, "wx").
Acquire(p) ==
  /\ pc[p] = "acquire"
  /\ \/ lock = NoLock /\ lock' = Mine(p) /\ Goto(p, "fill")
     \/ lock # NoLock /\ lock' = lock /\ Goto(p, "judge")
  /\ UNCHANGED <<todo, files, budget, robbed, torn>>

\* The pid goes into the file that was created, wherever its name is by now.
Fill(p) ==
  /\ pc[p] = "fill"
  /\ lock' = IF lock = Mine(p) THEN [by |-> p, pid |-> TRUE] ELSE lock
  /\ Goto(p, "read")
  /\ UNCHANGED <<todo, files, budget, robbed, torn>>

\* isLockHolderAlive: a vanished or an empty lock and a dead pid have no holder.
HolderAlive == lock.by \in Processes /\ lock.pid

\* Mutant: an empty lock counts as held.
JudgeStrict(p) ==
  /\ pc[p] = "judge"
  /\ Goto(p, IF HolderAlive \/ (lock # NoLock /\ ~lock.pid) THEN "wait" ELSE "reclaim")
  /\ UNCHANGED <<lock, todo, files, budget, robbed, torn>>

Judge(p) ==
  /\ pc[p] = "judge"
  /\ Goto(p, IF HolderAlive THEN "wait" ELSE "reclaim")
  /\ UNCHANGED <<lock, todo, files, budget, robbed, torn>>

\* rmSync by name, and at once another try, unless the 5 s are over.
Reclaim(p) ==
  /\ pc[p] = "reclaim"
  /\ Removed(p)
  /\ Goto(p, "acquire") \/ Goto(p, "idle")
  /\ UNCHANGED <<todo, files, budget, torn>>

\* 50 ms later, another try; 5 s after the call, an error.
Wait(p) ==
  /\ pc[p] = "wait"
  /\ Goto(p, "acquire") \/ Goto(p, "idle")
  /\ UNCHANGED <<lock, todo, files, budget, robbed, torn>>

\* The finally: by name, whoever's it is.
Release(p) ==
  /\ pc[p] = "release"
  /\ Removed(p)
  /\ Goto(p, "idle")
  /\ UNCHANGED <<todo, files, budget, torn>>

-----------------------------------------------------------------------------
(* The operations: what each reads and what it is going to write           *)

PlanNow(deps, status) == [file |-> "plan", value |-> [deps |-> deps, status |-> status]]
SessionNow(s, state) ==
  [file |-> "sessions", value |-> [sessions EXCEPT ![s] = state], of |-> s]

CreateTaskPlan == {PlanNow(d, Untouched) : d \in IF plan = NoPlan THEN Graphs ELSE {}}

\* Mutant: a step that has completed may still be reported as failed.
RecordRevised ==
  IF plan = NoPlan THEN {}
  ELSE {PlanNow(plan.deps, Recorded(plan.status, move[1], move[2])) :
          move \in {m \in Steps \X {"running", "completed", "failed"} :
                      \/ CanRecord(plan.deps, plan.status, m[1], m[2])
                      \/ plan.status[m[1]] = "completed" /\ m[2] = "failed"}}
RecordTaskStep ==
  IF plan = NoPlan THEN {}
  ELSE {PlanNow(plan.deps, Recorded(plan.status, move[1], move[2])) :
          move \in {m \in Steps \X {"running", "completed", "failed"} :
                      CanRecord(plan.deps, plan.status, m[1], m[2])}}

RetryTaskStep ==
  IF plan = NoPlan THEN {}
  ELSE {PlanNow(plan.deps, Retried(plan.deps, plan.status, s)) :
          s \in {t \in Steps : plan.status[t] = "failed"}}

CreateSession == {SessionNow(s, "open") : s \in {t \in Sessions : sessions[t] = "absent"}}

\* Mutant: without the refusal of a session that has ended.
UpdateAnySession == {SessionNow(s, "open") : s \in {t \in Sessions : sessions[t] # "absent"}}
\* updateSession and updateTokenSaver rewrite the file and leave the session open.
UpdateSession == {SessionNow(s, "open") : s \in {t \in Sessions : sessions[t] = "open"}}

\* endSession, up to the sessions' file.
EndSession == {SessionNow(s, "ended") : s \in {t \in Sessions : sessions[t] = "open"}}

\* createSessionFailure does not look at the session.
CreateSessionFailure == [file : {"failures"}, of : Sessions]

\* Mutant: converted attempts are converted again.
ConvertFailureAgain ==
  {[file |-> "rules", value |-> rules + 1] : x \in {y \in {1} : rules < MaxRules}}
\* convertFailureToRule, up to the new rule.
ConvertFailureToRule ==
  {[file |-> "rules", value |-> rules + 1] :
     x \in {y \in {"open"} : attempt = y /\ rules < MaxRules}}

Changes ==
  CreateTaskPlan \cup RecordTaskStep \cup RetryTaskStep \cup CreateSession
    \cup UpdateSession \cup EndSession \cup CreateSessionFailure \cup ConvertFailureToRule

\* The operation reads its file and computes the new contents ...
Read(p) ==
  /\ pc[p] = "read"
  /\ \E change \in Changes : todo' = [todo EXCEPT ![p] = change]
  /\ Goto(p, "write")
  /\ UNCHANGED <<lock, files, budget, robbed, torn>>

\* ... or is refused: not found, already there, illegal, already converted.
Refuse(p) ==
  /\ pc[p] = "read"
  /\ Goto(p, "release")
  /\ UNCHANGED <<lock, todo, files, budget, robbed, torn>>

\* A new rule has its attempt marked, and an ended session its failures cleared.
Afterwards(p) ==
  LET ends == todo[p].file = "sessions" /\ todo[p].value[todo[p].of] = "ended"
  IN  /\ todo' = [todo EXCEPT ![p] = IF ends THEN [file |-> "clear", of |-> @.of] ELSE Nothing]
      /\ Goto(p, IF todo[p].file = "rules" THEN "mark" ELSE IF ends THEN "clear" ELSE "release")

\* ... and replaces the file.
Write(p) ==
  /\ pc[p] = "write"
  /\ plan' = IF todo[p].file = "plan" THEN todo[p].value ELSE plan
  /\ sessions' = IF todo[p].file = "sessions" THEN todo[p].value ELSE sessions
  /\ failures' = IF todo[p].file = "failures" THEN failures \cup {todo[p].of} ELSE failures
  /\ rules' = IF todo[p].file = "rules" THEN todo[p].value ELSE rules
  /\ Afterwards(p)
  /\ UNCHANGED <<lock, attempt, budget, robbed, torn>>

\* The second file of convertFailureToRule and of endSession.
Mark(p) ==
  /\ pc[p] = "mark"
  /\ attempt' = "converted"
  /\ Goto(p, "release")
  /\ UNCHANGED <<lock, todo, plan, sessions, failures, rules, budget, robbed, torn>>

Clear(p) ==
  /\ pc[p] = "clear"
  /\ failures' = failures \ {todo[p].of}
  /\ todo' = [todo EXCEPT ![p] = Nothing]
  /\ Goto(p, "release")
  /\ UNCHANGED <<lock, plan, sessions, attempt, rules, budget, robbed, torn>>

-----------------------------------------------------------------------------
Fault(kind) == kind \in Faults /\ budget > 0 /\ budget' = budget - 1

\* A process dies; its pid is nobody's.
Crash(p) ==
  /\ Fault("crash")
  /\ pc[p] # "idle"
  /\ lock' = IF lock.by = p THEN [lock EXCEPT !.by = "dead"] ELSE lock
  /\ todo' = [todo EXCEPT ![p] = Nothing]
  /\ torn' = IF pc[p] = "mark" THEN torn + 1 ELSE torn
  /\ Goto(p, "idle")
  /\ UNCHANGED <<files, robbed>>

\* The pid cannot be written: the call throws and leaves the file, empty.
FillFails(p) ==
  /\ Fault("io")
  /\ pc[p] = "fill"
  /\ Goto(p, "idle")
  /\ UNCHANGED <<lock, todo, files, robbed, torn>>

\* A write throws: the finally runs.
WriteFails(p) ==
  /\ Fault("io")
  /\ pc[p] \in {"write", "mark", "clear"}
  /\ todo' = [todo EXCEPT ![p] = Nothing]
  /\ torn' = IF pc[p] = "mark" THEN torn + 1 ELSE torn
  /\ Goto(p, "release")
  /\ UNCHANGED <<lock, files, robbed>>

Proceed(p) ==
  \/ Acquire(p) \/ Fill(p) \/ Judge(p) \/ Reclaim(p) \/ Wait(p)
  \/ Read(p) \/ Refuse(p) \/ Write(p) \/ Mark(p) \/ Clear(p) \/ Release(p)

Next ==
  \E p \in Processes :
    Call(p) \/ Proceed(p) \/ Crash(p) \/ FillFails(p) \/ WriteFails(p)

Spec == Init /\ [][Next]_vars

\* A call that was made runs to its end.
FairSpec == Spec /\ \A p \in Processes : WF_vars(Proceed(p))

-----------------------------------------------------------------------------
(* Safety                                                                  *)

Holders == {p \in Processes : pc[p] \in Inside}

\* The lock "acts as a mutex", but for the three ways in which a process loses
\* a lock it holds: it had not written its pid, it was mistaken for a dead one
\* that had been there before, or the holder it had robbed removed it.
ExclusiveUnlessRobbed == robbed \/ \A p, q \in Holders : p = q

\* Whatever is on disk, a step that runs has its dependencies completed: a retry
\* takes back all that builds on the failed step, running steps included.
RunningIsFounded ==
  plan # NoPlan =>
    \A s \in Steps :
      plan.status[s] = "running" => AllCompleted(plan.deps[s], plan.status)

\* A plan that has not been started, failed or finished offers a step: the
\* agent that asks for the next one is never left without.
PlannedOffersWork ==
  plan # NoPlan /\ Acyclic(plan.deps) /\ RollUp(plan.status) = "planned" =>
    Ready(plan.deps, plan.status) # {}

\* What an agent reads of a plan, whatever updates were lost: running steps stand
\* on completed ones, and an unstarted plan has a step to start.
PlansAreSound == RunningIsFounded /\ PlannedOffersWork

\* An attempt becomes a rule once, and once more for each conversion that was
\* interrupted between the rule and the mark.
OneRulePerAttempt == robbed \/ rules <= torn + 1

\* An update that was computed from the sessions as they were before another
\* process ended or created one never brings the earlier state back.
EndedStaysEnded ==
  [][robbed
     \/ \A s \in Sessions :
          /\ sessions[s] = "ended" => sessions'[s] = "ended"
          /\ sessions[s] # "absent" => sessions'[s] # "absent"]_vars

\* Nor is a step's outcome lost: each write of the plans is one operation on the
\* plan that it replaces.
Lifecycle == INSTANCE PlanLifecycle
PlansAreSerial == [][robbed \/ Lifecycle!Next]_plan

-----------------------------------------------------------------------------
(* Progress                                                                *)

\* As long as somebody calls, no lock that was left behind stays for ever.
NoPermanentVeto ==
  (\E p \in Processes : []<><<Call(p)>>_vars) => []<>(lock = NoLock \/ HolderAlive)
=============================================================================
