---------------------------- MODULE AgentOffice ----------------------------
(***************************************************************************)
(* One agent of the office and its queue (agent-office/src/supervisor.ts,  *)
(* bridge/routes/office.ts, commands/office): the drains that serve the    *)
(* queue and the operators who fill it, pause, resume, stop and delete the *)
(* agent.  The agent and each task are a file; one step is one read or one *)
(* write of such a file, and nobody locks any of them.  What no other      *)
(* drain looks at (the role, the core session, the audit log, the          *)
(* provider) happens in the step before.  The bridge runs its drains one   *)
(* after the other; a run from the command line drains by itself.          *)
(***************************************************************************)
EXTENDS Naturals, FiniteSets

CONSTANTS
  Bridge,       \* the drains the bridge has room for
  Cli,          \* the runs from the command line
  Tasks,        \* tasks, numbered in the order of their queuedAt
  Faults,       \* the faults this instance may suffer
  MaxIncidents  \* bound: faults, control requests and command-line runs, together

ASSUME DrainsAssumption == Bridge \cap Cli = {}
ASSUME TasksAssumption == Tasks \subseteq Nat \ {0}
ASSUME FaultsAssumption == Faults \subseteq {"crash", "io"}
ASSUME BoundAssumption == MaxIncidents \in Nat

VARIABLES
  agent,      \* the status in the agent's file, or "gone"
  tasks,      \* the status in each task's file, or "absent"
  pc,         \* where each drain is in processNextTask
  task,       \* the task each drain is on
  result,     \* what became of it
  opened,     \* per drain: its core session and its spawn row, while open
  chat,       \* the task of the chat request under way
  control,    \* the status that the control request under way will write
  budget,     \* incidents left
  launches,   \* history: how often each task was launched
  asked,      \* history: queued tasks that a drain was asked for and none refused
  halted,     \* history: a task failed and nobody resumed the agent since
  parked,     \* history: how the last pause or stop found the drains, until a resume
  overlap,    \* history: drains of two processes were under way together
  abandoned   \* history: how a drain gave its task up without settling it

run == <<pc, task, result, opened>>
requests == <<chat, control>>
history == <<launches, asked, halted, parked, overlap, abandoned>>
vars == <<agent, tasks, run, requests, budget, history>>

Drains == Bridge \cup Cli
NoTask == 0
AgentStatuses == {"idle", "working", "paused", "stopped", "error", "gone"}
TaskStatuses == {"absent", "queued", "running", "done", "failed"}
Guarded == {"session", "await", "settle", "free"}
Places == {"idle", "chained", "load", "list", "denyTask", "denyAgent", "start", "work"}
            \cup Guarded \cup {"mend", "fail"}

TypeOK ==
  /\ agent \in AgentStatuses
  /\ tasks \in [Tasks -> TaskStatuses]
  /\ pc \in [Drains -> Places]
  /\ task \in [Drains -> Tasks \cup {NoTask}]
  /\ result \in [Drains -> {"done", "failed"}]
  /\ opened \in [Drains -> SUBSET {"session", "spawn"}]
  /\ \A r \in Drains :
       /\ pc[r] \notin {"idle", "chained", "load", "list"} => task[r] \in Tasks
       /\ pc[r] = "chained" => r \in Bridge
  /\ chat \in Tasks \cup {NoTask}
  /\ control \in {"none", "paused", "idle", "stopped"}
  /\ budget \in Nat
  /\ launches \in [Tasks -> Nat]
  /\ asked \subseteq Tasks
  /\ halted \in BOOLEAN /\ overlap \in BOOLEAN
  /\ parked \in {"no", "atRest", "atWork"}
  /\ abandoned \subseteq {"rejected", "unguarded", "twice", "crash"}

Init ==
  /\ agent = "idle"
  /\ tasks = [t \in Tasks |-> "absent"]
  /\ pc = [r \in Drains |-> "idle"]
  /\ task = [r \in Drains |-> NoTask]
  /\ result = [r \in Drains |-> "failed"]
  /\ opened = [r \in Drains |-> {}]
  /\ chat = NoTask /\ control = "none"
  /\ budget = MaxIncidents
  /\ launches = [t \in Tasks |-> 0]
  /\ asked = {} /\ halted = FALSE /\ parked = "no" /\ overlap = FALSE
  /\ abandoned = {}

Goto(r, there) == pc' = [pc EXCEPT ![r] = there]
Leave(r) == Goto(r, "idle") /\ task' = [task EXCEPT ![r] = NoTask]
Active(r) == pc[r] \notin {"idle", "chained"}
Queued == {t \in Tasks : tasks[t] = "queued"}
Incident == budget > 0 /\ budget' = budget - 1
SaveTask(t, status) == tasks' = [tasks EXCEPT ![t] = status]

-----------------------------------------------------------------------------
(* What starts a drain                                                     *)

Overlapping(r) == \E q \in Drains \ {r} : Active(q) /\ ~({q, r} \subseteq Bridge)

Begin(r) ==
  /\ Goto(r, "load")
  /\ overlap' = (overlap \/ Overlapping(r))

\* scheduleDrain: behind the drains that are there.
ScheduleDrain ==
  LET free == {r \in Bridge : pc[r] = "idle"}
  IN  free # {} /\ Goto(CHOOSE r \in free : TRUE, "chained")

\* Mutant: a drain that was scheduled begins at once.
BeginChainedAtOnce(r) ==
  /\ pc[r] = "chained"
  /\ Begin(r)
  /\ UNCHANGED <<agent, tasks, task, result, opened, requests, budget, launches, asked, halted,
                 parked, abandoned>>
BeginChained(r) ==
  /\ pc[r] = "chained"
  /\ \A q \in Bridge : ~Active(q)
  /\ Begin(r)
  /\ UNCHANGED <<agent, tasks, task, result, opened, requests, budget, launches, asked, halted,
                 parked, abandoned>>

\* mega office run.
CliRun(r) ==
  /\ Incident
  /\ r \in Cli /\ pc[r] = "idle"
  /\ agent # "gone"
  /\ Begin(r)
  /\ asked' = asked \cup Queued
  /\ UNCHANGED <<agent, tasks, task, result, opened, requests, launches, halted, parked,
                 abandoned>>

\* handleRunAgent: a working agent has a drain already.
HandleRun ==
  /\ agent # "gone"
  /\ asked' = asked \cup Queued
  /\ IF agent = "working" THEN UNCHANGED pc ELSE ScheduleDrain
  /\ UNCHANGED <<agent, tasks, task, result, opened, requests, budget, launches, halted, parked,
                 overlap, abandoned>>

\* handleCreateTask (mega office assign wants the agent to be there): nothing is
\* started.
CreateTask ==
  /\ \E t \in Tasks \ {chat} : tasks[t] = "absent" /\ SaveTask(t, "queued")
  /\ UNCHANGED <<agent, run, requests, budget, history>>

\* handleChat: refused unless the agent may run, ...
HandleChat ==
  /\ chat = NoTask /\ agent \in {"idle", "working"}
  /\ \E t \in Tasks : tasks[t] = "absent" /\ chat' = t
  /\ UNCHANGED <<agent, tasks, run, control, budget, history>>

\* ... then queued and a drain scheduled, whatever the agent does by then.
ChatQueued ==
  /\ chat # NoTask
  /\ SaveTask(chat, "queued")
  /\ asked' = asked \cup Queued \cup {chat}
  /\ ScheduleDrain
  /\ chat' = NoTask
  /\ UNCHANGED <<agent, task, result, opened, control, budget, launches, halted, parked,
                 overlap, abandoned>>

-----------------------------------------------------------------------------
(* The operator's controls: read, then write the read agent's new status   *)

ControlRead ==
  /\ Incident
  /\ control = "none" /\ agent # "gone"
  /\ control' \in {"paused", "idle", "stopped"}
  /\ UNCHANGED <<agent, tasks, run, chat, history>>

ControlWrite ==
  /\ control # "none"
  /\ agent' = control /\ control' = "none"
  /\ halted' = (halted /\ control # "idle")
  /\ parked' = IF control = "idle" THEN "no"
               ELSE IF \E r \in Drains : Active(r) THEN "atWork" ELSE "atRest"
  /\ UNCHANGED <<tasks, run, chat, budget, launches, asked, overlap, abandoned>>

DeleteAgent ==
  /\ Incident
  /\ agent' = "gone"
  /\ UNCHANGED <<tasks, run, requests, history>>

-----------------------------------------------------------------------------
(* processNextTask                                                         *)

\* An agent that is not there makes the drain reject, which ends it as well.
Load(r) ==
  /\ pc[r] = "load"
  /\ IF agent \in {"idle", "working"}
     THEN Goto(r, "list") /\ UNCHANGED asked
     ELSE Goto(r, "idle") /\ asked' = {}
  /\ UNCHANGED <<agent, tasks, task, result, opened, requests, budget, launches, halted, parked,
                 overlap, abandoned>>

\* The earliest task; its role may ask for more than this process may grant.
List(r) ==
  /\ pc[r] = "list"
  /\ \/ Queued = {} /\ Leave(r)
     \/ \E t \in Queued :
          /\ \A u \in Queued : t <= u
          /\ task' = [task EXCEPT ![r] = t]
          /\ Goto(r, "start") \/ Goto(r, "denyTask")
  /\ UNCHANGED <<agent, tasks, result, opened, requests, budget, history>>

DenyTask(r) ==
  /\ pc[r] = "denyTask"
  /\ SaveTask(task[r], "failed")
  /\ asked' = asked \ {task[r]}
  /\ Goto(r, "denyAgent")
  /\ UNCHANGED <<agent, task, result, opened, requests, budget, launches, halted, parked,
                 overlap, abandoned>>

DenyAgent(r) ==
  /\ pc[r] = "denyAgent"
  /\ agent' = "error"
  /\ halted' = TRUE /\ asked' = {}
  /\ Leave(r)
  /\ UNCHANGED <<tasks, result, opened, requests, budget, launches, parked, overlap,
                 abandoned>>

Start(r) ==
  /\ pc[r] = "start"
  /\ SaveTask(task[r], "running")
  /\ asked' = asked \ {task[r]}
  /\ Goto(r, "work")
  /\ UNCHANGED <<agent, task, result, opened, requests, budget, launches, halted, parked,
                 overlap, abandoned>>

Work(r) ==
  /\ pc[r] = "work"
  /\ agent' = "working"
  /\ Goto(r, "session")
  /\ UNCHANGED <<tasks, task, result, opened, requests, budget, history>>

\* The core session, its spawn row in the audit log, and the provider.
Launch(r) ==
  /\ pc[r] = "session"
  /\ opened' = [opened EXCEPT ![r] = {"session", "spawn"}]
  /\ launches' = [launches EXCEPT ![task[r]] = @ + 1]
  /\ Goto(r, "await")
  /\ UNCHANGED <<agent, tasks, task, result, requests, budget, asked, halted, parked, overlap,
                 abandoned>>

\* The provider exits, with 0 or not, or is killed after half an hour; the core
\* session is ended.
Exit(r) ==
  /\ pc[r] = "await"
  /\ \E outcome \in {"done", "failed"} : result' = [result EXCEPT ![r] = outcome]
  /\ opened' = [opened EXCEPT ![r] = @ \ {"session"}]
  /\ Goto(r, "settle")
  /\ UNCHANGED <<agent, tasks, task, requests, budget, history>>

SettleTask(r) ==
  /\ pc[r] = "settle"
  /\ SaveTask(task[r], result[r])
  /\ Goto(r, "free")
  /\ UNCHANGED <<agent, task, result, opened, requests, budget, history>>

\* Mutant: whatever became of the task.
FreedIdle(r) == "idle"
Freed(r) == IF result[r] = "done" THEN "idle" ELSE "error"

\* From the copy of the agent that was read before the run.
SaveFreed(r) ==
  /\ agent' = Freed(r)
  /\ halted' = (halted \/ result[r] = "failed")
  /\ asked' = IF result[r] = "failed" THEN {} ELSE asked

\* Mutant: one task each.
GoesOnNever(r) == FALSE
\* drainAgent goes on with the next task unless this one failed.
GoesOn(r) == result[r] = "done"

\* Then the row of the outcome.
SettleAgent(r) ==
  /\ pc[r] = "free"
  /\ SaveFreed(r)
  /\ opened' = [opened EXCEPT ![r] = @ \ {"spawn"}]
  /\ result' = [result EXCEPT ![r] = "failed"]
  /\ IF GoesOn(r) THEN Goto(r, "load") /\ task' = [task EXCEPT ![r] = NoTask] ELSE Leave(r)
  /\ UNCHANGED <<tasks, requests, budget, launches, parked, overlap, abandoned>>

-----------------------------------------------------------------------------
(* The catch: the agent first, then the task, each on its own              *)

\* Mutant: the agent is as it was before.
MendAgentNot(r) ==
  /\ pc[r] = "mend"
  /\ agent' = agent
  /\ halted' = TRUE /\ asked' = {}
  /\ Goto(r, "fail")
  /\ UNCHANGED <<tasks, task, result, opened, requests, budget, launches, parked, overlap, abandoned>>
MendAgent(r) ==
  /\ pc[r] = "mend"
  /\ agent' = "error"
  /\ halted' = TRUE /\ asked' = {}
  /\ Goto(r, "fail")
  /\ UNCHANGED <<tasks, task, result, opened, requests, budget, launches, parked, overlap, abandoned>>

\* Mutant: the session is not ended.
CloseNot(r, kept) == opened' = [opened EXCEPT ![r] = @ \ {"spawn"}]
Close(r, kept) == opened' = [opened EXCEPT ![r] = @ \cap kept]

\* The task; then the session and the row, if they are open.
MendTask(r) ==
  /\ pc[r] = "fail"
  /\ SaveTask(task[r], "failed")
  /\ Close(r, {})
  /\ result' = [result EXCEPT ![r] = "failed"]
  /\ Leave(r)
  /\ UNCHANGED <<agent, requests, budget, history>>

-----------------------------------------------------------------------------
Fault(kind) == kind \in Faults /\ Incident
GivesUp(how) == abandoned' = abandoned \cup {how}

\* Before the try, a call that throws ends the drain where it is.
Rejects(r) ==
  /\ Fault("io")
  /\ pc[r] \in {"load", "list", "denyTask", "denyAgent", "start", "work"}
  /\ GivesUp(IF pc[r] = "work" THEN "unguarded" ELSE "rejected")
  /\ Leave(r)
  /\ UNCHANGED <<agent, tasks, result, opened, requests, launches, asked, halted, parked, overlap>>

\* Inside, it leads to the catch: the session, its row or the launch failed; the
\* session would not end; the task's or the agent's file could not be written, or
\* the last row.
Throws(r) ==
  /\ Fault("io")
  /\ \/ pc[r] = "session" /\ UNCHANGED <<agent, halted, asked>>
        /\ \E left \in {{}, {"session"}, {"session", "spawn"}} :
             opened' = [opened EXCEPT ![r] = left]
     \/ pc[r] \in {"await", "settle", "free"} /\ UNCHANGED <<agent, halted, asked, opened>>
     \/ pc[r] = "free" /\ SaveFreed(r) /\ UNCHANGED opened
  /\ Goto(r, "mend")
  /\ UNCHANGED <<tasks, task, result, requests, launches, parked, overlap, abandoned>>

\* In the catch, it is ignored.
ThrowsAgain(r) ==
  /\ Fault("io")
  /\ \/ /\ pc[r] = "mend" /\ Goto(r, "fail")
        /\ UNCHANGED <<tasks, task, result, opened>>
     \/ /\ pc[r] = "fail" /\ Leave(r)
        /\ result' = [result EXCEPT ![r] = "failed"]
        /\ \/ UNCHANGED tasks /\ Close(r, {})
           \/ SaveTask(task[r], "failed") /\ \E one \in {"session", "spawn"} : Close(r, {one})
  /\ GivesUp("twice")
  /\ UNCHANGED <<agent, requests, launches, asked, halted, parked, overlap>>

\* A process ends, with all its drains and the request it is serving.
Crash(dead) ==
  /\ Fault("crash")
  /\ \E r \in dead : pc[r] # "idle"
  /\ pc' = [r \in Drains |-> IF r \in dead THEN "idle" ELSE pc[r]]
  /\ task' = [r \in Drains |-> IF r \in dead THEN NoTask ELSE task[r]]
  /\ result' = [r \in Drains |-> IF r \in dead THEN "failed" ELSE result[r]]
  /\ chat' = IF dead = Bridge THEN NoTask ELSE chat
  /\ GivesUp("crash")
  /\ UNCHANGED <<agent, tasks, opened, control, launches, asked, halted, parked, overlap>>

Proceed(r) ==
  \/ BeginChained(r) \/ Load(r) \/ List(r) \/ DenyTask(r) \/ DenyAgent(r)
  \/ Start(r) \/ Work(r) \/ Launch(r) \/ Exit(r) \/ SettleTask(r) \/ SettleAgent(r)
  \/ MendAgent(r) \/ MendTask(r)

Next ==
  \/ \E r \in Drains : CliRun(r) \/ Proceed(r) \/ Rejects(r) \/ Throws(r) \/ ThrowsAgain(r)
  \/ HandleRun \/ CreateTask \/ HandleChat \/ ChatQueued
  \/ ControlRead \/ ControlWrite \/ DeleteAgent
  \/ \E dead \in {Bridge} \cup {{r} : r \in Cli} : Crash(dead)

Spec == Init /\ [][Next]_vars

\* A drain that began goes on; the timer of awaitExit sees to it that a provider
\* ends.
FairSpec == Spec /\ \A r \in Drains : WF_vars(Proceed(r))

-----------------------------------------------------------------------------
(* Safety                                                                  *)

\* The statuses on file are a record of the drains: an agent that is said to
\* work, or a task that is said to run, is being served, unless a drain was lost
\* before the try, with its process, or to a second error in the catch.
WorkIsServed ==
  abandoned = {} =>
    /\ agent = "working" => \E r \in Drains : pc[r] \in Guarded \cup {"mend"}
    /\ \A t \in Tasks :
         tasks[t] = "running" =>
           \E r \in Drains :
             task[r] = t /\ pc[r] \in {"work", "session", "await", "settle", "mend", "fail"}

\* What a run opened it has closed when it is over, on every way out.
RunsLeaveNothingOpen ==
  abandoned = {} => \A r \in Drains : ~Active(r) => opened[r] = {}

\* The drains of the bridge never work together: without a run from the command
\* line in between, an agent has one provider at a time and a task one launch.
ServedOnce ==
  overlap \/ /\ \A t \in Tasks : launches[t] <= 1
             /\ \A q, r \in Drains : pc[q] = "await" /\ pc[r] = "await" => q = r

StartsNothingWhen(forbidden) ==
  forbidden => \A r \in Drains : ~(pc[r] = "load" /\ pc'[r] = "list")

\* What has halted the agent is not overrun by a drain that was scheduled before.
\* After a pause or a stop no further task is started, provided that the agent was
\* at rest: during a run the settle undoes them.  After a failure the queue halts
\* until the user decides; another process's drain, or an error that could not be
\* recorded, may lift that.
HaltIsKept ==
  [][ /\ StartsNothingWhen(parked = "atRest")
      /\ StartsNothingWhen(halted /\ ~overlap /\ abandoned = {}) ]_vars

-----------------------------------------------------------------------------
(* Progress                                                                *)

\* A task that was queued when somebody asked for a drain is never stranded: it
\* is served, or a drain is refused after a failure or a pause.
AskedIsServed ==
  \A t \in Tasks :
    t \in asked ~> (t \notin asked \/ abandoned # {})
=============================================================================
