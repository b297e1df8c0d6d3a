------------------------- MODULE AgentOffice_proofs -------------------------
(***************************************************************************)
(* Proofs for AgentOffice: the types; that drains of one process serve     *)
(* each task once, leave nothing open and keep the statuses true; and that *)
(* a halt is kept.                                                         *)
(***************************************************************************)
EXTENDS AgentOffice, TLAPS

\* A run in one process: a single drain is active, and a task that has not been
\* taken, or has just been taken, was not launched.
Alone ==
  /\ \A q, r \in Drains : Active(q) /\ Active(r) => q = r
  /\ \A t \in Tasks :
       launches[t] \in {0, 1} /\ (tasks[t] \in {"absent", "queued"} => launches[t] = 0)
  /\ \A r \in Drains :
       /\ pc[r] \in {"start", "denyTask"} => tasks[task[r]] = "queued"
       /\ pc[r] \in {"work", "session"} =>
            launches[task[r]] = 0 /\ tasks[task[r]] \notin {"absent", "queued"}

\* What each place in a run may have open.
Tidy(r) ==
  /\ opened[r] # {} => pc[r] \in {"await", "settle", "free", "mend", "fail"}
  /\ pc[r] \in {"settle", "free"} => opened[r] \subseteq {"spawn"}

\* A task that a drain is on was queued at some time.
Taken == \A r \in Drains : task[r] # NoTask => tasks[task[r]] # "absent"

IInv ==
  /\ TypeOK
  /\ chat # NoTask => tasks[chat] = "absent"
  /\ Taken
  /\ ~overlap => Alone
  /\ WorkIsServed
  /\ abandoned = {} => \A r \in Drains : Tidy(r)

LEMMA InitInv == Init => IInv
<1> SUFFICES ASSUME Init PROVE IInv
  OBVIOUS
<1>1. TypeOK
  BY BoundAssumption DEF Init, TypeOK, AgentStatuses, TaskStatuses, Places, NoTask
<1>2. Alone /\ Taken /\ WorkIsServed /\ \A r \in Drains : Tidy(r)
  BY DEF Init, Alone, Taken, WorkIsServed, Tidy, Active
<1> QED
  BY <1>1, <1>2 DEF IInv, Init

\* Where a step of one drain takes it, and the task it is on then.
LEMMA GotoFacts ==
  ASSUME TypeOK, NEW r \in Drains, NEW there \in Places, Goto(r, there)
  PROVE  /\ pc' \in [Drains -> Places]
         /\ pc'[r] = there
         /\ \A q \in Drains : q # r => pc'[q] = pc[q]
  BY DEF Goto, TypeOK

LEMMA LeaveFacts ==
  ASSUME TypeOK, NEW r \in Drains, Leave(r)
  PROVE  /\ pc' \in [Drains -> Places]
         /\ pc'[r] = "idle"
         /\ \A q \in Drains : q # r => pc'[q] = pc[q]
         /\ task' \in [Drains -> Tasks \cup {NoTask}]
         /\ task'[r] = NoTask
         /\ \A q \in Drains : q # r => task'[q] = task[q]
  BY DEF Leave, Goto, TypeOK, Places

LEMMA SaveFacts ==
  ASSUME TypeOK, NEW t \in Tasks, NEW status \in TaskStatuses, SaveTask(t, status)
  PROVE  /\ tasks' \in [Tasks -> TaskStatuses]
         /\ tasks'[t] = status
         /\ \A u \in Tasks : u # t => tasks'[u] = tasks[u]
  BY DEF SaveTask, TypeOK

\* The requests: none of them touches a run that is under way.
LEMMA InvRequests ==
  ASSUME IInv, HandleRun \/ CreateTask \/ HandleChat \/ ChatQueued
                 \/ ControlRead \/ ControlWrite \/ DeleteAgent
  PROVE  IInv'
<1>0. TypeOK
  BY DEF IInv
<1>1. /\ pc' \in [Drains -> Places]
      /\ \A r \in Drains : pc'[r] = pc[r] \/ (pc[r] = "idle" /\ pc'[r] = "chained" /\ r \in Bridge)
  <2>1. ASSUME ScheduleDrain
        PROVE  /\ pc' \in [Drains -> Places]
               /\ \A r \in Drains :
                    pc'[r] = pc[r] \/ (pc[r] = "idle" /\ pc'[r] = "chained" /\ r \in Bridge)
    <3>1. PICK r \in Bridge : pc[r] = "idle" /\ Goto(r, "chained")
      BY <2>1 DEF ScheduleDrain
    <3> QED
      BY <1>0, <3>1, GotoFacts DEF Drains, Places
  <2>2. UNCHANGED pc \/ ScheduleDrain
    BY DEF HandleRun, CreateTask, HandleChat, ChatQueued, ControlRead, ControlWrite, DeleteAgent, run
  <2> QED
    BY <1>0, <2>1, <2>2 DEF TypeOK
<1>2. UNCHANGED <<task, result, opened, launches, overlap, abandoned>>
  BY DEF HandleRun, CreateTask, HandleChat, ChatQueued, ControlRead, ControlWrite, DeleteAgent,
         run, history
<1>3. /\ tasks' \in [Tasks -> TaskStatuses]
      /\ \A t \in Tasks : tasks'[t] = tasks[t] \/ (tasks[t] = "absent" /\ tasks'[t] = "queued")
      /\ chat' \in Tasks \cup {NoTask}
      /\ chat' # NoTask => tasks'[chat'] = "absent"
  <2>1. CASE CreateTask
    <3>1. PICK t \in Tasks \ {chat} : tasks[t] = "absent" /\ SaveTask(t, "queued")
      BY <2>1 DEF CreateTask
    <3>2. chat' = chat
      BY <2>1 DEF CreateTask, requests
    <3> QED
      BY <1>0, <3>1, <3>2, SaveFacts DEF IInv, TypeOK, TaskStatuses
  <2>2. CASE ChatQueued
    <3>1. chat \in Tasks /\ tasks[chat] = "absent" /\ SaveTask(chat, "queued") /\ chat' = NoTask
      BY <1>0, <2>2 DEF ChatQueued, IInv, TypeOK
    <3> QED
      BY <1>0, <3>1, SaveFacts DEF TypeOK, TaskStatuses
  <2>3. CASE HandleChat
    BY <1>0, <2>3 DEF HandleChat, TypeOK
  <2>4. CASE HandleRun \/ ControlRead \/ ControlWrite \/ DeleteAgent
    BY <1>0, <2>4 DEF HandleRun, ControlRead, ControlWrite, DeleteAgent, TypeOK, requests, IInv
  <2> QED
    BY <2>1, <2>2, <2>3, <2>4
<1>4. agent' \in AgentStatuses /\ (agent' = "working" => agent = "working")
  BY <1>0 DEF HandleRun, CreateTask, HandleChat, ChatQueued, ControlRead, ControlWrite,
              DeleteAgent, TypeOK, AgentStatuses
<1>5. TypeOK'
  <2>1. control' \in {"none", "paused", "idle", "stopped"} /\ parked' \in {"no", "atRest", "atWork"}
    BY <1>0 DEF HandleRun, CreateTask, HandleChat, ChatQueued, ControlRead, ControlWrite,
                DeleteAgent, TypeOK, requests, history
  <2>2. budget' \in Nat
    BY <1>0 DEF HandleRun, CreateTask, HandleChat, ChatQueued, ControlRead, ControlWrite,
                DeleteAgent, TypeOK, Incident
  <2>3. asked' \subseteq Tasks
    BY <1>0 DEF HandleRun, CreateTask, HandleChat, ChatQueued, ControlRead, ControlWrite,
                DeleteAgent, TypeOK, history, Queued, NoTask
  <2>4. halted' = halted \/ halted' = (halted /\ control # "idle")
    BY DEF HandleRun, CreateTask, HandleChat, ChatQueued, ControlRead, ControlWrite,
           DeleteAgent, history
  <2>5. halted' \in BOOLEAN
    BY <1>0, <2>4, ZenonT(30) DEF TypeOK
  <2> QED
    BY <1>0, <1>1, <1>2, <1>3, <1>4, <2>1, <2>2, <2>3, <2>5 DEF TypeOK, Places
<1>6. ASSUME ~overlap' PROVE Alone'
  BY <1>0, <1>1, <1>2, <1>3, <1>6 DEF IInv, Alone, Active, TypeOK
<1>7. WorkIsServed'
  BY <1>1, <1>2, <1>3, <1>4 DEF IInv, WorkIsServed, Guarded
<1>8. ASSUME abandoned' = {}, NEW r \in Drains PROVE Tidy(r)'
  BY <1>1, <1>2, <1>8 DEF IInv, Tidy
<1>9. Taken'
  BY <1>0, <1>2, <1>3 DEF IInv, Taken, TypeOK
<1> QED
  BY <1>3, <1>5, <1>6, <1>7, <1>8, <1>9 DEF IInv

\* A drain begins while no other of its process is active.
LEMMA InvBegin ==
  ASSUME IInv, NEW r \in Drains, CliRun(r) \/ BeginChained(r)
  PROVE  IInv'
<1>0. TypeOK
  BY DEF IInv
<1>1. /\ pc[r] \in {"idle", "chained"} /\ Begin(r)
      /\ UNCHANGED <<agent, tasks, task, result, opened, chat, control, launches, halted, parked,
                     abandoned>>
  BY DEF CliRun, BeginChained, requests
<1>2. /\ pc' \in [Drains -> Places] /\ pc'[r] = "load"
      /\ \A q \in Drains : q # r => pc'[q] = pc[q]
  BY <1>0, <1>1, GotoFacts DEF Begin, Places
<1>3. TypeOK'
  <2>1. asked' \subseteq Tasks /\ budget' \in Nat
    BY <1>0 DEF CliRun, BeginChained, Incident, Queued, TypeOK
  <2>2. overlap' = (overlap \/ Overlapping(r))
    BY <1>1 DEF Begin
  <2>3. overlap' \in BOOLEAN
    BY <1>0, <2>2, ZenonT(30) DEF TypeOK
  <2> QED
    BY <1>0, <1>1, <1>2, <2>1, <2>3 DEF TypeOK, Places
<1>4. ASSUME ~overlap' PROVE Alone'
  <2>1. ~overlap /\ ~Overlapping(r)
    BY <1>1, <1>4 DEF Begin
  <2>2. \A q \in Drains : Active(q) => q = r \/ {q, r} \subseteq Bridge
    BY <2>1 DEF Overlapping
  <2>3. \A q \in Drains : ~Active(q)
    <3>1. CASE CliRun(r)
      BY <1>1, <2>2, <3>1, DrainsAssumption DEF CliRun, Active
    <3>2. CASE BeginChained(r)
      BY <1>1, <2>2, <3>2 DEF BeginChained, Active
    <3> QED
      BY <3>1, <3>2
  <2>4. \A q \in Drains : Active(q)' => q = r
    BY <1>2, <2>3 DEF Active
  <2> QED
    BY <1>1, <1>2, <2>1, <2>3, <2>4 DEF IInv, Alone, Active
<1>5. WorkIsServed'
  BY <1>1, <1>2 DEF IInv, WorkIsServed, Guarded
<1>6. ASSUME abandoned' = {}, NEW q \in Drains PROVE Tidy(q)'
  BY <1>1, <1>2, <1>6 DEF IInv, Tidy
<1>7. Taken'
  BY <1>1 DEF IInv, Taken
<1> QED
  BY <1>1, <1>3, <1>4, <1>5, <1>6, <1>7 DEF IInv

\* A step of a drain that is alone leaves it alone.
LEMMA StaysAlone ==
  ASSUME IInv, NEW r \in Drains, Active(r), ~overlap,
         \A q \in Drains : q # r => pc'[q] = pc[q],
         \A t \in Tasks :
           launches'[t] \in {0, 1} /\ (tasks'[t] \in {"absent", "queued"} => launches'[t] = 0),
         pc'[r] \in {"start", "denyTask"} => tasks'[task'[r]] = "queued",
         pc'[r] \in {"work", "session"} =>
           launches'[task'[r]] = 0 /\ tasks'[task'[r]] \notin {"absent", "queued"}
  PROVE  Alone'
<1>1. \A q \in Drains : q # r => pc[q] \in {"idle", "chained"}
  BY DEF IInv, Alone, Active
<1>2. \A q \in Drains : q # r => pc'[q] \in {"idle", "chained"}
  BY <1>1
<1> QED
  BY <1>2 DEF Alone, Active

\* The steps up to the try.
LEMMA InvTake ==
  ASSUME IInv, NEW r \in Drains, Load(r) \/ List(r)
  PROVE  IInv'
<1>0. TypeOK /\ pc[r] \in {"load", "list"}
  BY DEF IInv, Load, List
<1>1. UNCHANGED <<agent, tasks, result, opened, chat, control, budget, launches, halted, parked,
                  overlap, abandoned>>
  BY DEF Load, List, requests, history
<1>2. asked' \subseteq Tasks
  BY <1>0 DEF Load, List, history, TypeOK
<1>3. PICK there \in {"list", "idle", "start", "denyTask"}, t \in Tasks \cup {NoTask} :
        /\ Goto(r, there)
        /\ task' = [task EXCEPT ![r] = t]
        /\ there \in {"start", "denyTask"} => t \in Tasks /\ tasks[t] = "queued"
        /\ t = task[r] \/ t = NoTask \/ tasks[t] = "queued"
  <2>1. CASE Load(r)
    <3>1. task' = [task EXCEPT ![r] = task[r]] /\ task[r] \in Tasks \cup {NoTask}
      BY <1>0, <2>1 DEF Load, TypeOK
    <3> QED
      BY <2>1, <3>1 DEF Load
  <2>2. CASE List(r)
    BY <2>2 DEF List, Leave, Queued
  <2> QED
    BY <2>1, <2>2
<1>4. /\ pc' \in [Drains -> Places] /\ pc'[r] = there
      /\ \A q \in Drains : q # r => pc'[q] = pc[q]
  BY <1>0, <1>3, GotoFacts DEF Places
<1>5. /\ task' \in [Drains -> Tasks \cup {NoTask}] /\ task'[r] = t
      /\ \A q \in Drains : q # r => task'[q] = task[q]
  BY <1>0, <1>3 DEF TypeOK
<1>6. TypeOK'
  BY <1>0, <1>1, <1>2, <1>3, <1>4, <1>5 DEF TypeOK, Places
<1>7. ASSUME ~overlap' PROVE Alone'
  <2>1. ~overlap /\ Active(r)
    BY <1>0, <1>1, <1>7 DEF Active
  <2> QED
    BY <1>1, <1>3, <1>4, <1>5, <2>1, StaysAlone DEF IInv, Alone
<1>8. WorkIsServed'
  BY <1>0, <1>1, <1>4, <1>5 DEF IInv, WorkIsServed, Guarded
<1>9. ASSUME abandoned' = {}, NEW q \in Drains PROVE Tidy(q)'
  BY <1>0, <1>1, <1>3, <1>4, <1>9 DEF IInv, Tidy
<1>10. Taken'
  BY <1>0, <1>1, <1>3, <1>5 DEF IInv, Taken
<1> QED
  BY <1>1, <1>6, <1>7, <1>8, <1>9, <1>10 DEF IInv

\* A status of the task is written, and nothing else that others read.
LEMMA InvTaskWrites ==
  ASSUME IInv, NEW r \in Drains, DenyTask(r) \/ Start(r) \/ SettleTask(r) \/ MendTask(r)
  PROVE  IInv'
<1>0. TypeOK /\ pc[r] \in {"denyTask", "start", "settle", "fail"} /\ task[r] \in Tasks
  BY DEF IInv, DenyTask, Start, SettleTask, MendTask, TypeOK
<1>1. UNCHANGED <<agent, chat, control, budget, launches, halted, parked, overlap, abandoned>>
  BY DEF DenyTask, Start, SettleTask, MendTask, requests, history
<1>2. asked' \subseteq Tasks
  BY <1>0 DEF DenyTask, Start, SettleTask, MendTask, history, TypeOK
<1>3. PICK there \in {"denyAgent", "work", "free", "idle"}, status \in {"running", "failed", "done"} :
        /\ Goto(r, there)
        /\ SaveTask(task[r], status)
        /\ status = "running" <=> there = "work"
        /\ there = "denyAgent" <=> pc[r] = "denyTask"
        /\ there = "work" <=> pc[r] = "start"
        /\ there = "free" <=> pc[r] = "settle"
        /\ there # "idle" => task' = task /\ opened' = opened /\ result' = result
        /\ there = "idle" => task' = [task EXCEPT ![r] = NoTask] /\ Close(r, {})
                              /\ result' = [result EXCEPT ![r] = "failed"]
  <2>1. CASE DenyTask(r)
    BY <2>1 DEF DenyTask
  <2>2. CASE Start(r)
    BY <2>2 DEF Start
  <2>3. CASE SettleTask(r)
    BY <1>0, <2>3 DEF SettleTask, TypeOK
  <2>4. CASE MendTask(r)
    BY <2>4 DEF MendTask, Leave
  <2> QED
    BY <2>1, <2>2, <2>3, <2>4
<1>4. /\ pc' \in [Drains -> Places] /\ pc'[r] = there
      /\ \A q \in Drains : q # r => pc'[q] = pc[q]
  BY <1>0, <1>3, GotoFacts DEF Places, Guarded
<1>5. /\ tasks' \in [Tasks -> TaskStatuses] /\ tasks'[task[r]] = status
      /\ \A u \in Tasks : u # task[r] => tasks'[u] = tasks[u]
  BY <1>0, <1>3, SaveFacts DEF TaskStatuses
<1>6. /\ task' \in [Drains -> Tasks \cup {NoTask}]
      /\ there # "idle" => task'[r] = task[r]
      /\ \A q \in Drains : q # r => task'[q] = task[q]
  BY <1>0, <1>3 DEF TypeOK
<1>7. /\ opened' \in [Drains -> SUBSET {"session", "spawn"}]
      /\ there # "idle" => opened'[r] = opened[r]
      /\ there = "idle" => opened'[r] = {}
      /\ \A q \in Drains : q # r => opened'[q] = opened[q]
  BY <1>0, <1>3 DEF TypeOK, Close
<1>8. TypeOK'
  <2>1. result' \in [Drains -> {"done", "failed"}]
    BY <1>0, <1>3 DEF TypeOK
  <2> QED
    BY <1>0, <1>1, <1>2, <1>3, <1>4, <1>5, <1>6, <1>7, <2>1 DEF TypeOK, Places
<1>9. ASSUME ~overlap' PROVE Alone'
  <2>1. ~overlap /\ Active(r)
    BY <1>0, <1>1, <1>9 DEF Active
  <2>2. there = "work" => launches[task[r]] = 0
    BY <1>0, <1>3, <2>1 DEF IInv, Alone
  <2>3. \A t \in Tasks :
          launches'[t] \in {0, 1} /\ (tasks'[t] \in {"absent", "queued"} => launches'[t] = 0)
    BY <1>1, <1>5, <2>1 DEF IInv, Alone
  <2> QED
    BY <1>1, <1>3, <1>4, <1>5, <1>6, <2>1, <2>2, <2>3, StaysAlone
<1>10. ASSUME chat' # NoTask PROVE tasks'[chat'] = "absent"
  <2>1. chat' = chat /\ chat \in Tasks /\ tasks[chat] = "absent"
    BY <1>0, <1>1, <1>10 DEF IInv, TypeOK
  <2>2. task[r] # chat
    BY <1>0, <2>1, TasksAssumption DEF IInv, Taken, NoTask
  <2> QED
    BY <1>5, <2>1, <2>2
<1>11. WorkIsServed'
  BY <1>0, <1>1, <1>3, <1>4, <1>5, <1>6 DEF IInv, WorkIsServed, Guarded
<1>12. ASSUME abandoned' = {}, NEW q \in Drains PROVE Tidy(q)'
  BY <1>0, <1>1, <1>3, <1>4, <1>7, <1>12 DEF IInv, Tidy
<1>13. Taken'
  BY <1>0, <1>5, <1>6, <1>3 DEF IInv, Taken, TypeOK
<1> QED
  BY <1>1, <1>8, <1>9, <1>10, <1>11, <1>12, <1>13 DEF IInv

\* What is left to show of a step of one drain that writes no task's file.
LEMMA InvOwnStep ==
  ASSUME IInv, NEW r \in Drains, TypeOK', UNCHANGED <<tasks, chat, overlap>>,
         \A q \in Drains : q # r => task'[q] = task[q],
         task'[r] \in {task[r], NoTask},
         ~overlap => Alone', WorkIsServed',
         abandoned' = {} => \A q \in Drains : Tidy(q)'
  PROVE  IInv'
<1>1. Taken'
  BY DEF IInv, Taken
<1> QED
  BY <1>1 DEF IInv

\* The steps of a run, apart from its task's file.
LEMMA InvRunStep ==
  ASSUME IInv, NEW r \in Drains,
         DenyAgent(r) \/ Work(r) \/ Launch(r) \/ Exit(r) \/ SettleAgent(r) \/ MendAgent(r)
  PROVE  IInv'
<1>0. TypeOK /\ task[r] \in Tasks
      /\ pc[r] \in {"denyAgent", "work", "session", "await", "free", "mend"}
  BY DEF IInv, DenyAgent, Work, Launch, Exit, SettleAgent, MendAgent, TypeOK
<1>1. UNCHANGED <<tasks, chat, control, budget, parked, overlap, abandoned>>
  BY DEF DenyAgent, Work, Launch, Exit, SettleAgent, MendAgent, requests, history
<1>2. asked' \subseteq Tasks
  BY <1>0 DEF DenyAgent, Work, Launch, Exit, SettleAgent, MendAgent, SaveFreed, history, TypeOK
<1>3. PICK there \in {"idle", "load", "session", "await", "settle", "fail"},
          t \in {task[r], NoTask} :
        /\ Goto(r, there)
        /\ task' = [task EXCEPT ![r] = t]
        /\ t = NoTask <=> there \in {"idle", "load"}
        /\ there \in {"idle", "load"} <=> pc[r] \in {"denyAgent", "free"}
        /\ there = "session" <=> pc[r] = "work"
        /\ there = "await" <=> pc[r] = "session"
        /\ there = "settle" <=> pc[r] = "await"
        /\ there = "fail" <=> pc[r] = "mend"
  <2>1. task' = task => task' = [task EXCEPT ![r] = task[r]]
    BY <1>0 DEF TypeOK
  <2>2. task[r] # NoTask
    BY <1>0, TasksAssumption DEF NoTask
  <2>3. CASE DenyAgent(r)
    BY <2>2, <2>3 DEF DenyAgent, Leave
  <2>4. CASE Work(r)
    BY <2>1, <2>2, <2>4 DEF Work
  <2>5. CASE Launch(r)
    BY <2>1, <2>2, <2>5 DEF Launch
  <2>6. CASE Exit(r)
    BY <2>1, <2>2, <2>6 DEF Exit
  <2>7. CASE SettleAgent(r)
    BY <2>2, <2>7 DEF SettleAgent, Leave
  <2>8. CASE MendAgent(r)
    BY <2>1, <2>2, <2>8 DEF MendAgent
  <2> QED
    BY <2>3, <2>4, <2>5, <2>6, <2>7, <2>8
<1>4. /\ pc' \in [Drains -> Places] /\ pc'[r] = there
      /\ \A q \in Drains : q # r => pc'[q] = pc[q]
  BY <1>0, <1>3, GotoFacts DEF Places, Guarded
<1>5. /\ task' \in [Drains -> Tasks \cup {NoTask}] /\ task'[r] = t
      /\ \A q \in Drains : q # r => task'[q] = task[q]
  BY <1>0, <1>3 DEF TypeOK
<1>6. /\ agent' \in AgentStatuses
      /\ agent' = "working" => there = "session" \/ (agent = "working" /\ there \in {"await", "settle"})
  BY <1>0, <1>3 DEF DenyAgent, Work, Launch, Exit, SettleAgent, MendAgent, SaveFreed, Freed, TypeOK,
                    AgentStatuses
<1>7. /\ opened' \in [Drains -> SUBSET {"session", "spawn"}]
      /\ \A q \in Drains : q # r => opened'[q] = opened[q]
      /\ pc[r] \in {"denyAgent", "work", "mend"} => opened'[r] = opened[r]
      /\ pc[r] = "await" => opened'[r] = opened[r] \ {"session"}
      /\ pc[r] = "free" => opened'[r] = opened[r] \ {"spawn"}
  BY <1>0 DEF DenyAgent, Work, Launch, Exit, SettleAgent, MendAgent, TypeOK
<1>8. /\ launches' \in [Tasks -> Nat]
      /\ pc[r] # "session" => launches' = launches
      /\ pc[r] = "session" => launches' = [launches EXCEPT ![task[r]] = @ + 1]
  BY <1>0 DEF DenyAgent, Work, Launch, Exit, SettleAgent, MendAgent, history, TypeOK
<1>9. TypeOK'
  <2>1. halted' \in {halted, TRUE} \/ halted' = (halted \/ result[r] = "failed")
    BY DEF DenyAgent, Work, Launch, Exit, SettleAgent, MendAgent, SaveFreed, history
  <2>2. halted' \in BOOLEAN
    BY <1>0, <2>1, ZenonT(30) DEF TypeOK
  <2>3. result' \in [Drains -> {"done", "failed"}]
    BY <1>0 DEF DenyAgent, Work, Launch, Exit, SettleAgent, MendAgent, TypeOK
  <2> QED
    BY <1>0, <1>1, <1>2, <1>3, <1>4, <1>5, <1>6, <1>7, <1>8, <2>2, <2>3 DEF TypeOK, Places
<1>10. ASSUME ~overlap PROVE Alone'
  <2>1. Active(r)
    BY <1>0 DEF Active
  <2>2. pc[r] \in {"work", "session"} =>
          launches[task[r]] = 0 /\ tasks[task[r]] \notin {"absent", "queued"}
    BY <1>10 DEF IInv, Alone
  <2>3. \A u \in Tasks :
          launches'[u] \in {0, 1} /\ (tasks'[u] \in {"absent", "queued"} => launches'[u] = 0)
    BY <1>0, <1>1, <1>8, <1>10, <2>2 DEF IInv, Alone, TypeOK
  <2> QED
    BY <1>1, <1>3, <1>4, <1>5, <1>8, <1>10, <2>1, <2>2, <2>3, StaysAlone
<1>11. WorkIsServed'
  BY <1>0, <1>1, <1>3, <1>4, <1>5, <1>6 DEF IInv, WorkIsServed, Guarded
<1>12. ASSUME abandoned' = {}, NEW q \in Drains PROVE Tidy(q)'
  <2>1. Tidy(q)
    BY <1>1, <1>12 DEF IInv
  <2> QED
    BY <1>0, <1>3, <1>4, <1>7, <2>1 DEF Tidy
<1> QED
  BY <1>1, <1>3, <1>5, <1>9, <1>10, <1>11, <1>12, InvOwnStep

\* An error before the try, or in the catch, or the end of a process: the runs
\* that are given up are recorded, which lifts what the statuses promise.
LEMMA InvGivenUp ==
  ASSUME IInv, NEW r \in Drains, Rejects(r) \/ ThrowsAgain(r)
  PROVE  IInv'
<1>0. TypeOK /\ Active(r)
  BY DEF IInv, Rejects, ThrowsAgain, Active
<1>1. UNCHANGED <<agent, chat, control, launches, asked, halted, parked, overlap>>
  BY DEF Rejects, ThrowsAgain, requests
<1>2. /\ abandoned' # {} /\ abandoned' \subseteq {"rejected", "unguarded", "twice", "crash"}
      /\ budget' \in Nat
  <2>1. PICK how \in {"rejected", "unguarded", "twice"} : GivesUp(how) /\ Incident
    BY DEF Rejects, ThrowsAgain, Fault
  <2>2. budget' \in Nat
    BY <1>0, <2>1 DEF Incident, TypeOK
  <2> QED
    BY <1>0, <2>1, <2>2 DEF GivesUp, TypeOK
<1>3. PICK there \in {"idle", "fail"}, t \in {task[r], NoTask} :
        /\ Goto(r, there)
        /\ task' = [task EXCEPT ![r] = t]
        /\ there = "fail" => t \in Tasks
  <2>1. CASE Rejects(r)
    BY <2>1 DEF Rejects, Leave
  <2>2. CASE ThrowsAgain(r) /\ pc[r] = "mend"
    BY <1>0, <2>2 DEF ThrowsAgain, TypeOK
  <2>3. CASE ThrowsAgain(r) /\ pc[r] # "mend"
    BY <2>3 DEF ThrowsAgain, Leave
  <2> QED
    BY <2>1, <2>2, <2>3
<1>4. /\ pc' \in [Drains -> Places] /\ pc'[r] = there
      /\ \A q \in Drains : q # r => pc'[q] = pc[q]
  BY <1>0, <1>3, GotoFacts DEF Places
<1>5. /\ task' \in [Drains -> Tasks \cup {NoTask}] /\ task'[r] = t
      /\ \A q \in Drains : q # r => task'[q] = task[q]
  BY <1>0, <1>3 DEF TypeOK
<1>6. /\ tasks' \in [Tasks -> TaskStatuses]
      /\ \A u \in Tasks : tasks'[u] = tasks[u] \/ (u = task[r] /\ tasks'[u] = "failed")
  <2>1. CASE UNCHANGED tasks
    BY <1>0, <2>1 DEF TypeOK
  <2>2. CASE pc[r] = "fail" /\ SaveTask(task[r], "failed")
    <3>1. task[r] \in Tasks
      BY <1>0, <2>2 DEF TypeOK
    <3> QED
      BY <1>0, <2>2, <3>1, SaveFacts DEF TaskStatuses
  <2> QED
    BY <2>1, <2>2 DEF Rejects, ThrowsAgain
<1>7. TypeOK'
  <2>1. /\ result' \in [Drains -> {"done", "failed"}]
        /\ opened' \in [Drains -> SUBSET {"session", "spawn"}]
    BY <1>0 DEF Rejects, ThrowsAgain, Close, TypeOK
  <2> QED
    BY <1>0, <1>1, <1>2, <1>3, <1>4, <1>5, <1>6, <2>1 DEF TypeOK, Places
<1>8. ASSUME ~overlap' PROVE Alone'
  BY <1>0, <1>1, <1>3, <1>4, <1>6, <1>8, StaysAlone DEF IInv, Alone
<1>9. Taken'
  BY <1>3, <1>5, <1>6 DEF IInv, Taken, TypeOK
<1>10. ASSUME chat' # NoTask PROVE tasks'[chat'] = "absent"
  <2>1. chat' = chat /\ chat \in Tasks /\ tasks[chat] = "absent"
    BY <1>0, <1>1, <1>10 DEF IInv, TypeOK
  <2>2. task[r] # chat
    BY <1>0, <2>1, TasksAssumption DEF IInv, Taken, NoTask
  <2> QED
    BY <1>6, <2>1, <2>2
<1> QED
  BY <1>2, <1>7, <1>8, <1>9, <1>10 DEF IInv, WorkIsServed

LEMMA InvThrows ==
  ASSUME IInv, NEW r \in Drains, Throws(r)
  PROVE  IInv'
<1>0. TypeOK /\ task[r] \in Tasks /\ pc[r] \in {"session", "await", "settle", "free"}
  BY DEF IInv, Throws, TypeOK
<1>1. UNCHANGED <<tasks, task, result, chat, control, launches, parked, overlap, abandoned>>
  BY DEF Throws, requests
<1>2. /\ pc' \in [Drains -> Places] /\ pc'[r] = "mend"
      /\ \A q \in Drains : q # r => pc'[q] = pc[q]
  BY <1>0, GotoFacts DEF Throws, Places
<1>3. /\ opened' \in [Drains -> SUBSET {"session", "spawn"}]
      /\ \A q \in Drains : q # r => opened'[q] = opened[q]
  BY <1>0 DEF Throws, TypeOK
<1>4. agent' \in AgentStatuses /\ (agent' = "working" => agent = "working")
  BY <1>0 DEF Throws, SaveFreed, Freed, TypeOK, AgentStatuses
<1>5. TypeOK'
  <2>1. asked' \subseteq Tasks /\ budget' \in Nat
    BY <1>0 DEF Throws, SaveFreed, Fault, Incident, TypeOK
  <2>2. halted' = halted \/ halted' = (halted \/ result[r] = "failed")
    BY DEF Throws, SaveFreed
  <2>3. halted' \in BOOLEAN
    BY <1>0, <2>2, ZenonT(30) DEF TypeOK
  <2> QED
    BY <1>0, <1>1, <1>2, <1>3, <1>4, <2>1, <2>3 DEF TypeOK
<1>6. ASSUME ~overlap PROVE Alone'
  <2>1. Active(r)
    BY <1>0 DEF Active
  <2> QED
    BY <1>1, <1>2, <1>6, <2>1, StaysAlone DEF IInv, Alone
<1>7. WorkIsServed'
  BY <1>0, <1>1, <1>2, <1>4 DEF IInv, WorkIsServed, Guarded
<1>8. ASSUME abandoned' = {}, NEW q \in Drains PROVE Tidy(q)'
  BY <1>1, <1>2, <1>3, <1>8 DEF IInv, Tidy
<1> QED
  BY <1>1, <1>5, <1>6, <1>7, <1>8, InvOwnStep

LEMMA InvCrash ==
  ASSUME IInv, NEW dead, Crash(dead)
  PROVE  IInv'
<1>0. TypeOK
  BY DEF IInv
<1>1. /\ UNCHANGED <<agent, tasks, opened, control, launches, asked, halted, parked, overlap>>
      /\ chat' \in {chat, NoTask}
      /\ abandoned' # {} /\ abandoned' \subseteq {"rejected", "unguarded", "twice", "crash"}
      /\ budget' \in Nat
  BY <1>0 DEF Crash, Fault, Incident, GivesUp, TypeOK
<1>2. /\ pc' \in [Drains -> Places] /\ task' \in [Drains -> Tasks \cup {NoTask}]
      /\ \A q \in Drains : pc'[q] = "idle" \/ (pc'[q] = pc[q] /\ task'[q] = task[q])
      /\ \A q \in Drains : task'[q] \in {task[q], NoTask}
  BY <1>0 DEF Crash, TypeOK, Places
<1>3. TypeOK'
  <2>1. result' \in [Drains -> {"done", "failed"}]
    BY <1>0 DEF Crash, TypeOK
  <2> QED
    BY <1>0, <1>1, <1>2, <2>1 DEF TypeOK, Places
<1>4. ASSUME ~overlap' PROVE Alone'
  BY <1>1, <1>2, <1>4 DEF IInv, Alone, Active
<1>5. Taken'
  BY <1>1, <1>2 DEF IInv, Taken
<1> QED
  BY <1>1, <1>3, <1>4, <1>5 DEF IInv, WorkIsServed

-----------------------------------------------------------------------------
LEMMA InvStep == IInv /\ [Next]_vars => IInv'
<1> SUFFICES ASSUME IInv, [Next]_vars PROVE IInv'
  OBVIOUS
<1>1. CASE \E r \in Drains : CliRun(r) \/ BeginChained(r)
  BY <1>1, InvBegin
<1>2. CASE \E r \in Drains : Load(r) \/ List(r)
  BY <1>2, InvTake
<1>3. CASE \E r \in Drains : DenyTask(r) \/ Start(r) \/ SettleTask(r) \/ MendTask(r)
  BY <1>3, InvTaskWrites
<1>4. CASE \E r \in Drains : \/ DenyAgent(r) \/ Work(r) \/ Launch(r)
                             \/ Exit(r) \/ SettleAgent(r) \/ MendAgent(r)
  BY <1>4, InvRunStep
<1>5. CASE \E r \in Drains : Rejects(r) \/ ThrowsAgain(r)
  BY <1>5, InvGivenUp
<1>6. CASE \E r \in Drains : Throws(r)
  BY <1>6, InvThrows
<1>7. CASE \/ HandleRun \/ CreateTask \/ HandleChat \/ ChatQueued
           \/ ControlRead \/ ControlWrite \/ DeleteAgent
  BY <1>7, InvRequests
<1>8. CASE \E dead \in {Bridge} \cup {{r} : r \in Cli} : Crash(dead)
  BY <1>8, InvCrash
<1>9. CASE UNCHANGED vars
  BY <1>9 DEF vars, run, requests, history, IInv, TypeOK, Taken, Alone, Active, WorkIsServed, Tidy
<1> QED
  BY <1>1, <1>2, <1>3, <1>4, <1>5, <1>6, <1>7, <1>8, <1>9 DEF Next, Proceed

LEMMA Invariant == Spec => []IInv
  BY InitInv, InvStep, PTL DEF Spec

\* Whatever the drains, the operators and the faults do, the model's state has
\* its types; a drain past the list has a task.
THEOREM TypeCorrect == Spec => []TypeOK
<1>1. IInv => TypeOK
  BY DEF IInv
<1> QED
  BY <1>1, Invariant, PTL

\* A working agent and a running task are being served, unless a drain was lost.
THEOREM Served == Spec => []WorkIsServed
<1>1. IInv => WorkIsServed
  BY DEF IInv
<1> QED
  BY <1>1, Invariant, PTL

\* Every way out of a run closes what it opened.
THEOREM Closed == Spec => []RunsLeaveNothingOpen
<1>1. IInv => RunsLeaveNothingOpen
  BY DEF IInv, RunsLeaveNothingOpen, Tidy, Active
<1> QED
  BY <1>1, Invariant, PTL

\* The bridge's chain is enough: one provider at a time and one launch a task.
THEOREM Once == Spec => []ServedOnce
<1>1. IInv => ServedOnce
  BY DEF IInv, ServedOnce, Alone, Active
<1> QED
  BY <1>1, Invariant, PTL

-----------------------------------------------------------------------------
(* Halts                                                                   *)

Barred == agent \notin {"idle", "working"}

\* An agent that was parked at rest stays barred, and no drain gets past its load.
Parked ==
  parked = "atRest" => Barred /\ \A r \in Drains : pc[r] \in {"idle", "chained", "load"}

\* A failure bars the agent while its drain, the only one, is on its way out.
Halted ==
  halted /\ ~overlap /\ abandoned = {} =>
    Barred /\ \A r \in Drains : pc[r] \in {"idle", "chained", "load", "mend", "fail"}

Halts == Parked /\ Halted

LEMMA HaltsInit == Init => Halts
  BY DEF Init, Halts, Parked, Halted

\* The histories of another process and of lost drains never go back.
LEMMA HistoriesGrow ==
  ASSUME IInv, Next
  PROVE  ~overlap' /\ abandoned' = {} => ~overlap /\ abandoned = {}
<1>1. overlap' = overlap \/ \E r \in Drains : overlap' = (overlap \/ Overlapping(r))
  BY DEF Next, Proceed, CliRun, BeginChained, Begin, Load, List, DenyTask, DenyAgent, Start, Work,
         Launch, Exit, SettleTask, SettleAgent, MendAgent, MendTask, Rejects, Throws, ThrowsAgain,
         Crash, HandleRun, CreateTask, HandleChat, ChatQueued, ControlRead, ControlWrite,
         DeleteAgent, history
<1>2. abandoned' = abandoned \/ \E how : abandoned' = abandoned \cup {how}
  BY DEF Next, Proceed, CliRun, BeginChained, Begin, Load, List, DenyTask, DenyAgent, Start, Work,
         Launch, Exit, SettleTask, SettleAgent, MendAgent, MendTask, Rejects, Throws, ThrowsAgain,
         Crash, HandleRun, CreateTask, HandleChat, ChatQueued, ControlRead, ControlWrite,
         DeleteAgent, history, GivesUp
<1>3. ~overlap' => ~overlap
  BY <1>1
<1>4. abandoned' = {} => abandoned = {}
  BY <1>2
<1> QED
  BY <1>3, <1>4

\* A step of an active drain that leaves the parking alone: there was none at rest.
LEMMA HaltsWork ==
  ASSUME IInv, Halts, Next, NEW r \in Drains,
         pc[r] \notin {"idle", "chained", "load"}, parked' = parked,
         \A q \in Drains : q # r => pc'[q] = pc[q],
         halted' /\ ~overlap /\ abandoned = {} =>
           Barred' /\ pc'[r] \in {"idle", "chained", "load", "mend", "fail"}
  PROVE  Halts'
<1>1. Parked'
  BY DEF Halts, Parked
<1>2. ASSUME halted', ~overlap', abandoned' = {}
      PROVE  Barred' /\ \A q \in Drains : pc'[q] \in {"idle", "chained", "load", "mend", "fail"}
  <2>1. ~overlap /\ abandoned = {}
    BY <1>2, HistoriesGrow
  <2>2. \A q \in Drains : q # r => pc[q] \in {"idle", "chained"}
    BY <2>1 DEF IInv, Alone, Active
  <2> QED
    BY <1>2, <2>1, <2>2
<1> QED
  BY <1>1, <1>2 DEF Halts, Halted

\* Requests, the begin of a drain and its load start nothing.
LEMMA HaltsRest ==
  ASSUME IInv, Halts, Next,
         \/ HandleRun \/ CreateTask \/ HandleChat \/ ChatQueued
         \/ ControlRead \/ ControlWrite \/ DeleteAgent
         \/ \E r \in Drains : CliRun(r) \/ BeginChained(r) \/ Load(r)
  PROVE  Halts'
<1>0. TypeOK
  BY DEF IInv
<1>1. CASE ControlWrite
  <2>1. /\ pc' = pc /\ agent' = control /\ control \in {"paused", "idle", "stopped"}
        /\ halted' = (halted /\ control # "idle")
        /\ UNCHANGED <<overlap, abandoned>>
    BY <1>0, <1>1 DEF ControlWrite, TypeOK, run
  <2>2. parked' = "atRest" => control # "idle" /\ \A r \in Drains : ~Active(r)
    BY <1>1 DEF ControlWrite
  <2>3. Parked'
    BY <2>1, <2>2 DEF Parked, Barred, Active
  <2>4. halted' => halted /\ control # "idle"
    BY <2>1
  <2>5. Halted'
    BY <2>1, <2>4 DEF Halts, Halted, Barred
  <2> QED
    BY <2>3, <2>5 DEF Halts
<1>2. CASE \/ HandleRun \/ CreateTask \/ HandleChat \/ ChatQueued
           \/ ControlRead \/ DeleteAgent
           \/ \E r \in Drains : CliRun(r) \/ BeginChained(r) \/ Load(r)
  <2>1. agent' \in {agent, "gone"} /\ UNCHANGED <<halted, parked>>
    BY <1>2 DEF HandleRun, CreateTask, HandleChat, ChatQueued, ControlRead, DeleteAgent, CliRun,
                BeginChained, Load, history
  <2>2. /\ pc' \in [Drains -> Places]
        /\ \A q \in Drains : \/ pc'[q] = pc[q] \/ pc'[q] \in {"idle", "chained", "load"}
                             \/ ~Barred /\ pc'[q] = "list"
    <3>1. ASSUME NEW r \in Drains, NEW there \in {"idle", "chained", "load", "list"},
                 Goto(r, there), there = "list" => ~Barred
          PROVE  /\ pc' \in [Drains -> Places]
                 /\ \A q \in Drains : \/ pc'[q] = pc[q] \/ pc'[q] \in {"idle", "chained", "load"}
                                      \/ ~Barred /\ pc'[q] = "list"
      <4>1. pc' \in [Drains -> Places] /\ pc'[r] = there
            /\ \A q \in Drains : q # r => pc'[q] = pc[q]
        BY <1>0, <3>1, GotoFacts DEF Places
      <4> QED
        BY <3>1, <4>1
    <3>2. CASE UNCHANGED pc
      BY <1>0, <3>2 DEF TypeOK
    <3>3. CASE ScheduleDrain
      <4>1. PICK r \in Drains : Goto(r, "chained")
        BY <3>3 DEF ScheduleDrain, Drains
      <4> QED
        BY <3>1, <4>1
    <3>4. CASE \E r \in Drains : Begin(r)
      BY <3>1, <3>4 DEF Begin
    <3>5. CASE \E r \in Drains : Load(r)
      BY <3>1, <3>5 DEF Load, Barred
    <3> QED
      BY <1>2, <3>2, <3>3, <3>4, <3>5 DEF HandleRun, CreateTask, HandleChat, ChatQueued,
         ControlRead, DeleteAgent, CliRun, BeginChained, run
  <2>3. Parked'
    BY <2>1, <2>2 DEF Halts, Parked, Barred
  <2>4. Halted'
    BY <2>1, <2>2, HistoriesGrow DEF Halts, Halted, Barred
  <2> QED
    BY <2>3, <2>4 DEF Halts
<1> QED
  BY <1>1, <1>2

\* The steps of a run: a failed one ends in the error that bars the agent.
LEMMA HaltsRun ==
  ASSUME IInv, Halts, Next, NEW r \in Drains,
         \/ List(r) \/ DenyTask(r) \/ DenyAgent(r) \/ Start(r) \/ Work(r) \/ Launch(r) \/ Exit(r)
         \/ SettleTask(r) \/ SettleAgent(r) \/ MendAgent(r) \/ MendTask(r) \/ Throws(r)
  PROVE  Halts'
<1>0. TypeOK
  BY DEF IInv
<1>1. parked' = parked /\ pc[r] \notin {"idle", "chained", "load"}
  BY DEF List, DenyTask, DenyAgent, Start, Work, Launch, Exit, SettleTask, SettleAgent, MendAgent,
         MendTask, Throws, history
<1>2. PICK there \in Places : Goto(r, there)
  BY DEF List, DenyTask, DenyAgent, Start, Work, Launch, Exit, SettleTask, SettleAgent, MendAgent,
         MendTask, Throws, Leave, Places, Guarded
<1>3. pc'[r] = there /\ \A q \in Drains : q # r => pc'[q] = pc[q]
  BY <1>0, <1>2, GotoFacts
<1>4. ASSUME halted', ~overlap, abandoned = {}
      PROVE  Barred' /\ pc'[r] \in {"idle", "chained", "load", "mend", "fail"}
  <2>1. halted => Barred /\ pc[r] \in {"mend", "fail"}
    BY <1>1, <1>4 DEF Halts, Halted
  <2>2. CASE List(r) \/ DenyTask(r) \/ Start(r) \/ Work(r) \/ Launch(r) \/ Exit(r) \/ SettleTask(r)
    BY <1>4, <2>1, <2>2 DEF List, DenyTask, Start, Work, Launch, Exit, SettleTask, history
  <2>3. CASE DenyAgent(r)
    BY <1>0, <1>3, <2>3 DEF DenyAgent, Leave, Goto, Barred, TypeOK
  <2>4. CASE MendAgent(r)
    BY <1>0, <1>3, <2>4 DEF MendAgent, Goto, Barred, TypeOK
  <2>5. CASE MendTask(r)
    BY <1>0, <1>4, <2>1, <2>5 DEF MendTask, Leave, Goto, Barred, history, TypeOK
  <2>6. CASE SettleAgent(r)
    <3>1. result[r] = "failed"
      BY <1>4, <2>1, <2>6 DEF SettleAgent, SaveFreed
    <3> QED
      BY <1>0, <2>6, <3>1 DEF SettleAgent, SaveFreed, Freed, GoesOn, Leave, Goto, Barred, TypeOK
  <2>7. CASE Throws(r)
    <3>1. pc'[r] = "mend" /\ ~halted
      BY <1>0, <2>1, <2>7 DEF Throws, Goto, TypeOK
    <3>2. SaveFreed(r) /\ result[r] = "failed"
      BY <1>4, <2>7, <3>1 DEF Throws, SaveFreed
    <3> QED
      BY <3>1, <3>2 DEF SaveFreed, Freed, Barred
  <2> QED
    BY <2>2, <2>3, <2>4, <2>5, <2>6, <2>7
<1> QED
  BY <1>1, <1>3, <1>4, HaltsWork

\* Where a drain is lost, the promise is about the pause alone.
LEMMA HaltsLost ==
  ASSUME IInv, Halts,
         \/ \E r \in Drains : Rejects(r) \/ ThrowsAgain(r)
         \/ \E dead \in {Bridge} \cup {{r} : r \in Cli} : Crash(dead)
  PROVE  Halts'
<1>0. TypeOK
  BY DEF IInv
<1>1. UNCHANGED <<agent, parked>> /\ abandoned' # {}
  BY DEF Rejects, ThrowsAgain, Crash, GivesUp
<1>2. ASSUME parked = "atRest", NEW q \in Drains PROVE pc'[q] \in {pc[q], "idle"}
  <2>1. \A r \in Drains : pc[r] \in {"idle", "chained", "load"}
    BY <1>2 DEF Halts, Parked
  <2>2. ASSUME NEW r \in Drains, Rejects(r) \/ ThrowsAgain(r) PROVE pc'[q] \in {pc[q], "idle"}
    <3>1. Leave(r)
      BY <2>1, <2>2 DEF Rejects, ThrowsAgain
    <3> QED
      BY <1>0, <3>1 DEF Leave, Goto, TypeOK
  <2>3. ASSUME NEW dead, Crash(dead) PROVE pc'[q] \in {pc[q], "idle"}
    BY <1>0, <2>3 DEF Crash, TypeOK
  <2> QED
    BY <2>2, <2>3
<1> QED
  BY <1>1, <1>2 DEF Halts, Parked, Halted, Barred

LEMMA HaltsStep == IInv /\ Halts /\ [Next]_vars => Halts'
<1> SUFFICES ASSUME IInv, Halts, [Next]_vars PROVE Halts'
  OBVIOUS
<1>1. CASE UNCHANGED vars
  BY <1>1 DEF vars, run, requests, history, Halts, Parked, Halted, Barred
<1>2. CASE Next
  BY <1>2, HaltsRest, HaltsRun, HaltsLost DEF Next, Proceed
<1> QED
  BY <1>1, <1>2

LEMMA HaltsAlways == Spec => []Halts
  BY HaltsInit, HaltsStep, Invariant, PTL DEF Spec

\* For any number of drains and requests, a pause or a stop of an agent at rest, and
\* a failure, keep every drain from starting a further task until a resume.
THEOREM Halting == Spec => HaltIsKept
<1> DEFINE Kept == /\ StartsNothingWhen(parked = "atRest")
                   /\ StartsNothingWhen(halted /\ ~overlap /\ abandoned = {})
<1>1. ASSUME IInv, Halts, [Next]_vars PROVE [Kept]_vars
  <2> SUFFICES ASSUME Next, NEW r \in Drains, pc[r] = "load", pc'[r] = "list"
               PROVE  parked # "atRest" /\ ~(halted /\ ~overlap /\ abandoned = {})
    BY <1>1 DEF StartsNothingWhen
  <2>1. ~Barred
    <3>0. TypeOK /\ pc'[r] # pc[r]
      BY <1>1 DEF IInv
    <3>1. ASSUME NEW q \in Drains, NEW there \in Places, Goto(q, there)
          PROVE  q = r /\ there = "list"
      <4>1. /\ pc'[q] = there
            /\ q # r => pc'[r] = pc[r]
        BY <3>0, <3>1, GotoFacts
      <4> QED
        BY <3>0, <4>1
    <3>2. \A q \in Drains : ~Begin(q) /\ ~Leave(q)
      <4>1. "load" \in Places /\ "idle" \in Places
        BY DEF Places
      <4> QED
        BY <3>1, <4>1 DEF Begin, Leave
    <3>3. ~ScheduleDrain
      <4>1. "chained" \in Places /\ Bridge \subseteq Drains
        BY DEF Places, Drains
      <4> QED
        BY <3>1, <4>1 DEF ScheduleDrain
    <3>4. CASE \/ HandleRun \/ CreateTask \/ HandleChat \/ ChatQueued
               \/ ControlRead \/ ControlWrite \/ DeleteAgent
      BY <3>0, <3>3, <3>4 DEF HandleRun, CreateTask, HandleChat, ChatQueued, ControlRead,
         ControlWrite, DeleteAgent, run
    <3>5. CASE \E dead \in {Bridge} \cup {{q} : q \in Cli} : Crash(dead)
      BY <3>0, <3>5 DEF Crash
    <3>6. ASSUME NEW q \in Drains, CliRun(q) \/ BeginChained(q) \/ Rejects(q) PROVE FALSE
      BY <3>2, <3>6 DEF CliRun, BeginChained, Rejects
    <3>7. ASSUME NEW q \in Drains, Load(q) PROVE ~Barred
      <4>1. "idle" \in Places
        BY DEF Places
      <4> QED
        BY <3>1, <3>7, <4>1 DEF Load, Barred
    <3>8. ASSUME NEW q \in Drains,
                 \/ List(q) \/ DenyTask(q) \/ DenyAgent(q) \/ Start(q) \/ Work(q)
                 \/ Launch(q) \/ Exit(q) \/ SettleTask(q) \/ SettleAgent(q) \/ MendAgent(q)
                 \/ MendTask(q) \/ Throws(q) \/ ThrowsAgain(q)
          PROVE  FALSE
      <4>1. PICK there \in Places \ {"list"} : Goto(q, there)
        BY <3>8 DEF List, DenyTask, DenyAgent, Start, Work, Launch, Exit, SettleTask, SettleAgent,
           MendAgent, MendTask, Throws, ThrowsAgain, Leave, Places, Guarded
      <4> QED
        BY <3>1, <4>1
    <3> QED
      BY <3>4, <3>5, <3>6, <3>7, <3>8 DEF Next, Proceed
  <2> QED
    BY <1>1, <2>1 DEF Halts, Parked, Halted
<1> QED
  BY <1>1, Invariant, HaltsAlways, PTL DEF Spec, HaltIsKept
=============================================================================
