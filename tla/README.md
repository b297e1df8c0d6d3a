# MegaSaver in TLA+

TLA+ models of the parts of MegaSaver in which several processes share state, the TLC instances that check them, and
proofs, checked by TLAPS, that the most important properties hold for every value of the constants. Every definition
is translated from the source; `PROJECT.json` ("map") names the lines of each.

MegaSaver has no server of its own: a dozen short-lived processes (CLI, GUI bridge, MCP bridge, hooks, a proxy
supervisor, a daemon) meet in JSON files under `~/.megasaver` and in the project. Its hard behaviours are therefore
those of file protocols: locks made of files, read-modify-write of shared records, crashes between two writes,
markers that go stale. The models are about these.

    tlc -workers 2 -config MCProxySafety.cfg MCProxyControl
    tlapm ProxyControl_proofs.tla

## 1. Inventory

`modelled`: every operation that changes state is an action. `partly`: section 7 names what is left out. `no`: not
modelled, with the reason. `PROJECT.json` lists the same components with their sources, and under "hazards" the forty
places where one of these behaviours bites, each with its line.

| Component | State | Operations | Interacts with | Hard behaviour | What makes it correct |
|---|---|---|---|---|---|
| proxy-control: matrix and control state (modelled) | `control.json`, route in Claude's settings, listener | boot recovery, drive, drift monitor | CLI, GUI, launchd, editors | crash between two writes, stale plan, foreign edits | the last acknowledged command stands; a pass removes the route before it stops the listener; a finished disable leaves no lease |
| proxy commands, supervisor process (modelled) | LaunchAgent state, program counters | start, stop, confirm, restart, uninstall, tick, signals | all of the above | check and act apart, exception paths | no command is lost; every enable, disable and drain ends |
| transition lock (modelled) | `transition.lock` and quarantined files | try, judge, quarantine, restore, recreate, release | supervisor, CLI, GUI | reclaim races, leases | exclusion; never a permanent veto |
| brain-sync (partly) | manifest and objects in a store, `brain-sync.json` of each machine, memories | pull, push, push --force, reset | object store, memory registry | CAS races, lost answers, markers across resets | nothing is overwritten unseen; the live object exists |
| core registry, directory lock (partly) | `.projects.lock` with a pid, entity files | plan, session, failure and rule writes | CLI, MCP, GUI, daemon | empty pid, a pid judged dead, two-write operations | no lost update; operations complete or repeat safely |
| core task plans (modelled) | steps, statuses, dependencies | create, record an outcome, retry | MCP, CLI | a retry under running dependents, outcomes of an old run | a running step stands on completed ones; a planned plan offers work |
| agent-office (partly) | agent and task files | run, chat, pause, resume, stop, delete | providers, GUI, CLI | two runners, errors and crashes in the middle of a run, stale agent | statuses are true; a task runs once; a halt halts; what was asked for is served |
| mesh inbox and bus (partly) | one file per message and session, `events.jsonl` | send, drain by hooks and polls, rotate | hooks of several sessions | claim by rename, drains at the same time, rotation | at most once, and in one place at any time |
| mesh presence, claims, collector (partly) | one file per session and per claim | register, heartbeat, claim, release, check, sweep | hooks of several sessions | read-modify-write heartbeats, stale sweep | an active session is listed; of two that claim one path one is warned |
| shared file lock (modelled) | a lock file and its mtime | `withFileLock` | every log of a session | double steal, slow holder, deadline | a writer always returns; exclusion for those that keep the lock |
| stats: savings of a live session (partly) | a log, its summary | append, self-healing read, daily sweep | hooks, daemon | torn line, rebuild without the lock | no event lost, none counted twice |
| daemon lifecycle (modelled) | `daemon.json`, `daemon.lock` | start, find, replace, spawn, serve, shut down, kill | CLI, hooks, GUI bridge | two clients replace one daemon, slow answers | one daemon; it can be found; who starts gets one |
| daemon handlers, mesh hub (no) | live table | dispatch, fan-out | daemon clients | none | dispatch to other packages; the hub only feeds a command that prints |
| mesh board, hints (no) | board entries | post, inject | mesh | none | one list, rewritten whole; who sees what is a filter over strings |
| evidence-ledger, content-store (no) | records, chunks, journals | append, pin, revoke, gc | context gate, MCP | collection against a write | pin, unpin and revoke have no caller outside tests |
| long-memory (no) | catalog, quota ledger, sidecars | allocate, publish, commit, recover | CLI, MCP | multi-file commit, recovery by prefix | the one large protocol left; a project of its own |
| context-gate, output-filter (no) | heartbeats, seen files | run, record | content store | shared files of sessions | caches that may lose a write; its savings log is modelled |
| registry ledgers of stats, pro-analytics, bench-replay (no) | append-only logs | append, sum | everybody | none | sums over a log |
| policy (no) | none | evaluate, redact | CLI, MCP | none | functions of the text itself |
| indexer, retrieval, memory-graph, memory-recall, embeddings, context-pruner (no) | snapshots | build, rank | CLI, MCP | none | ranking and parsing |
| llm-proxy request path (no) | none | forward | providers | streaming I/O | its lifetime is the listener of `ProxyControl` |
| connectors (no) | blocks in config files | install, remove | agents' configs | text merging | idempotence of text; the proxy's route is in `ProxyControl` |
| mcp-bridge, CLI and GUI shells (no) | none of their own | parse, call, show | all | none | the calls they make are the actions above |
| entitlement, fence, harness-detect, review-pack, skill-packs (no) | single files | read, write | one process | none | single writes |

## 2. Plan

Done, in the order of importance:

1. **Proxy control** (`ProxyReconcile`, `ProxyControl`) and its **lock** (`TransitionLock`). `ProxyControl` takes the
   lock as one variable; `TransitionLock` says how far that is right.
2. **Brain sync** (`BrainSync`), shown to implement an abstract register (`BrainChain`).
3. **Core registry** (`CoreRegistry`): the directory lock and the operations under it, composed with the **task
   plans** (`TaskPlan`), shown to implement a plan kept in memory (`PlanLifecycle`).
4. **Agent office** (`AgentOffice`): drains of two processes, an operator, errors at each write, crashes.
5. **Mesh**: inbox and bus (`MeshInbox`), shown to implement an abstract `Mailbox`; presence, claims and the
   collector (`MeshClaims`).
6. **Savings log** (`SavingsLog`) over the **shared file lock**.
7. **Daemon lifecycle** (`DaemonLifecycle`).

Left, in this order:

1. Long memory: the quota ledger and its recovery after every crash point, as a module of its own.
2. The evidence ledger against its daily collection, once pins and revocations have callers.

Every safety and action property of a run that passes is a theorem; section 5 says what stays with TLC.

## 3. Modules

**`ProxyReconcile`** is `reconcile.ts` as operators: records of decisions for every transition, observation and
desired state, in the source's order of actions. Ports, URLs, owners and times are left out: no decision reads them.

**`ProxyControl`** is everything around it. Variables: `control` (control.json), `route` (ANTHROPIC_BASE_URL, relative
to our URL: absent, exact, foreign, invalid), `listener`, `job` (the LaunchAgent: unloaded, due, running, dormant),
`lock`, `sup` (the supervisor's program counter and locals), `client` (the CLI or GUI processes), `budget`; and two
history variables, `acked` (what the last successful command asked for) and `stale` (the settings were edited since
they were read). A step is what happens between two accesses to shared files.

| Action | Code |
|---|---|
| Launch, Boot, Tick, PassOver, DrainedExit | `supervise.ts`: bind, boot recovery under the lock, ticks, exit; early returns of `runStartupRecovery` and `superviseDrive` |
| AdvanceBootstrap, Decide | one pass: observe, ask the matrix |
| Monitor | `monitorTick`: heal, re-apply, drift |
| ActLocally, ReadSettings, WriteSettings, VerifyRoute, StopListener | the actions of `applyDecision`, in order; the settings adapter of `proxy-route.ts` as a read and a write |
| Conclude, Commit | the record that is built, its write, whether the loop goes on |
| RecordRead, RecordWrite | the catch of a tick, after the lock was released |
| Issue, Enter, Refused, WriteCommand, Kickstart | `mega proxy start`, `stop`, `--confirm-clients-restarted`, `--restart-supervisor`, and the GUI's bridge, which does the same |
| IssueUninstall, Bootout | `mega proxy service uninstall` |
| Edit | another program rewrites the settings (it takes no lock) |
| Crash, ClientCrash, Signal, Reboot, PortInUse, WriteFails, RecordFails, LeaseExpires | faults, one per kind, switched on by the constant `Faults` |

**`TransitionLock`** is `locks.ts`, one file-system call per step: exclusive create and the record written afterwards
(`Create`, `Fill`), the judgement of the owner (`Judge`), the rename to a quarantine name (`Move`), the second look
(`Recheck`), the rename back (`Restore`) or removal (`Discard`), the second create, and the release as a read and a
removal by name. Files are told apart by the attempt that created them, which is what the fence token does; `Attempts`
bounds those whose files exist at one time.

**`BrainSync`** is `sync.ts` with the CLI around it. Variables: `manifest`, `objects` (the store), `lastSeen`
(brain-sync.json), `brain` (each memory's standing on each machine), `job` (the command each machine runs), `named`
(object names handed out), `budget`; history: `chain` (resets so far), `seen` (what each machine ever held), `resent`,
and a count in `job` of how often the manifest moved. A step is one access to the store with the local work around it.

| Action | Code |
|---|---|
| Invoke, Guard | `ops.ts`: pull, push (pull, guard, push), push --force |
| Read, Merge, Missing | `readRemote`, `mergeRemote`, `importBrain`, `updateLastSeen` |
| Export, Publish, Conflict, Undo, Settle | the loop of `push`: upload, conditional put, 412, deletion of the draft, marker and deletion of what was replaced |
| DeleteManifest, ClearLastSeen | `reset.ts` |
| Edit | the user (or an agent) adds, approves, rejects, deletes a memory |
| Crash, Resend, and the slips "contended", "undeleted" | faults |

**`BrainChain`** is what brain sync promises: machines share a chain of contents; a machine replaces the last one only
after it has seen all of it (unless the marker it trusts is of a chain that was reset), generations go up by one, a
reset starts another chain. `BrainSync!ImplementsChain` is the refinement (`manifest`, `seen` and the chains of the
markers are the abstract variables).

**`TaskPlan`** is `task-plan.ts` and `task-plan-transitions.ts` as operators: the graphs the schema accepts, the legal
moves, the selective retry (`ToReset`, the least set closed under dependence), the roll-up and the ready steps.
**`PlanLifecycle`** is what the registry promises about a plan: it changes by one operation at a time, applied to the
plan as it is.

**`CoreRegistry`** is `withDirLock` of `json-directory-registry.ts`, one file-system call per step, with the operations
under it that depend on what they read. Variables: `lock` (who created `.projects.lock`, and whether a pid is in it),
`pc` and `todo` (each process's place and the contents it is about to write), `plan`, `sessions`, `failures`,
`attempt`, `rules` (the files), `budget`; history: `robbed`, `torn`.

| Action | Code |
|---|---|
| Acquire, Fill, Judge, Reclaim, Wait, Release | `withDirLock`: exclusive create, pid, `isLockHolderAlive`, removal and retry, the wait of 50 ms, the finally |
| Read, Refuse | the callback up to its write: load, look up, check, throw |
| Write, Mark, Clear | its write; the second file of `convertFailureToRule` and of `endSession` |
| CreateTaskPlan, RecordTaskStep, RetryTaskStep, CreateSession, UpdateSession, EndSession, CreateSessionFailure, ConvertFailureToRule | what `Read` computes, per operation of the registry |
| Crash, FillFails, WriteFails | faults |

**`AgentOffice`** is one agent's queue: `supervisor.ts`, the bridge's office routes, `mega office`. Variables: `agent`
and `tasks` (the statuses on file), `pc`, `task`, `result`, `opened` (each drain), `chat` and `control` (requests
between their read and their write), `budget`, and six history variables. A step is one read or write of a file.

| Action | Code |
|---|---|
| HandleRun, HandleChat, ChatQueued, CreateTask, BeginChained | the bridge's routes and `scheduleDrain`, which chains drains |
| CliRun | `mega office run`, which drains in its own process |
| ControlRead, ControlWrite, DeleteAgent | pause, resume, stop, delete |
| Load, List, DenyTask, DenyAgent, Start, Work, Launch, Exit, SettleTask, SettleAgent | `processNextTask` in order, and the loop of `drainAgent` |
| MendAgent, MendTask | its catch |
| Rejects, Throws, ThrowsAgain, Crash | an error before the try, inside it and inside the catch; the end of a process |

**`MeshInbox`** is the bus and the inboxes of the session mesh: `sends` and `log` (the bus with its rotation), `inbox`,
`reader` (hooks and polls between `readdir` and their answer), `shown`, `gone`. **`Mailbox`** is what they promise: a
message waits, then is shown once or lost, and never comes back (`MeshInbox!ImplementsMailbox`).

| Action | Code |
|---|---|
| Send, Deliver, DeliverFails, SenderCrash | `send.ts`: the bus line, then one inbox file after the other |
| Open, Take, TakeFails, Read, ReadFails | `drainInbox`: list, claim by rename, read, remove |
| Poll, Hook, HookAnswersElse, ReaderCrash | the MCP tool and the pre-tool hook: what becomes of the drained messages |
| Rotate, Fresh | `gc.ts`: the rename of the bus, the fresh file |

**`MeshClaims`** is presence, claims and the collector, one access to a file per step. Ages are counted in ticks. A claim
is filed under an identity that no file, check or collector knows, so a session may release its claim and claim again
while others look; a check counts for the claims its session had when it began. The two halves share no file; what they
have in common, the sessions and the collectors, is declared in **`Mesh`**.

| Action | Code |
|---|---|
| Register, BeatRead, BeatWrite | `presence.ts`: the session start; the heartbeat's read and write |
| Claim, Release, CheckList, CheckCompare | `claims.ts`: file a claim, remove it, list the claims, compare with the peers |
| GcStart, GcRead, GcRemove, GcClaims | `gc.ts`: the time, each presence read and removed, the claims |
| Tick | time; a hook older than `Dead` has been killed |

**`SavingsLog`** is the overlay part of `stats/src/store.ts` over `withFileLock` of `shared/src/file-lock.ts`.
Variables: `event`, `lock`, `lines` and `torn` (the log), `summary`, `writer`, `sweeper`, `budget`; history: `loose`,
`crossed`.

| Action | Code |
|---|---|
| Call, Late, Create, Stat, Restat, Remove, Release, Ages | `withFileLock`: the deadline, the exclusive create, the two looks at a stale lock, its removal, the removal by name at the end, the stale age |
| Check, Append, Load, Fold, Answer | `appendOverlayEvent`: replay, line, summary |
| Recount, Rewrite | `rebuildOverlaySummaryFromEvents` in a writer |
| Count, Compare, SweepRecount, SweepRewrite | `reconcileOverlaySummaries`, the daily sweep |
| AppendFails, FoldFails, Crash, SweeperStops | faults |

**`DaemonLifecycle`** is `client.ts`, `lock.ts`, `discovery.ts`, `server.ts`, `mega daemon serve` and the bridge's
route. Variables: `lock`, `advert` (daemon.json), `daemon`, `starter`, `budget`; history: `reaped`, `hidden`.

| Action | Code |
|---|---|
| Start, Read, Ping, PingSlow, ClearDiscovery, ClearLock, Spawn, SpawnFails, Wait, Try, GiveUp, StarterDies | `getDaemon` and its copy in the bridge |
| Acquire, Advertise, ListenFails | `serveDaemon` |
| Shutdown, Drained, Signal, Close, Kill | the ways a daemon ends |

**`ProxyMatrix`** states the promises of the recovery matrix and collects, over every input, the rows that break one;
`MatrixIsGuarded` says that the proxy comes to none of them.

**`MC*`** modules instantiate these for TLC; `AgentOffice` is run as it is. `MCCoreRegistry` splits the registry's
files into three groups that share nothing but the lock, and explores each group under the full lock protocol.
**`*_proofs`** hold the theorems.

Definitions whose comment begins with "Mutant" are not part of any specification: each is a plausible slip in the
definition below it, kept to show that a property notices it (`PROJECT.json`, "mutants").

## 4. Runs

| Run | Instance | Shows |
|---|---|---|
| proxy_safety | 2 clients, crash, signal, reboot or taken port, 2 edits, 3 commands, 1 fault (1.5 M states) | the desired state on disk is that of the last acknowledged command; disabled and idle means no lease; at rest no draining marker or stale phase is left (`RestIsClean`); no route is written after a stop; and the matrix, in every row the proxy comes to and under every observation, removes, writes, stops and clears only what it may, in the right order |
| proxy_faults | 1 client, crash, failing write or expired lease, 2 faults, 1 edit, 2 commands, fairness (298 k states) | whatever fails, a foreign value is overwritten only if it appeared after the guard read, and a pass that stops the listener does so while the route does not point at it, unless it was edited since (bootout, restart and signals are not meant); once faults and edits are over, disable gives up its lease, a confirmed drain completes, an enable ends |
| lock_faults | supervisor with two attempts, CLI and GUI with one each; crash, failing write or suspension, 2 faults, fairness (2.5 M states) | two processes both win only while a third has the lock of one of them in its hands, or in the named ways: a file caught before its record was in it, covered, lost by dying, or removed after its remover's own lease had run out; no lock vetoes for ever |
| brain_sync | 2 machines, 1 memory, 4 commands, 2 edits, 1 fault (4.6 M states) | the register is implemented; the live object exists; an unforced push leaves out no undecided import but those its own merges brought after its guard; a conflict means contention |
| registry | 2 processes, 3 steps in 3 graphs, 2 sessions, 1 fault, a lock of before or none, fairness (1.4 M states) | unless a process was robbed of its lock, each write of the plans is one operation of `PlanLifecycle` on the plan it replaces, an ended session stays ended and an attempt becomes one rule, and one more for each interrupted conversion; running steps are founded in every state on disk; a planned plan of an acyclic graph offers work; a lock left behind never stays |
| office | the bridge with two drains, the command line, 2 tasks, 2 incidents, fairness (949 k states) | the statuses on file are true; every run closes its session and its spawn row; the bridge launches a task once; a failure, or a pause at rest, halts the queue; no task that was asked for is stranded |
| mesh_inbox | 1 session with 2 hooks and a poll, 2 messages, 1 collector, 2 faults (203 k states) | every message is in one place; `Mailbox` is implemented; the bus loses only what is appended inside a rotation |
| mesh_claims | 2 sessions that claim, release and claim again, 1 collector (4.3 M states) | an active session is listed; of two that claimed and checked one was warned; no claim is collected before its time |
| savings | 2 writers, 1 or 2 events, 1 sweep, an old lock, an obstacle or none, 1 fault, fairness (489 k states) | no event is lost, none is repeated but by writers that lost the lock, and the summary counts at most one too many for each writer overtaken by a rebuild; a lagging summary is mended; every append returns |
| daemon | the bridge's boot, 2 starts, a daemon of before or its remains, 1 incident, fairness (502 k states) | two daemons live together only after a lock was removed from a live one; the one with the lock can be found; once nothing more happens whoever starts gets a daemon |

Two more runs end in a violation. Each states what a comment or a document says and shows where the code differs
("findings" in `PROJECT.json`):

| Run | Statement | Counterexample |
|---|---|---|
| proxy_exception | `CommandsAreDurable` (transition-lock.ts:14: no writer loses an update) | a tick throws; its catch reads control.json after the lock is released; a start lands; the catch writes the old record back |
| brain_reset | `NeverDropsUnseen` (the brain-sync design, lines 203-204) | home has published generation 1; work resets and publishes generation 1 of a new chain; home's marker is 1, so its push skips the merge and overwrites what it never saw |

### Bounds, and why they are enough

The step limits of the code are the code's own (`MaxReconcileSteps` 8, `MaxDriveSteps` 12, `MaxSteals` 2).
`MaxAttempts` is 2 in brain_sync and 3 in brain_reset instead of MAX_CAS_ATTEMPTS: a first and a last round are told
apart, and the theorems cover the rest. `ShownLimit` is 1 instead of 5, so that two messages overflow it; `Dead` and
`Ttl` keep the order of the code's ten and thirty minutes. `MaxCommands`, `MaxEdits`, `MaxFaults`, `MaxIncidents` bound
what the environment does, never what the code does. Three proxy commands are a start, its stop and a confirmation, or
a start between two halves of another command. Two faults allow a failing write and a failure of its recovery. Four
brain-sync commands are a publication, a merge, a second publication and a reset; the memory that matters to a
violation is one memory. Two processes are what an exclusion needs; where a third would matter (a lock that is stolen
twice) the theorem covers any number. The transition lock has three, because a third process that moved a file matters
to two winners; at its path and in quarantine at most the files of `Attempts` exist (the supervisor may come back while
a file of its last attempt is still there, CLI and GUI when theirs is gone; the theorem holds for any such set).
`MaxRules` 3 is one more than the one fault allows. Three steps are the smallest plan with a chain, a fork and a cycle beside
a free step. In mesh_claims each session has one identity for its claims, so it claims again only after all that knew
the last one are done; the theorems hold for any number of identities. Symmetry is used for clients, machines and
memories in runs without liveness properties; the brain-sync refinement is a property of steps, where symmetry is
sound.

`CHECK_DEADLOCK FALSE` is set where the environment's budget runs out and everything may come to rest.

### Fairness

`ProxyControl!FairSpec`: the supervisor takes its steps (the monitor's interval timer, and launchd's KeepAlive and
RunAtLoad for a job that is due); a command that was invoked runs to its end. The operator, editors and faults owe
nothing, and every progress property excuses a supervisor that left cleanly (launchd does not restart it) and settings
that stay unreadable or foreign for ever. `TransitionLock!FairSpec`: a process inside the protocol goes on, the
supervisor's timer comes back, and the 15 seconds of a lease that nobody holds pass. `CoreRegistry`: a call that was
made goes on; `NoPermanentVeto` asks that somebody keeps calling. `AgentOffice`: a drain goes on, and `awaitExit`'s
timer sees to it that a provider ends. `SavingsLog`: writers go on, the 50 ms of the deadline pass, some hook runs the
daily sweep; nothing says that a lock ages. `DaemonLifecycle`: a starter and a daemon that began go on; the property
is about the time when the incidents are used up and no daemon is about to close. `BrainSync`, `MeshInbox` and
`MeshClaims` state no liveness: nobody is obliged to run a command, call a tool or keep a session.

## 5. Proofs

No statement is assumed except the named assumptions on constants (sets of faults and operations, bounds
that are naturals, names that are distinct), which TLC evaluates in every run. Each module below also has
`TypeCorrect`, `Spec => []TypeOK`.

| Theorem | Statement | Argument |
|---|---|---|
| ProxyControl_proofs `MatrixGuarded` | `[]MatrixIsGuarded` | `PlansOf`: every plan of the matrix; no reachability |
| ProxyControl_proofs `OverwritesOnlyRead`, `StopsUnrouted` | `OverwritesOnlyWhatItRead`, `StopsOnlyUnrouted`, under every fault | `FInv` |
| ProxyControl_proofs `CommandsSurvive`, `DisabledUnleased`, `StoppedStaysUnrouted` | `WritesSucceed =>` `CommandsAreDurable`, `DisabledIsUnleased`, `StoppedIsNotRouted` | `IInv` |
| ProxyControl_proofs `RestClean` | `WritesSucceed =>` `RestIsClean` | `RInv`, which is `IInv`, `FInv` and `Rest` |
| TransitionLock_proofs `ExclusiveButCaught` | `[]ExclusiveUnlessCaught` | `Restored` |
| TransitionLock_proofs `Exclusive` | `[]ExclusiveUnlessTaken` | `Untaken` |
| BrainSync_proofs `Implements` | `ImplementsChain` | `History` |
| BrainSync_proofs `LiveObjectStays`, `UndecidedKept`, `ConflictsContend` | `LiveObjectPresent`, `PushKeepsUndecided`, `ConflictsAreContention` | `StoreInv` |
| CoreRegistry_proofs `Exclusive`, `Serial` | `ExclusiveUnlessRobbed`, `PlansAreSerial` | `Clean` |
| CoreRegistry_proofs `Sound` | `PlansAreSound` | `AllFounded`, `Offers` |
| CoreRegistry_proofs `Once`, `Ended` | `OneRulePerAttempt`, `EndedStaysEnded` | `Kept` |
| AgentOffice_proofs `Served`, `Closed`, `Once`, `Halting` | `WorkIsServed`, `RunsLeaveNothingOpen`, `ServedOnce`, `HaltIsKept` | `Alone`, `Tidy`, `Halts` |
| Mesh_proofs `AllAccounted`, `AllLinesKept`, `Implements` | `Accounted`, `LinesAreKept`, `ImplementsMailbox` | `HeldApart`, `AddressedOnBus` |
| Mesh_proofs `ActiveListed`, `OneWarned`, `ClaimsLast` | `ActiveIsListed`, `OneOfTwoIsWarned`, `ClaimsLastTheirTime` | `ClaimsInv` |
| SavingsLog_proofs `Kept`, `OneLine`, `CountedOnce` | `EventsAreKept`, `OneLineEach`, `NoneCountedTwice` | `Known`, `Locks`, `Counted` |
| DaemonLifecycle_proofs `OneDaemon`, `Findable` | `OneUnlessReaped`, `HolderIsFindable` | `Owned`, `Unborn` |

**Proxy.** `CommandsAreDurable` is not inductive: the supervisor writes back a copy. `IInv` adds that inside
its critical section the supervisor holds the lock (`Mutex`), that its copy is still what is on disk (`Snapshot`), that
a transition goes where the operator wants to go (`Directed`), and that what is left of a plan for a disabled proxy
neither writes a route nor clears the transition before the lease (`Undoing`, over the finitely many tails of such
plans). `WritesSucceed` excludes failing writes and expired leases: proxy_exception shows that without it the theorem
is false. Its types rest on `MatrixType`: every pair of phase and observation has a decision, and every record written
is one of the schema.

`MatrixGuarded` is about the matrix alone: whatever the row and the observation, the decision keeps every promise, so
it does not matter which rows the proxy comes to. `PlansOf` lists all plans, and each promise is checked on the list.

`FInv` holds under every fault, so it may not use the lock. A value that is about to be replaced passed the adapter's
guard or was edited since (`Applying`). A plan that is still to stop the listener is that of a confirmed drain which saw
no route (`Stopping`). The matrix has one more row that stops it, with the route in place: an enable at
`listener_healthy` whose health check failed. That row is never met: the phase is written, and read, only by a process
whose listener is up (`ListenerUp`).

`RestIsClean` takes three facts beside the other two invariants. The phases `route_verified` and `rollback` are never
persisted, so a plan that clears the transition does it last and reports nothing, which resets an old block (`Records`,
`Ending`). Where the listener is down the record to be read or written has no draining marker (`Draining`), so that the
branch of a drain whose generation is dead, which forgets the marker, finds none. And a command changes the record that
is on disk (`Current`). TLC checked `FInv` (six faults, 8 M states) and `RInv` before they were proved.

**Transition lock.** As long as nothing was taken, a live owner's file is at the path and only lapsed files are in
quarantine (`Untaken`). As long as live owners' files were only taken with their record in them, such a file is at the
path or in somebody's quarantine, where the second look spares it (`Restored`): two processes win together only while a
third has the file of one of them in quarantine, between its rename (`locks.ts:88`) and the rename back (98). Only a run
with three processes shows that window.

**Brain sync.** The refinement needs to know that equal generations of one chain are equal manifests. `History` says
so for every manifest a job has read (`ReadIsPast`), for every marker (`MarkerIsSeen`), and that whatever a push is
about to replace was merged or its marker's chain is gone (`Cleared`). `StoreInv` adds that object names are handed
out once (`Apart`, `Fresh`), that what a settled push deletes is not live (`Replaced`), that the draft is there before
it is published (`Uploaded`), that each attempt but the present one was overtaken (`Counted`), and
that what an unforced push finds undecided was brought by its own merges (`Decided`).

**Registry.** Unless `robbed`, a process inside has its name in the lock (`Owned`), so the others have nothing to write
and what a process computed from a file is still about that file (`Clean`, `Kept`). `AllFounded` holds however the
lock is lost, because every plan that is written comes from one plan by one operation, and a retry takes back all
that depends on the failed step. `RulesKept` adds that an open attempt with more
rules than interrupted conversions is about to be marked.

**Office.** `Alone`: without another process's drain one drain is active at a time, and a task that is not taken, or
just taken, was not launched. `Tidy`: what each place in a run may have open. `Halts`: an agent parked at rest is barred
and no drain is past its load; one that failed is barred as soon as its drain, the only one, is on its way out.

**Mesh.** `Accounted` is nearly inductive: it needs that a drain does not hold what it has read (`HeldApart`) and that
what was addressed is on the bus, so that nothing is sent twice (`AddressedOnBus`). `ClaimsInv` says what makes
concurrent checks and sweeps harmless: a heartbeat about to be written is recent (`BeatsAlive`), a collector holds no
file of a session that was alive ever since (`HeldIsIdle`), what a session was told counts while it is listed
(`Trusted`), of two with a claim one knows or is about to (`OneIsAware`), and what a collector saw expired stays so,
because a claim is renewed under another identity (`ExpiredStay`). A check that began before its session released its
claim and claimed again does not count for the new one: its list may be older than the other's claim.

**Savings.** `Known` says where a writer is with respect to its line, `Locks` that a writer that did not lose its lock
finds its file at the path. `NoneCountedTwice` is not inductive: a writer whose line is in the log and that has not yet
read the summary will count one more. `Counted` leaves room for it: the summary is within the lines of the writers that
are not about to load it, and one more for each writer that a rebuild crossed.

**Daemon.** A live daemon has the lock unless it was reaped (`Owned`). A starter that removes a lock has not spawned its
own daemon yet (`Unborn`), so every live owner of what it removes is another and is counted as reaped.

**Only model-checked:** the liveness properties, which are `TransitionsEnd`, both `NoPermanentVeto`, `AskedIsServed`,
`LagIsMended`, `AppendsReturn` and `StartGetsOne`. Liveness and ENABLED are beyond this version of the proof system, and
so is induction over data; no recursion is needed here, as `ToReset` is a least closed set. `NeverDropsUnseen` is
false, as brain_reset shows.

## 6. Observations

Met while modelling, and not the subject of a violation run. Where a property has an exception, the exception is one of
these.

Proxy:
- `reconcile.ts:97`: `lease_installing` with a foreign route clears the lease and stays in its phase; when the
  foreign value leaves, the route is written without a lease to promote.
- `reconcile.ts:156-160`: the rollback row of an enable clears the transition and keeps the lease (no current writer
  persists that phase; nor `bootstrap_pending` or `route_verified`).
- `reconcile.ts:209`: a confirmed drain whose generation is dead does not clear the draining marker by itself.
  If the write of the record fails after the listener was stopped, the next pass takes this branch and a disabled proxy
  at rest keeps the marker; `RestIsClean` is claimed where writes succeed.
- `supervise.ts:211`: boot recovery that throws leaves the bound listener without a monitor (`sup.pc = "zombie"`).
- `proxy-route.ts:94`: an edit between the guard's read and the write is overwritten; `OverwritesOnlyWhatItRead`
  says that nothing else is.
- `control.ts:203-208`: uninstall reads "disabled" without the lock; a start in between persists its enable, and the job
  is booted out all the same.
- `launchagent.ts:176`: a start takes a loaded job for a running one. After a confirmed drain the supervisor has
  exited 0 (`supervise.ts:141`) and launchd does not restart it, so the enable waits for the next reboot; the design
  (2026-07-02-persistent-proxy-routing-design.md:714) expects a start to bring it back.

Transition lock:
- `locks.ts:120` against `locks.ts:72-74` ("two contenders never both win"): a contender that reads the file between its
  exclusive creation and its record takes it for a corrupt one and renames it away. If the record is still missing at
  the second look, both hold the lock. If it is there by then, the owner's file is put back, but until then
  (`locks.ts:88-98`) the path is free, and a third process may win beside the owner. Neither needs a fault.
- `refreshLease` has no caller.

Brain sync:
- `sync.ts:172`: if the client library repeats a conditional put whose answer was lost, the second is refused and push
  deletes the object the live manifest names (`Resend`; `LiveObjectPresent` is stated without it).
- A bundle carries its time of export, so two exports never hash alike and push's "up-to-date" answer does not occur
  from the CLI: every push makes a generation.
- `ops.ts:20-24`: what a push merges in its own read, after the guard looked, is a suggestion its bundle leaves out; the
  push only warns. `job.imported` holds these memories, and `PushKeepsUndecided` says that nothing else is left out.
- A memory that is a local draft (not an import) on one machine and approved on another is not counted by the guard,
  and an unforced push of the first drops it from the store, as its bundle holds approved memories only.
- `config.ts:74-92`: a contended lock makes the marker's update a silent no-op (the slip "contended").
- `transport.ts:113`: the local directory's put compares the etag and then writes; two machines on one shared directory
  may both pass the comparison.
- The GUI's brain-sync route reports success without syncing.

Registry:
- A cyclic plan is accepted (the schema only refuses a step that depends on itself), and its steps are never offered;
  2026-06-12-phase6-task-engine-design.md:374-379 calls that state unreachable. `PlannedOffersWork` is about acyclic
  graphs.
- A lock whose pid is not yet written is judged stale, and any lock is removed by name: the ways to be `robbed`.

Office:
- A pause or a stop during a run is undone by the settle, which writes back the agent it read before
  (`supervisor.ts:217`), so that the next task starts; 2026-06-22-agent-office-phase3-bridge-design.md:48-50 calls the
  refusal of new tasks "the effective guarantee" of a pause. `HaltIsKept` asks that the agent was at rest. A deletion during a
  run is undone in the same way.
- After a crash the agent's file says "working"; `handleRunAgent` then returns at once (`office.ts:362-363`), and nothing
  is scheduled until somebody pauses and resumes it.
- The write of the working agent (`supervisor.ts:114`) is outside the try: if it fails, the task stays "running".
- A task that is done becomes "failed" when a later write of the same run fails.
- A run from the command line and one of the bridge may launch the same task.

Mesh (2026-08-06-session-mesh-design.md):
- Lines 129-130, "overflow stays queued": a hook drains the whole inbox, shows five at most and drops the rest
  (`guard-run.ts:159-161`); `Mailbox` promises at most once.
- `guard-run.ts:200-203` keeps mesh text on a deny; the fence's deny (407-423) answers without it, after the drain.
- Line 61, "Claims refresh with heartbeat": they do not, and a refresh in place would let the collector remove a live
  claim (the mutant of `ClaimsLastTheirTime`). Line 113, "drop inboxes of dead sessions", is not done.
- Once its presence file is gone a session's heartbeat does nothing; a session that was idle for more than ten minutes
  checks for conflicts before the heartbeat that makes it listed again.
- A drain that dies leaves `.claim-*.tmp` files nobody reads; lines appended inside a rotation of the bus are lost.

Savings:
- A rebuild takes no lock. One that lands between a writer's line (`store.ts:487`) and its load (491) counts the event
  twice, and the sweep repairs only a summary that is too low (340; the comment at 494-496 calls the summary
  self-healing). `crossed` holds the writers it happened to: one count too many each, and no more.
- Writers without the lock may write one event twice (`loose`).
- `resetOverlayOnDisable` has no caller, and the sweep would undo it.

Daemon:
- 2026-06-25-context-daemon-design.md:185, "concurrent first-client spawn does not start two daemons": a starter removes
  the lock whosever it is, so the second may take it from the first's live daemon (`reaped`).
- A daemon that closes removes the advertisement of a newer one (`hidden`). After `/shutdown` the lock file stays.
  A daemon that needs more than 1.5 s for a ping is replaced. Replaced daemons are never stopped.
- `getDaemon` is called by tests only; the GUI bridge mirrors it.

## 7. Not modelled

Proxy control: runtime.json telemetry; a corrupt control.json (every write is an atomic rename); re-stamping of
`installedAt` in the lease. `ProxyControl` takes the lock as exclusive but for `LeaseExpires`; the window that
`TransitionLock` shows is not in it. Transition lock: a rename back that fails.

Brain sync: init, join and status, encryption, rules and failures (never suggested, never held back), the local
directory's check-then-write put (a development transport), two commands of one machine at once, the supersession
that approving a memory may cause.

Registry: creations and updates of projects, memories, rules and tools, which have the same shape under the same lock;
`setMemoryValidation`, which takes none. Office: roles, transcripts, the session a retry resumes, `runWorkspace`'s pool
over several agents (each agent's queue is the one modelled). Mesh: asks (delivered like any message; their rate limit
is a check and then a record), the quarantine of unreadable files, the overlap of paths, more than one heartbeat of a
session at a time, two rotations of the bus in one millisecond (`gc.ts:153-154` names archives by time; `Rotate` takes
the names as distinct). Savings: the totals other than the number of events, rows of rewritten commands, the registry's own
ledgers.

The components marked "no" in section 1 are left out for the reasons given there. Most of the repository's lines are
functions of text or of one snapshot (policies, filters, rankings, parsers, connectors), presentation (CLI, GUI) and
data tables: they keep no state between calls that another process could disturb. The map covers about 3% of the
implementation for that reason. Of the file protocols that do, long memory's quota ledger is the large one left; the
evidence ledger's pins and revocations are exercised by tests only.
