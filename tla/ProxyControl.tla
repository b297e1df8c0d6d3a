---------------------------- MODULE ProxyControl ----------------------------
(***************************************************************************)
(* The persistent proxy: one supervisor process (`mega proxy supervise`),  *)
(* the CLI and GUI processes that persist the operator's commands, the     *)
(* LaunchAgent that starts the supervisor, and the Claude settings file    *)
(* whose ANTHROPIC_BASE_URL is the route.  Everybody shares control.json   *)
(* under the transition lock (see TransitionLock for the lock itself);     *)
(* the settings file is shared, without a lock, with the operator's        *)
(* editor and with Claude Code.                                            *)
(*                                                                         *)
(* A step is what happens between two accesses to shared files.  Two       *)
(* consecutive inspections of the route with nothing in between are one    *)
(* step, and so are a write of control.json and the inspection after it.   *)
(***************************************************************************)
EXTENDS ProxyReconcile, FiniteSets

CONSTANTS
  Clients,            \* CLI and GUI processes
  Faults,             \* the faults this instance may suffer
  MaxEdits,           \* bound: edits of the settings file by other programs
  MaxCommands,        \* bound: commands the operator issues
  MaxFaults,          \* bound: faults
  MaxReconcileSteps,  \* MAX_RECONCILE_STEPS
  MaxDriveSteps       \* MAX_DRIVE_STEPS

FaultKinds == {"crash", "signal", "reboot", "io", "suspend", "port"}
Commands == {"start", "restart", "stop", "confirm", "uninstall"}

ASSUME ClientsAssumption == {"free", "supervisor"} \cap Clients = {}
ASSUME FaultsAssumption == Faults \subseteq FaultKinds
ASSUME BoundsAssumption ==
  /\ MaxEdits \in Nat /\ MaxCommands \in Nat /\ MaxFaults \in Nat
  /\ MaxReconcileSteps \in Nat /\ MaxDriveSteps \in Nat

VARIABLES
  control,   \* control.json
  route,     \* ANTHROPIC_BASE_URL in the settings file, relative to our url
  listener,  \* is the supervisor's listener up?
  job,       \* the LaunchAgent: unloaded, due (to be launched), running, dormant
  lock,      \* who holds transition.lock
  sup,       \* the supervisor process: its program counter and its locals
  client,    \* the CLI and GUI processes
  budget,    \* edits, commands and faults left
  acked,     \* history: the desired state of the last command that succeeded
  stale      \* history: the settings were edited since the supervisor read them

vars == <<control, route, listener, job, lock, sup, client, budget, acked, stale>>

SupPcs == {"down", "boot", "idle", "loop", "act", "settings", "commit",
           "failed", "record", "zombie"}
Modes == {"recover", "drive", "heal", "reapply", "block"}
ClientPcs == {"idle", "enter", "write", "kick", "bootout"}

\* The supervisor's locals while it is outside its critical section.
SupAt(pc) ==
  [pc |-> pc, mode |-> "drive", n |-> 0, seen |-> Disabled, next |-> Disabled,
   acts |-> <<>>, block |-> "none", error |-> "none", after |-> "stop",
   last |-> "none", before |-> "absent"]

SupStates ==
  [pc : SupPcs, mode : Modes, n : Nat, seen : ControlStates, next : ControlStates,
   acts : Seq(ReconcileActions), block : Blocks, error : Errors,
   after : {"again", "stop", "progress"}, last : {"none", "apply", "remove"},
   before : Routes]

ClientStates == [pc : ClientPcs, op : Commands, seen : ControlStates]

TypeOK ==
  /\ control \in ControlStates
  /\ route \in Routes
  /\ listener \in BOOLEAN
  /\ job \in {"unloaded", "due", "running", "dormant"}
  /\ lock \in {"free", "supervisor"} \cup Clients
  /\ sup \in SupStates
  /\ client \in [Clients -> ClientStates]
  /\ budget \in [edits : Nat, commands : Nat, faults : Nat]
  /\ acked \in BOOLEAN
  /\ stale \in BOOLEAN

ClientIdle == [pc |-> "idle", op |-> "start", seen |-> Disabled]

Init ==
  /\ control = Disabled
  /\ route \in Routes
  /\ listener = FALSE
  /\ job = "unloaded"
  /\ lock = "free"
  /\ sup = SupAt("down")
  /\ client = [c \in Clients |-> ClientIdle]
  /\ budget = [edits |-> MaxEdits, commands |-> MaxCommands, faults |-> MaxFaults]
  /\ acked = FALSE
  /\ stale = FALSE

operatorVars == <<client, budget, acked>>
worldVars    == <<route, listener, job>>

-----------------------------------------------------------------------------
(* The supervisor: launch, boot recovery, ticks                            *)

\* launchd runs the job: the listener binds, the monitor is not started yet.
Launch ==
  /\ job = "due"
  /\ job' = "running"
  /\ listener' = TRUE
  /\ sup' = SupAt("boot")
  /\ UNCHANGED <<control, route, lock, stale, operatorVars>>

\* Boot recovery runs under the lock; if a client holds it, it is skipped.
Boot ==
  /\ sup.pc = "boot"
  /\ IF lock = "free"
     THEN /\ lock' = "supervisor"
          /\ sup' = [SupAt("loop") EXCEPT !.mode = "recover"]
     ELSE /\ lock' = lock
          /\ sup' = SupAt("idle")
  /\ UNCHANGED <<control, worldVars, stale, operatorVars>>

\* Mutant: a tick that does not ask for the lock.
TickUnlocked ==
  /\ sup.pc = "idle"
  /\ sup' = SupAt("loop")
  /\ UNCHANGED <<control, worldVars, lock, stale, operatorVars>>

\* A tick finds the lock free; a tick that finds it held is skipped.
Tick ==
  /\ sup.pc = "idle"
  /\ lock = "free"
  /\ lock' = "supervisor"
  /\ sup' = SupAt("loop")
  /\ UNCHANGED <<control, worldVars, stale, operatorVars>>

\* releaseLock removes the lock only when the fence token is still ours.
Released(holder) == IF lock = holder THEN "free" ELSE lock

Leave ==
  /\ lock' = Released("supervisor")
  /\ sup' = SupAt("idle")

\* The event loop of a supervisor whose listener closed has nothing left.
DrainedExit ==
  /\ sup.pc = "idle"
  /\ ~listener
  /\ job' = "dormant"
  /\ sup' = SupAt("down")
  /\ UNCHANGED <<control, route, listener, lock, stale, operatorVars>>

-----------------------------------------------------------------------------
(* One pass of runStartupRecovery or superviseDrive                        *)

Bootstrapping ==
  /\ sup.mode = "drive"
  /\ control.desired
  /\ control.transition \in {EnableAt("intent_persisted"), EnableAt("bootstrap_pending")}

Observed ==
  [route |-> route, health |-> IF listener THEN "matching" ELSE "none",
   hasLease |-> control.lease # "none", generationLive |-> listener,
   confirmed |-> control.transition.kind = "drain_complete"]

\* The early returns at the top of the loops: nothing to recover, nothing to
\* monitor, the listener not up yet, or the step cap.
PassOver ==
  /\ sup.pc = "loop"
  /\ \/ sup.mode = "recover" /\ sup.n = MaxReconcileSteps
     \/ sup.mode = "recover" /\ control.transition = NoTransition
     \/ sup.mode = "drive" /\ sup.n = MaxDriveSteps
     \/ Bootstrapping /\ ~listener
     \/ /\ sup.mode = "drive"
        /\ control.transition = NoTransition
        /\ \/ control.lease = "none"
           \/ route = "exact" /\ ~listener
  /\ Leave
  /\ UNCHANGED <<control, worldVars, stale, operatorVars>>

StepsLeft == sup.n < IF sup.mode = "recover" THEN MaxReconcileSteps ELSE MaxDriveSteps

\* enable@intent/bootstrap -> listener_healthy once our listener answers.
AdvanceBootstrap ==
  /\ sup.pc = "loop"
  /\ StepsLeft
  /\ Bootstrapping
  /\ listener
  /\ sup' = [sup EXCEPT !.pc = "commit", !.seen = control, !.after = "again",
                        !.next = [control EXCEPT !.transition = EnableAt("listener_healthy")]]
  /\ UNCHANGED <<control, worldVars, lock, stale, operatorVars>>

\* Observe the world and ask the matrix.
Decide ==
  /\ sup.pc = "loop"
  /\ StepsLeft
  /\ control.transition # NoTransition
  /\ ~Bootstrapping
  /\ LET decision  == ReconcileTransition(control.transition, Observed, control.desired)
         advancing == sup.mode = "drive" /\ control.transition = EnableAt("listener_healthy")
     IN sup' = [sup EXCEPT
                  !.pc = "act", !.seen = control, !.next = control,
                  !.acts = decision.actions, !.block = decision.block,
                  !.error = decision.error, !.last = "none", !.before = route,
                  !.after = IF ~advancing THEN "progress"
                           ELSE IF listener THEN "again" ELSE "stop"]
  /\ stale' = FALSE
  /\ UNCHANGED <<control, worldVars, lock, operatorVars>>

\* What monitorTick persists when the leased route is gone for good.
Drifted(c, seenRoute) ==
  [c EXCEPT !.lease = "none",
            !.blocked = IF seenRoute = "foreign" THEN "route_conflict" ELSE "route_removed",
            !.drain = IF listener THEN TRUE ELSE @]

\* monitorTick: heal an intact route, re-apply a lost one, else block.
Monitor ==
  /\ sup.pc = "loop"
  /\ sup.mode = "drive"
  /\ StepsLeft
  /\ control.transition = NoTransition
  /\ control.lease # "none"
  /\ ~(route = "exact" /\ ~listener)
  /\ LET locals == [sup EXCEPT !.seen = control, !.next = control, !.before = route,
                               !.after = "stop"]
     IN sup' = IF listener /\ route \in {"exact", "absent"}
               THEN [locals EXCEPT !.pc = "act", !.acts = <<"apply_route">>,
                                   !.mode = IF route = "exact" THEN "heal" ELSE "reapply"]
               ELSE [locals EXCEPT !.pc = "commit", !.mode = "block",
                                   !.next = Drifted(control, route)]
  /\ stale' = FALSE
  /\ UNCHANGED <<control, worldVars, lock, operatorVars>>

-----------------------------------------------------------------------------
(* Performing the actions of a decision                                    *)

NextAct(a) == sup.pc = "act" /\ sup.acts # <<>> /\ Head(sup.acts) = a
Done(s) == [s EXCEPT !.acts = Tail(s.acts)]

LocalActions == {"install_lease", "promote_lease", "clear_lease", "enter_drain",
                 "clear_transition", "resume_bootstrap"}

\* The actions that only change the control record being built.
Applied(c, a) ==
  CASE a = "install_lease"    -> [c EXCEPT !.lease = "installing"]
    [] a = "promote_lease"    -> [c EXCEPT !.lease = IF @ = "none" THEN @ ELSE "active"]
    [] a = "clear_lease"      -> [c EXCEPT !.lease = "none"]
    [] a = "enter_drain"      -> [c EXCEPT !.drain = TRUE]
    [] a = "clear_transition" -> [c EXCEPT !.transition = NoTransition]
    [] a = "resume_bootstrap" -> c

ActLocally ==
  /\ \E a \in LocalActions :
       /\ NextAct(a)
       /\ sup' = [Done(sup) EXCEPT !.next = Applied(sup.next, a)]
  /\ UNCHANGED <<control, worldVars, lock, stale, operatorVars>>

\* Mutant: apply without its value guard.
ReadSettingsUnguarded ==
  /\ NextAct("apply_route") \/ NextAct("remove_route")
  /\ sup' = [Done(sup) EXCEPT !.pc = "settings",
                        !.last = IF NextAct("apply_route") THEN "apply" ELSE "remove"]
  /\ stale' = FALSE
  /\ UNCHANGED <<control, worldVars, lock, operatorVars>>

\* apply and removeExpected read the settings, and give up when the value
\* guard refuses (or, for apply, when the environment is already as desired).
ReadSettings ==
  /\ \/ /\ NextAct("apply_route")
        /\ \/ /\ route \in {"absent", "exact"}
              /\ sup' = [Done(sup) EXCEPT !.pc = "settings", !.last = "apply"]
           \/ /\ route # "absent"
              /\ sup' = [Done(sup) EXCEPT !.last = "apply"]
     \/ /\ NextAct("remove_route")
        /\ sup' = IF route = "exact"
                  THEN [Done(sup) EXCEPT !.pc = "settings", !.last = "remove"]
                  ELSE [Done(sup) EXCEPT !.last = "remove"]
  /\ stale' = FALSE
  /\ UNCHANGED <<control, worldVars, lock, operatorVars>>

\* ... and write the whole file back.
WriteSettings ==
  /\ sup.pc = "settings"
  /\ route' = IF sup.last = "apply" THEN "exact" ELSE "absent"
  /\ sup' = [sup EXCEPT !.pc = "act"]
  /\ UNCHANGED <<control, listener, job, lock, stale, operatorVars>>

\* A failed read-back drops the remaining actions and blocks.
VerifyRoute ==
  /\ NextAct("verify_route")
  /\ sup' = IF (route = "exact") = (sup.last # "remove")
            THEN Done(sup)
            ELSE IF route = "absent"
            THEN [sup EXCEPT !.acts = <<>>, !.block = "route_removed",
                             !.error = "runtime_failed"]
            ELSE [sup EXCEPT !.acts = <<>>, !.block = "route_conflict",
                             !.error = "route_conflict"]
  /\ stale' = FALSE
  /\ UNCHANGED <<control, worldVars, lock, operatorVars>>

\* Mutant: the draining marker survives the listener.
StopListenerMarked ==
  /\ NextAct("stop_listener")
  /\ listener' = FALSE
  /\ sup' = Done(sup)
  /\ UNCHANGED <<control, route, job, lock, stale, operatorVars>>

StopListener ==
  /\ NextAct("stop_listener")
  /\ listener' = FALSE
  /\ sup' = [Done(sup) EXCEPT !.next.drain = FALSE]
  /\ UNCHANGED <<control, route, job, lock, stale, operatorVars>>

\* The record applyDecision returns: blocks and errors, and their reset when
\* this step cleared the transition without either.
Concluded ==
  LET clean == sup.next.transition = NoTransition /\ sup.block = "none" /\ sup.error = "none"
      base  == [sup.next EXCEPT
                 !.blocked = IF sup.block # "none" THEN sup.block
                             ELSE IF clean THEN "none" ELSE @,
                 !.error = IF sup.error # "none" THEN sup.error
                           ELSE IF clean THEN "none" ELSE @]
  IN IF sup.after = "again" /\ base.transition # NoTransition
     THEN [base EXCEPT !.transition = EnableAt("lease_installing")]
     ELSE base

\* All actions done: the drive prepares its write, the monitor looks once more.
Conclude ==
  /\ sup.pc = "act"
  /\ sup.acts = <<>>
  /\ \/ /\ sup.mode \in {"recover", "drive"}
        /\ sup' = [sup EXCEPT !.pc = "commit", !.next = Concluded]
        /\ lock' = lock
     \/ /\ sup.mode = "heal" \/ (sup.mode = "reapply" /\ route = "exact")
        /\ Leave
     \/ /\ sup.mode = "reapply" /\ route # "exact"
        /\ sup' = [sup EXCEPT !.pc = "commit", !.mode = "block",
                              !.next = Drifted(sup.seen, sup.before)]
        /\ lock' = lock
  /\ UNCHANGED <<control, worldVars, stale, operatorVars>>

\* Same lease, drain and transition on disk, same route in the settings.
Progressed ==
  \/ sup.seen.lease # sup.next.lease
  \/ sup.seen.drain # sup.next.drain
  \/ sup.seen.transition # sup.next.transition
  \/ route # sup.before

LoopsAgain ==
  \/ sup.after = "again"
  \/ sup.after = "progress" /\ Progressed
       /\ (sup.mode = "drive" => sup.next.transition # NoTransition)

Commit ==
  /\ sup.pc = "commit"
  /\ control' = sup.next
  /\ IF LoopsAgain
     THEN /\ sup' = [SupAt("loop") EXCEPT !.mode = sup.mode, !.n = sup.n + 1]
          /\ lock' = lock
     ELSE Leave
  /\ UNCHANGED <<worldVars, stale, operatorVars>>

\* An exception that escaped a tick is recorded after the lock is released.
RecordRead ==
  /\ sup.pc = "failed"
  /\ sup' = [sup EXCEPT !.pc = "record", !.seen = control]
  /\ UNCHANGED <<control, worldVars, lock, stale, operatorVars>>

RecordWrite ==
  /\ sup.pc = "record"
  /\ control' = [sup.seen EXCEPT !.error = "runtime_failed"]
  /\ sup' = SupAt("idle")
  /\ UNCHANGED <<worldVars, lock, stale, operatorVars>>

Supervisor ==
  \/ Launch \/ Boot \/ Tick \/ PassOver \/ AdvanceBootstrap \/ Decide \/ Monitor
  \/ ActLocally \/ ReadSettings \/ WriteSettings \/ VerifyRoute \/ StopListener
  \/ Conclude \/ Commit \/ RecordRead \/ RecordWrite

-----------------------------------------------------------------------------
(* The CLI and the GUI                                                     *)

ToClient(c, changes) == client' = [client EXCEPT ![c] = changes]

\* ensureManagedService installs and bootstraps an unloaded job; a loaded
\* managed job is left as it is.  A stop goes straight to the lock.
Issue(c, op) ==
  /\ client[c].pc = "idle"
  /\ budget.commands > 0
  /\ op \in {"start", "restart", "stop", "confirm"}
  /\ budget' = [budget EXCEPT !.commands = @ - 1]
  /\ LET installs == op \in {"start", "restart"} /\ job = "unloaded"
     IN /\ job' = IF installs THEN "due" ELSE job
        /\ ToClient(c, [ClientIdle EXCEPT !.pc = "enter",
                                          !.op = IF installs THEN "start" ELSE op])
  /\ UNCHANGED <<control, route, listener, lock, sup, acked, stale>>

\* Mutant: a command that does not ask for the lock.
EnterUnlocked(c) ==
  /\ client[c].pc = "enter"
  /\ ToClient(c, [client[c] EXCEPT !.pc = "write", !.seen = control])
  /\ UNCHANGED <<control, worldVars, lock, sup, budget, acked, stale>>

Enter(c) ==
  /\ client[c].pc = "enter"
  /\ lock = "free"
  /\ lock' = c
  /\ ToClient(c, [client[c] EXCEPT !.pc = "write", !.seen = control])
  /\ UNCHANGED <<control, worldVars, sup, budget, acked, stale>>

\* A live holder: the command reports transition_in_progress.
Refused(c) ==
  /\ client[c].pc = "enter"
  /\ lock # "free"
  /\ ToClient(c, ClientIdle)
  /\ UNCHANGED <<control, worldVars, lock, sup, budget, acked, stale>>

Starts(op) == op \in {"start", "restart"}

\* Mutant: a stop simply drops an enable that is in flight.
CommandedAtOnce(seen, op) ==
  IF Starts(op)
  THEN [seen EXCEPT !.desired = TRUE, !.drain = FALSE,
                    !.transition = EnableAt("intent_persisted")]
  ELSE [seen EXCEPT !.desired = FALSE,
                    !.transition = IF @.kind = "enable" THEN NoTransition
                                   ELSE IF op = "confirm" THEN DrainConfirmed ELSE Unroute]

Commanded(seen, op) ==
  IF Starts(op)
  THEN [seen EXCEPT !.desired = TRUE, !.drain = FALSE,
                    !.transition = EnableAt("intent_persisted")]
  ELSE [seen EXCEPT !.desired = FALSE,
                    !.transition = IF op = "confirm" THEN DrainConfirmed ELSE Unroute]

WriteCommand(c) ==
  /\ client[c].pc = "write"
  /\ control' = Commanded(client[c].seen, client[c].op)
  /\ acked' = Starts(client[c].op)
  /\ lock' = Released(c)
  /\ ToClient(c, IF client[c].op = "restart" THEN [client[c] EXCEPT !.pc = "kick"]
                 ELSE ClientIdle)
  /\ UNCHANGED <<worldVars, sup, budget, stale>>

\* The supervisor process dies; launchd gives the job this state.
SupervisorDies(state) ==
  /\ listener' = FALSE
  /\ job' = state
  /\ sup' = SupAt("down")

\* --restart-supervisor: `launchctl kickstart -k`, refused by an unloaded job.
Kickstart(c) ==
  /\ client[c].pc = "kick"
  /\ ToClient(c, ClientIdle)
  /\ IF job = "unloaded"
     THEN UNCHANGED <<listener, job, sup, lock>>
     ELSE SupervisorDies("due") /\ lock' = Released("supervisor")
  /\ UNCHANGED <<control, route, budget, acked, stale>>

\* service uninstall reads control.json without the lock ...
IssueUninstall(c) ==
  /\ client[c].pc = "idle"
  /\ budget.commands > 0
  /\ budget' = [budget EXCEPT !.commands = @ - 1]
  /\ IF control.desired \/ control.lease # "none" \/ control.transition # NoTransition
     THEN client' = client
     ELSE ToClient(c, [ClientIdle EXCEPT !.pc = "bootout", !.op = "uninstall"])
  /\ UNCHANGED <<control, worldVars, lock, sup, acked, stale>>

\* ... and boots the managed job out (SIGTERM: a tick runs to its end first).
Bootout(c) ==
  /\ client[c].pc = "bootout"
  /\ sup.pc \in {"down", "boot", "idle", "zombie"}
  /\ ToClient(c, ClientIdle)
  /\ SupervisorDies("unloaded")
  /\ UNCHANGED <<control, route, lock, budget, acked, stale>>

Operator(c) ==
  \/ \E op \in Commands : Issue(c, op)
  \/ Enter(c) \/ Refused(c) \/ WriteCommand(c) \/ Kickstart(c)
  \/ IssueUninstall(c) \/ Bootout(c)

-----------------------------------------------------------------------------
(* Other programs and faults                                               *)

\* The operator's editor, or Claude Code, rewrites the settings file.
Edit(value) ==
  /\ budget.edits > 0
  /\ value # route
  /\ budget' = [budget EXCEPT !.edits = @ - 1]
  /\ route' = value
  /\ stale' = TRUE
  /\ UNCHANGED <<control, listener, job, lock, sup, client, acked>>

Fault(kind) ==
  /\ kind \in Faults
  /\ budget.faults > 0
  /\ budget' = [budget EXCEPT !.faults = @ - 1]

\* A killed supervisor is relaunched, its lock has a dead owner.
Crash ==
  /\ Fault("crash")
  /\ sup.pc # "down"
  /\ SupervisorDies("due")
  /\ lock' = Released("supervisor")
  /\ UNCHANGED <<control, route, client, acked, stale>>

ClientCrash(c) ==
  /\ Fault("crash")
  /\ client[c].pc # "idle"
  /\ ToClient(c, ClientIdle)
  /\ lock' = Released(c)
  /\ UNCHANGED <<control, worldVars, sup, acked, stale>>

\* SIGTERM or SIGINT: stop our listener, exit 0, stay down until next login.
Signal ==
  /\ Fault("signal")
  /\ sup.pc = "idle"
  /\ SupervisorDies("dormant")
  /\ UNCHANGED <<control, route, lock, client, acked, stale>>

\* All processes die; RunAtLoad starts the supervisor at the next login.
Reboot ==
  /\ Fault("reboot")
  /\ SupervisorDies(IF job = "unloaded" THEN job ELSE "due")
  /\ lock' = "free"
  /\ client' = [c \in Clients |-> ClientIdle]
  /\ UNCHANGED <<control, route, acked, stale>>

\* The port stays taken: the new supervisor exits 0 without a monitor.
PortInUse ==
  /\ Fault("port")
  /\ job = "due"
  /\ job' = "dormant"
  /\ UNCHANGED <<control, route, listener, lock, sup, client, acked, stale>>

\* A write of the settings or of control.json throws.  A tick catches it; boot
\* recovery does not, and leaves the bound listener without a monitor.
WriteFails ==
  /\ Fault("io")
  /\ sup.pc \in {"settings", "commit"}
  /\ lock' = Released("supervisor")
  /\ sup' = SupAt(IF sup.mode = "recover" THEN "zombie" ELSE "failed")
  /\ UNCHANGED <<control, worldVars, client, acked, stale>>

RecordFails ==
  /\ Fault("io")
  /\ sup.pc = "record"
  /\ sup' = SupAt("idle")
  /\ UNCHANGED <<control, worldVars, lock, client, acked, stale>>

\* The machine sleeps past the 15 s lease: the lock is anybody's.
LeaseExpires ==
  /\ Fault("suspend")
  /\ lock # "free"
  /\ lock' = "free"
  /\ UNCHANGED <<control, worldVars, sup, client, acked, stale>>

Environment ==
  \/ \E value \in Routes : Edit(value)
  \/ Crash \/ Signal \/ Reboot \/ PortInUse \/ WriteFails \/ RecordFails \/ LeaseExpires
  \/ \E c \in Clients : ClientCrash(c)
  \/ DrainedExit

Next == Supervisor \/ (\E c \in Clients : Operator(c)) \/ Environment

Spec == Init /\ [][Next]_vars

\* launchd, the timer and an invoked command all make progress; the operator
\* and the faults owe nothing.
FairSpec ==
  /\ Spec
  /\ WF_vars(Supervisor)
  /\ \A c \in Clients :
       WF_vars(Enter(c) \/ Refused(c) \/ WriteCommand(c) \/ Kickstart(c) \/ Bootout(c))
-----------------------------------------------------------------------------
(* Safety.                                                                 *)

\* What the last start or stop that reported success asked for is what is on
\* disk: no writer of control.json resurrects an older desired state
\* (withTransitionLock around every read-modify-write).
CommandsAreDurable == control.desired = acked

\* A disabled proxy with nothing in flight holds no lease: the monitor, which
\* re-applies a lost route whenever there is a lease, cannot bring back a route
\* the operator disabled, and uninstall is not blocked by a forgotten lease.
DisabledIsUnleased ==
  control.transition = NoTransition /\ ~control.desired => control.lease = "none"

\* At rest the record tells the truth about the drift and the drain that ended:
\* a proxy with a lease is not reported as blocked (applyDecision resets an old
\* block when it clears the transition), and a disabled one carries no draining
\* marker (every way to finish a drain stops the listener first).
RestIsClean ==
  control.transition = NoTransition =>
    /\ control.lease # "none" => control.blocked = "none"
    /\ ~control.desired => ~control.drain

-----------------------------------------------------------------------------
(* What a step may never do.                                               *)

RouteWritten == WriteSettings /\ route' # route

\* The supervisor never creates a route while the last successful command was
\* a stop, whatever it had observed before.
StoppedIsNotRouted == [][RouteWritten /\ route' = "exact" => acked]_vars

\* It only replaces an absent or exact value, unless somebody edited the
\* settings after the value guard read them.
OverwritesOnlyWhatItRead ==
  [][RouteWritten => stale \/ route \in {"absent", "exact"}]_vars

\* The listener is not stopped by a pass while the route points at it, unless
\* the route appeared after the pass looked.
StopsOnlyUnrouted == [][StopListener => stale \/ route # "exact"]_vars
-----------------------------------------------------------------------------
(* Progress.  A supervisor that left cleanly stays away until the next     *)
(* login, so everything below is owed only while launchd keeps it running. *)

Serving == job \in {"due", "running"} /\ sup.pc # "zombie"

\* A disabled proxy gives up its lease, and the leased route with it, unless it
\* is enabled again or the settings stay unreadable (reconcileDisable).
DisableUnleases ==
  ~control.desired ~>
    \/ control.lease = "none" \/ control.desired \/ ~Serving
    \/ [](route = "invalid")

\* A confirmed drain ends with the listener stopped and the transition cleared,
\* unless a route it may not remove still points at the listener.
DrainCompletes ==
  control.transition = DrainConfirmed ~>
    \/ control.transition # DrainConfirmed \/ ~Serving
    \/ [](route \in {"invalid", "exact"})

\* An enable reaches its end, route written and verified or drift reported,
\* unless the settings stay foreign or unreadable, or the listener is gone.
EnableEnds ==
  control.transition.kind = "enable" ~>
    \/ control.transition.kind # "enable" \/ ~Serving \/ ~listener
    \/ [](route \in {"invalid", "foreign"})

\* Whatever an operator asked of a supervisor that goes on comes to its end
\* (the ticks of superviseDrive).
TransitionsEnd == DisableUnleases /\ DrainCompletes /\ EnableEnds
=============================================================================
