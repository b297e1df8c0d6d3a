------------------------- MODULE ProxyControl_proofs -------------------------
(***************************************************************************)
(* The proxy's theorems: type correctness; what no fault can break (the    *)
(* matrix's promises, the value guard of the settings, the listener that   *)
(* is not stopped under a route); and, where writes succeed and no lock    *)
(* lease runs out, that no command is lost, that a disabled proxy keeps    *)
(* neither lease nor route, and that the record at rest tells the truth.   *)
(***************************************************************************)
EXTENDS ProxyMatrix, SequenceTheorems, TLAPS

-----------------------------------------------------------------------------
(* The matrix: what its decisions are made of                              *)

Decisions ==
  [actions : Seq(ReconcileActions), block : Blocks, error : Errors,
   retain : BOOLEAN, ready : BOOLEAN]

\* The four ways a row builds its decision give a decision.
LEMMA BuildersType ==
  ASSUME NEW acts \in Seq(ReconcileActions), NEW block \in Blocks, NEW error \in Errors
  PROVE  /\ Retain(acts, error) \in Decisions
         /\ Fail(acts, block, error) \in Decisions
         /\ Finish(acts) \in Decisions
         /\ Complete(acts) \in Decisions
  BY DEF Retain, Fail, Finish, Complete, Quiet, Decisions, Blocks, Errors

\* What the builders put into the list of actions.
LEMMA BuildersActions ==
  ASSUME NEW acts, NEW block, NEW error
  PROVE  /\ Retain(acts, error).actions = acts
         /\ Fail(acts, block, error).actions = acts
         /\ Finish(acts).actions = acts
         /\ Complete(acts).actions = acts
  BY DEF Retain, Fail, Finish, Complete, Quiet

\* The value-guarded removal is a list of actions.
LEMMA RemoveIfLeasedType ==
  ASSUME NEW o PROVE RemoveIfLeased(o) \in Seq(ReconcileActions)
<1>1. <<"remove_route">> \in Seq(ReconcileActions) /\ <<>> \in Seq(ReconcileActions)
  BY DEF ReconcileActions
<1> QED
  BY <1>1 DEF RemoveIfLeased

\* Every row of an enable's rollback gives a decision.
LEMMA RollbackType ==
  ASSUME NEW o \in Observations
  PROVE  ReconcileEnableRollback(o) \in Decisions
<1>1. RemoveIfLeased(o) \o <<"clear_lease", "clear_transition">> \in Seq(ReconcileActions)
  BY RemoveIfLeasedType DEF ReconcileActions
<1>2. /\ <<"remove_route", "verify_route", "enter_drain", "clear_transition">>
            \in Seq(ReconcileActions)
      /\ <<"clear_lease", "enter_drain", "clear_transition">> \in Seq(ReconcileActions)
      /\ <<>> \in Seq(ReconcileActions)
  BY DEF ReconcileActions
<1>3. "none" \in Blocks /\ {"runtime_failed", "route_conflict"} \subseteq Errors
  BY DEF Blocks, Errors
<1> QED
  BY <1>1, <1>2, <1>3, BuildersType DEF ReconcileEnableRollback

\* Every row of enable@lease_installing gives a decision.
LEMMA LeaseInstallingType ==
  ASSUME NEW o \in Observations
  PROVE  ReconcileLeaseInstalling(o) \in Decisions
<1>1. RemoveIfLeased(o) \o <<"clear_lease">> \in Seq(ReconcileActions)
  BY RemoveIfLeasedType DEF ReconcileActions
<1>2. /\ <<"clear_lease">> \in Seq(ReconcileActions)
      /\ <<"verify_route", "promote_lease", "clear_transition">> \in Seq(ReconcileActions)
      /\ <<"apply_route", "verify_route", "promote_lease", "clear_transition">>
           \in Seq(ReconcileActions)
      /\ <<>> \in Seq(ReconcileActions)
  BY DEF ReconcileActions
<1>3. /\ {"route_conflict", "route_removed"} \subseteq Blocks
      /\ {"route_conflict", "healthcheck_failed", "settings_invalid"} \subseteq Errors
  BY DEF Blocks, Errors
<1>4. o.route \in Routes
  BY DEF Observations
<1> QED
  BY <1>1, <1>2, <1>3, <1>4, BuildersType DEF ReconcileLeaseInstalling, Routes

\* Every row of an enable gives a decision.
LEMMA EnableType ==
  ASSUME NEW phase \in EnablePhases, NEW o \in Observations, NEW d \in BOOLEAN
  PROVE  ReconcileEnable(phase, o, d) \in Decisions
<1>1. /\ <<"clear_transition">> \in Seq(ReconcileActions)
      /\ <<"resume_bootstrap">> \in Seq(ReconcileActions)
      /\ <<"install_lease">> \in Seq(ReconcileActions)
      /\ <<"stop_listener">> \in Seq(ReconcileActions)
  BY DEF ReconcileActions
<1>2. "none" \in Errors /\ "healthcheck_failed" \in Errors
  BY DEF Errors
<1> QED
  BY <1>1, <1>2, BuildersType, RollbackType, LeaseInstallingType DEF ReconcileEnable, EnablePhases, Blocks

\* Every row of a disable gives a decision.
LEMMA DisableType ==
  ASSUME NEW phase \in {"unroute_expected", "rollback"}, NEW o \in Observations
  PROVE  ReconcileDisable(phase, o) \in Decisions
<1>1. /\ <<"remove_route", "verify_route">> \in Seq(ReconcileActions)
      /\ <<"clear_lease", "enter_drain">> \in Seq(ReconcileActions)
      /\ <<"clear_lease", "clear_transition">> \in Seq(ReconcileActions)
      /\ <<>> \in Seq(ReconcileActions)
  BY DEF ReconcileActions
<1>2. {"none", "disable_failed", "settings_invalid", "route_conflict"} \subseteq Errors
  BY DEF Errors
<1>3. o.route \in Routes /\ o.hasLease \in BOOLEAN
  BY DEF Observations
<1> QED
  BY <1>1, <1>2, <1>3, BuildersType DEF ReconcileDisable, LeasedExact, Routes, Blocks

\* Every row of a confirmed drain gives a decision.
LEMMA DrainType ==
  ASSUME NEW o \in Observations
  PROVE  ReconcileDrain(o) \in Decisions
<1>1. /\ <<"remove_route", "verify_route">> \in Seq(ReconcileActions)
      /\ <<"clear_lease", "stop_listener", "clear_transition">> \in Seq(ReconcileActions)
      /\ <<"clear_lease", "clear_transition">> \in Seq(ReconcileActions)
      /\ <<>> \in Seq(ReconcileActions)
  BY DEF ReconcileActions
<1>2. {"none", "settings_invalid", "route_conflict"} \subseteq Errors
  BY DEF Errors
<1> QED
  BY <1>1, <1>2, BuildersType DEF ReconcileDrain, Blocks

\* Every transition and observation gets a decision (the matrix is total).
LEMMA MatrixType ==
  ASSUME NEW t \in Transitions, NEW o \in Observations, NEW d \in BOOLEAN
  PROVE  ReconcileTransition(t, o, d) \in Decisions
<1>1. CASE \E p \in EnablePhases : t = EnableAt(p)
  BY <1>1, EnableType DEF ReconcileTransition, EnableAt
<1>2. CASE t \in {Unroute, UnrouteRollback}
  BY <1>2, DisableType DEF ReconcileTransition, Unroute, UnrouteRollback
<1>3. CASE t = DrainConfirmed
  BY <1>3, DrainType DEF ReconcileTransition, DrainConfirmed
<1> QED
  BY <1>1, <1>2, <1>3 DEF Transitions

-----------------------------------------------------------------------------
(* Type correctness                                                        *)

\* A control record's fields, and that updating one keeps it a record.
LEMMA ControlFields ==
  ASSUME NEW c \in ControlStates
  PROVE  /\ \A l \in {"none", "installing", "active"} : [c EXCEPT !.lease = l] \in ControlStates
         /\ \A b \in BOOLEAN : [c EXCEPT !.drain = b] \in ControlStates
         /\ \A b \in Blocks : [c EXCEPT !.blocked = b] \in ControlStates
         /\ \A e \in Errors : [c EXCEPT !.error = e] \in ControlStates
         /\ \A t \in Transitions \cup {NoTransition} :
              [c EXCEPT !.transition = t] \in ControlStates
  BY DEF ControlStates

\* Every transition the programs construct is one the schema accepts.
LEMMA TransitionNames ==
  /\ \A p \in EnablePhases : EnableAt(p) \in Transitions
  /\ Unroute \in Transitions /\ UnrouteRollback \in Transitions
  /\ DrainConfirmed \in Transitions
  BY DEF Transitions

\* The record of a fresh store is one the schema accepts.
LEMMA DisabledType == Disabled \in ControlStates
  BY DEF Disabled, ControlStates, Blocks, Errors

\* Moving the supervisor to another step keeps the other locals.
LEMMA SupAtType ==
  ASSUME NEW pc \in SupPcs
  PROVE  SupAt(pc) \in SupStates
<1>1. <<>> \in Seq(ReconcileActions)
  OBVIOUS
<1> QED
  BY <1>1, DisabledType DEF SupAt, SupStates, Modes, Blocks, Errors, Routes

\* The initial states have the declared types.
LEMMA InitType == Init => TypeOK
<1> SUFFICES ASSUME Init PROVE TypeOK
  OBVIOUS
<1>1. SupAt("down") \in SupStates
  BY SupAtType DEF SupPcs
<1>2. ClientIdle \in ClientStates
  BY DisabledType DEF ClientIdle, ClientStates, ClientPcs, Commands
<1> QED
  BY <1>1, <1>2, DisabledType, BoundsAssumption DEF Init, TypeOK

\* Leaving the critical section.
LEMMA LeaveType ==
  ASSUME TypeOK, Leave
  PROVE  sup' \in SupStates /\ lock' \in {"free", "supervisor"} \cup Clients
<1>1. SupAt("idle") \in SupStates
  BY SupAtType DEF SupPcs
<1> QED
  BY <1>1 DEF Leave, Released, TypeOK

\* What a pass observes is an observation of the matrix.
LEMMA ObservedType == TypeOK => Observed \in Observations
  BY DEF TypeOK, Observed, Observations, Healths

\* What the monitor records of a drift is a record.
LEMMA DriftedType ==
  ASSUME NEW c \in ControlStates, NEW r
  PROVE  Drifted(c, r) \in ControlStates
<1>1. {"route_conflict", "route_removed"} \subseteq Blocks
  BY DEF Blocks
<1> QED
  BY <1>1 DEF Drifted, ControlStates

\* Taking the next action of a plan.
LEMMA DoneType ==
  ASSUME NEW s \in SupStates, s.acts # <<>>
  PROVE  Done(s) \in SupStates
<1>1. Tail(s.acts) \in Seq(ReconcileActions)
  BY DEF SupStates
<1> QED
  BY <1>1 DEF Done, SupStates

\* Every step of the supervisor keeps the types.
LEMMA SupervisorType ==
  ASSUME TypeOK, Supervisor
  PROVE  TypeOK'
<1> USE DEF TypeOK, worldVars, operatorVars
<1>1. CASE Launch
  BY <1>1, SupAtType DEF Launch, SupPcs
<1>2. CASE Boot
  <2>1. SupAt("idle") \in SupStates /\ SupAt("loop") \in SupStates
    BY SupAtType DEF SupPcs
  <2>2. [SupAt("loop") EXCEPT !.mode = "recover"] \in SupStates
    BY <2>1 DEF SupStates, Modes
  <2> QED
    BY <1>2, <2>1, <2>2 DEF Boot
<1>3. CASE Tick
  BY <1>3, SupAtType DEF Tick, SupPcs
<1>4. CASE PassOver
  BY <1>4, LeaveType DEF PassOver
<1>5. CASE AdvanceBootstrap
  <2>1. [control EXCEPT !.transition = EnableAt("listener_healthy")] \in ControlStates
    BY ControlFields, TransitionNames DEF EnablePhases
  <2> QED
    BY <1>5, <2>1 DEF AdvanceBootstrap, SupStates, SupPcs
<1>6. CASE Decide
  <2>1. ReconcileTransition(control.transition, Observed, control.desired) \in Decisions
    <3>1. control.transition \in Transitions /\ control.desired \in BOOLEAN
      BY <1>6 DEF Decide, ControlStates
    <3> QED
      BY <3>1, ObservedType, MatrixType
  <2>2. ASSUME NEW d \in Decisions, NEW after \in {"again", "stop", "progress"}
        PROVE  [sup EXCEPT !.pc = "act", !.seen = control, !.next = control,
                           !.acts = d.actions, !.block = d.block, !.error = d.error,
                           !.last = "none", !.before = route, !.after = after] \in SupStates
    <3>1. d.actions \in Seq(ReconcileActions) /\ d.block \in Blocks /\ d.error \in Errors
      BY DEF Decisions
    <3> QED
      BY <3>1 DEF SupStates, SupPcs
  <2>3. sup' \in SupStates
    BY <1>6, <2>1, <2>2 DEF Decide
  <2> QED
    BY <1>6, <2>3 DEF Decide
<1>7. CASE Monitor
  <2>1. Drifted(control, route) \in ControlStates
    BY DriftedType
  <2>2. <<"apply_route">> \in Seq(ReconcileActions)
    BY DEF ReconcileActions
  <2> DEFINE locals == [sup EXCEPT !.seen = control, !.next = control, !.before = route,
                                    !.after = "stop"]
  <2>3. locals \in SupStates
    BY DEF SupStates
  <2> HIDE DEF locals
  <2>4. ASSUME NEW mode \in Modes
        PROVE  [locals EXCEPT !.pc = "act", !.acts = <<"apply_route">>, !.mode = mode]
                 \in SupStates
    BY <2>2, <2>3 DEF SupStates, SupPcs
  <2>5. [locals EXCEPT !.pc = "commit", !.mode = "block", !.next = Drifted(control, route)]
          \in SupStates
    BY <2>1, <2>3 DEF SupStates, SupPcs, Modes
  <2>6. sup' \in SupStates
    BY <1>7, <2>4, <2>5 DEF Monitor, locals, Modes
  <2> QED
    BY <1>7, <2>6 DEF Monitor
<1>8. CASE ActLocally
  <2>1. PICK a \in LocalActions :
          NextAct(a) /\ sup' = [Done(sup) EXCEPT !.next = Applied(sup.next, a)]
    BY <1>8 DEF ActLocally
  <2>2. sup.next \in ControlStates
    BY DEF SupStates
  <2>3. Applied(sup.next, a) \in ControlStates
    <3>1. sup.next.lease \in {"none", "installing", "active"}
      BY <2>2 DEF ControlStates
    <3> QED
      BY <2>2, <3>1, ControlFields DEF LocalActions, Applied
  <2>4. Done(sup) \in SupStates
    BY <2>1, DoneType DEF NextAct
  <2>5. sup' \in SupStates
    BY <2>1, <2>3, <2>4 DEF SupStates
  <2> QED
    BY <1>8, <2>5 DEF ActLocally
<1>9. CASE ReadSettings
  <2>1. Done(sup) \in SupStates
    BY <1>9, DoneType DEF ReadSettings, NextAct
  <2>2. ASSUME NEW last \in {"apply", "remove"}
        PROVE  /\ [Done(sup) EXCEPT !.last = last] \in SupStates
               /\ [Done(sup) EXCEPT !.pc = "settings", !.last = last] \in SupStates
    BY <2>1 DEF SupStates, SupPcs
  <2>3. sup' \in SupStates
    BY <1>9, <2>2 DEF ReadSettings
  <2> QED
    BY <1>9, <2>3 DEF ReadSettings
<1>10. CASE WriteSettings
  <2>1. [sup EXCEPT !.pc = "act"] \in SupStates
    BY DEF SupStates, SupPcs
  <2>2. route' \in Routes
    BY <1>10 DEF WriteSettings, Routes
  <2> QED
    BY <1>10, <2>1, <2>2 DEF WriteSettings
<1>11. CASE VerifyRoute
  <2>1. Done(sup) \in SupStates
    BY <1>11, DoneType DEF VerifyRoute, NextAct
  <2>2. ASSUME NEW block \in Blocks, NEW error \in Errors
        PROVE  [sup EXCEPT !.acts = <<>>, !.block = block, !.error = error] \in SupStates
    <3>1. sup \in SupStates /\ <<>> \in Seq(ReconcileActions)
      OBVIOUS
    <3> QED
      BY <3>1 DEF SupStates
  <2>3. {"route_removed", "route_conflict"} \subseteq Blocks
          /\ {"runtime_failed", "route_conflict"} \subseteq Errors
    BY DEF Blocks, Errors
  <2>4. sup' \in SupStates
    BY <1>11, <2>1, <2>2, <2>3 DEF VerifyRoute
  <2> QED
    BY <1>11, <2>4 DEF VerifyRoute
<1>12. CASE StopListener
  <2>1. Done(sup) \in SupStates
    BY <1>12, DoneType DEF StopListener, NextAct
  <2>2. [sup.next EXCEPT !.drain = FALSE] \in ControlStates
    BY ControlFields DEF SupStates
  <2>3. Done(sup).next = sup.next
    BY DEF Done, SupStates
  <2>4. sup' \in SupStates
    BY <1>12, <2>1, <2>2, <2>3 DEF StopListener, SupStates
  <2> QED
    BY <1>12, <2>4 DEF StopListener
<1>13. CASE Conclude
  <2>1. Concluded \in ControlStates
    <3>1. sup.next \in ControlStates /\ sup.block \in Blocks /\ sup.error \in Errors
      BY DEF SupStates
    <3>2. EnableAt("lease_installing") \in Transitions
      BY TransitionNames DEF EnablePhases
    <3>3. "none" \in Blocks /\ "none" \in Errors
      BY DEF Blocks, Errors
    <3>c. sup.next.blocked \in Blocks /\ sup.next.error \in Errors
      BY <3>1 DEF ControlStates
    <3> DEFINE clean == sup.next.transition = NoTransition /\ sup.block = "none" /\ sup.error = "none"
               blocked == IF sup.block # "none" THEN sup.block
                          ELSE IF clean THEN "none" ELSE sup.next.blocked
               error == IF sup.error # "none" THEN sup.error
                        ELSE IF clean THEN "none" ELSE sup.next.error
               base == [sup.next EXCEPT !.blocked = blocked, !.error = error]
    <3>4. blocked \in Blocks /\ error \in Errors
      BY <3>1, <3>3, <3>c
    <3>5. Concluded \in {base, [base EXCEPT !.transition = EnableAt("lease_installing")]}
      BY DEF Concluded
    <3> HIDE DEF blocked, error
    <3>6. base \in ControlStates
      BY <3>1, <3>4 DEF ControlStates
    <3> HIDE DEF base
    <3>7. [base EXCEPT !.transition = EnableAt("lease_installing")] \in ControlStates
      BY <3>2, <3>6 DEF ControlStates
    <3> QED
      BY <3>5, <3>6, <3>7
  <2>2. Drifted(sup.seen, sup.before) \in ControlStates
    BY DriftedType DEF SupStates
  <2>3. [sup EXCEPT !.pc = "commit", !.next = Concluded] \in SupStates
    BY <2>1 DEF SupStates, SupPcs
  <2>4. [sup EXCEPT !.pc = "commit", !.mode = "block",
                    !.next = Drifted(sup.seen, sup.before)] \in SupStates
    BY <2>2 DEF SupStates, SupPcs, Modes
  <2>5. Leave => sup' \in SupStates /\ lock' \in {"free", "supervisor"} \cup Clients
    BY LeaveType
  <2> QED
    BY <1>13, <2>3, <2>4, <2>5 DEF Conclude
<1>14. CASE Commit
  <2>1. SupAt("loop") \in SupStates
    BY SupAtType DEF SupPcs
  <2>2. [SupAt("loop") EXCEPT !.mode = sup.mode, !.n = sup.n + 1] \in SupStates
    <3>1. sup.mode \in Modes /\ sup.n + 1 \in Nat
      BY DEF SupStates
    <3> QED
      BY <2>1, <3>1 DEF SupStates
  <2>3. sup.next \in ControlStates
    BY DEF SupStates
  <2>4. CASE LoopsAgain
    BY <1>14, <2>2, <2>3, <2>4 DEF Commit
  <2>5. CASE ~LoopsAgain
    <3>1. Leave
      BY <1>14, <2>5 DEF Commit
    <3> QED
      BY <1>14, <2>3, <3>1, LeaveType DEF Commit
  <2> QED
    BY <2>4, <2>5
<1>15. CASE RecordRead
  BY <1>15 DEF RecordRead, SupStates, SupPcs
<1>16. CASE RecordWrite
  <2>1. SupAt("idle") \in SupStates
    BY SupAtType DEF SupPcs
  <2>2. [sup.seen EXCEPT !.error = "runtime_failed"] \in ControlStates
    BY ControlFields DEF SupStates, Errors
  <2> QED
    BY <1>16, <2>1, <2>2 DEF RecordWrite
<1> QED
  BY <1>1, <1>2, <1>3, <1>4, <1>5, <1>6, <1>7, <1>8, <1>9, <1>10, <1>11, <1>12,
     <1>13, <1>14, <1>15, <1>16 DEF Supervisor

\* Changing one client keeps the others.
LEMMA ClientChange ==
  ASSUME NEW c \in Clients, client \in [Clients -> ClientStates],
         NEW changes \in ClientStates, ToClient(c, changes)
  PROVE  client' \in [Clients -> ClientStates]
  BY DEF ToClient

\* The locals of a client with nothing to do have their type.
LEMMA ClientIdleType == ClientIdle \in ClientStates
  BY DisabledType DEF ClientIdle, ClientStates, ClientPcs, Commands

\* The end of the supervisor's process keeps the types.
LEMMA DiesType ==
  ASSUME NEW state \in {"unloaded", "due", "running", "dormant"}, SupervisorDies(state)
  PROVE  /\ listener' \in BOOLEAN
         /\ job' \in {"unloaded", "due", "running", "dormant"}
         /\ sup' \in SupStates
  BY SupAtType DEF SupervisorDies, SupPcs

\* Every step of an operator's program keeps the types.
LEMMA OperatorType ==
  ASSUME TypeOK, NEW c \in Clients, Operator(c)
  PROVE  TypeOK'
<1> USE DEF TypeOK, worldVars
<1>0. client[c] \in ClientStates
  OBVIOUS
<1>1. ASSUME NEW op \in Commands, Issue(c, op) PROVE TypeOK'
  <2>1. \A o \in Commands : [ClientIdle EXCEPT !.pc = "enter", !.op = o] \in ClientStates
    BY ClientIdleType DEF ClientStates, ClientPcs
  <2>2. client' \in [Clients -> ClientStates]
    BY <1>1, <2>1, ClientChange DEF Issue, Commands
  <2>3. budget' \in [edits : Nat, commands : Nat, faults : Nat]
    BY <1>1 DEF Issue
  <2> QED
    BY <1>1, <2>2, <2>3 DEF Issue
<1>2. CASE Enter(c)
  <2>1. [client[c] EXCEPT !.pc = "write", !.seen = control] \in ClientStates
    BY <1>0 DEF ClientStates, ClientPcs
  <2> QED
    BY <1>2, <2>1, ClientChange DEF Enter
<1>3. CASE Refused(c)
  BY <1>3, ClientChange, ClientIdleType DEF Refused
<1>4. CASE WriteCommand(c)
  <2>1. Commanded(client[c].seen, client[c].op) \in ControlStates
    <3>1. client[c].seen \in ControlStates
      BY <1>0 DEF ClientStates
    <3>2. EnableAt("intent_persisted") \in Transitions
      BY TransitionNames DEF EnablePhases
    <3> QED
      BY <3>1, <3>2, TransitionNames DEF Commanded, ControlStates
  <2>2. [client[c] EXCEPT !.pc = "kick"] \in ClientStates
    BY <1>0 DEF ClientStates, ClientPcs
  <2>3. client' \in [Clients -> ClientStates]
    BY <1>4, <2>2, ClientChange, ClientIdleType DEF WriteCommand
  <2>4. acked' \in BOOLEAN
    BY <1>4 DEF WriteCommand, Starts
  <2> QED
    BY <1>4, <2>1, <2>3, <2>4 DEF WriteCommand, Released
<1>5. CASE Kickstart(c)
  <2>1. client' \in [Clients -> ClientStates]
    BY <1>5, ClientChange, ClientIdleType DEF Kickstart
  <2>2. CASE job = "unloaded"
    BY <1>5, <2>1, <2>2 DEF Kickstart
  <2>3. CASE job # "unloaded"
    BY <1>5, <2>1, <2>3, DiesType DEF Kickstart, Released
  <2> QED
    BY <2>2, <2>3
<1>6. CASE IssueUninstall(c)
  <2>1. [ClientIdle EXCEPT !.pc = "bootout", !.op = "uninstall"] \in ClientStates
    BY ClientIdleType DEF ClientStates, ClientPcs, Commands
  <2>2. client' \in [Clients -> ClientStates]
    BY <1>6, <2>1, ClientChange DEF IssueUninstall
  <2>3. budget' \in [edits : Nat, commands : Nat, faults : Nat]
    BY <1>6 DEF IssueUninstall
  <2> QED
    BY <1>6, <2>2, <2>3 DEF IssueUninstall
<1>7. CASE Bootout(c)
  BY <1>7, ClientChange, ClientIdleType, DiesType DEF Bootout
<1> QED
  BY <1>1, <1>2, <1>3, <1>4, <1>5, <1>6, <1>7 DEF Operator

\* Every step of launchd, the editor and the faults keeps the types.
LEMMA EnvironmentType ==
  ASSUME TypeOK, Environment
  PROVE  TypeOK'
<1> USE DEF TypeOK, worldVars
<1>0. ASSUME NEW kind, Fault(kind)
      PROVE  budget' \in [edits : Nat, commands : Nat, faults : Nat]
  BY <1>0 DEF Fault
<1>1. ASSUME NEW value \in Routes, Edit(value) PROVE TypeOK'
  BY <1>1 DEF Edit
<1>2. CASE Crash
  BY <1>2, <1>0, DiesType DEF Crash, Released
<1>3. CASE Signal
  BY <1>3, <1>0, DiesType DEF Signal
<1>4. CASE Reboot
  <2>1. client' \in [Clients -> ClientStates]
    BY <1>4, ClientIdleType DEF Reboot
  <2> QED
    BY <1>4, <1>0, <2>1, DiesType DEF Reboot
<1>5. CASE PortInUse
  BY <1>5, <1>0 DEF PortInUse
<1>6. CASE WriteFails
  BY <1>6, <1>0, SupAtType DEF WriteFails, Released, SupPcs
<1>7. CASE RecordFails
  BY <1>7, <1>0, SupAtType DEF RecordFails, SupPcs
<1>8. CASE LeaseExpires
  BY <1>8, <1>0 DEF LeaseExpires
<1>9. ASSUME NEW c \in Clients, ClientCrash(c) PROVE TypeOK'
  BY <1>9, <1>0, ClientChange, ClientIdleType DEF ClientCrash, Released
<1>10. CASE DrainedExit
  BY <1>10, SupAtType DEF DrainedExit, SupPcs, operatorVars
<1> QED
  BY <1>1, <1>2, <1>3, <1>4, <1>5, <1>6, <1>7, <1>8, <1>9, <1>10 DEF Environment

\* Every instance of the proxy keeps its variables in their types: every
\* decision of the matrix is a decision, every record written is a record the
\* schemas accept.
THEOREM TypeCorrect == Spec => []TypeOK
<1>1. TypeOK /\ [Next]_vars => TypeOK'
  <2>1. ASSUME TypeOK, UNCHANGED vars PROVE TypeOK'
    BY <2>1 DEF TypeOK, vars
  <2> QED
    BY <2>1, SupervisorType, OperatorType, EnvironmentType DEF Next
<1> QED
  BY <1>1, InitType, PTL DEF Spec

-----------------------------------------------------------------------------
(***************************************************************************)
(* Safety of ProxyControl in every instance whose writes do not throw and  *)
(* whose lock lease does not run out in the holder's hands: no command is  *)
(* lost, and a disabled proxy keeps no lease and gets no route.  (With     *)
(* those faults the first claim is false: see MCProxyException.)           *)
(*                                                                         *)
(* The claims are not inductive: they hold because the supervisor works on *)
(* the record that is on disk while it has the lock, and because what the  *)
(* matrix plans for a disabled proxy neither applies a route nor clears    *)
(* the transition before the lease.  IInv says so.                         *)
(***************************************************************************)

WritesSucceed == {"io", "suspend"} \cap Faults = {}

\* While it holds the lock the supervisor is in one of these places, and in
\* Writing it owns a copy of control.json it is going to write back.
Inside  == {"loop", "act", "settings", "commit"}
Writing == {"act", "settings", "commit"}

Mutex ==
  /\ sup.pc \in Inside => lock = "supervisor"
  /\ \A c \in Clients : client[c].pc = "write" => lock = c

\* The transition in flight goes where the operator wants to go.
Directed(c) ==
  /\ c.transition.kind = "enable" => c.desired
  /\ c.transition.kind \in {"disable", "drain_complete"} => ~c.desired
Unleased(c) == c.transition = NoTransition /\ ~c.desired => c.lease = "none"

Snapshot ==
  sup.pc \in Writing =>
    /\ sup.seen = control
    /\ sup.next.desired = control.desired
    /\ Directed(sup.next)
    /\ sup.after = "again" => control.desired
    /\ sup.pc = "commit" => Unleased(sup.next)

\* What is left of a plan for a disabled proxy.
Clearing  == {<<"stop_listener", "clear_transition">>, <<"clear_transition">>}
UndoPlans ==
  {<<>>, <<"remove_route", "verify_route">>, <<"verify_route">>,
   <<"clear_lease", "enter_drain">>, <<"enter_drain">>,
   <<"clear_lease", "stop_listener", "clear_transition">>,
   <<"clear_lease", "clear_transition">>} \cup Clearing

Undoing ==
  sup.pc \in {"act", "settings"} /\ ~control.desired =>
    /\ sup.mode \in {"recover", "drive"}
    /\ sup.acts \in UndoPlans
    /\ sup.pc = "settings" => sup.last # "apply"
    /\ sup.acts \in Clearing => sup.next.lease = "none"
    /\ Unleased(sup.next)

\* Only a pass of boot recovery or of the drive decides, and goes on.
DecidesIn ==
  sup.pc = "loop" \/ (sup.pc \in Writing /\ sup.after # "stop")
    => sup.mode \in {"recover", "drive"}

IInv ==
  /\ TypeOK
  /\ sup.pc \notin {"failed", "record"}
  /\ DecidesIn
  /\ Mutex
  /\ CommandsAreDurable
  /\ Directed(control)
  /\ DisabledIsUnleased
  /\ Snapshot
  /\ Undoing

-----------------------------------------------------------------------------
(* Plans                                                                   *)

FreshUndoPlans ==
  {<<>>, <<"remove_route", "verify_route">>, <<"clear_lease", "enter_drain">>,
   <<"clear_lease", "stop_listener", "clear_transition">>,
   <<"clear_lease", "clear_transition">>}

\* A fresh plan of a disabled proxy has its lease still to clear.
LEMMA FreshIsUndo ==
  ASSUME NEW p \in FreshUndoPlans
  PROVE  p \in UndoPlans /\ p \notin Clearing
<1>1. p \in UndoPlans
  BY DEF FreshUndoPlans, UndoPlans
<1>2. p \notin Clearing
  <2>1. CASE p = <<>>
    BY <2>1 DEF Clearing
  <2>2. CASE p # <<>>
    <3>1. Head(p) \in {"remove_route", "clear_lease"}
      BY <2>2 DEF FreshUndoPlans
    <3>2. \A q \in Clearing : Head(q) \in {"stop_listener", "clear_transition"}
      BY DEF Clearing
    <3> QED
      BY <3>1, <3>2
  <2> QED
    BY <2>1, <2>2
<1> QED
  BY <1>1, <1>2

\* What is left of such a plan after its first action is such a plan: the
\* transition is cleared last, and the lease before the listener stops.
LEMMA UndoTail ==
  ASSUME NEW p \in UndoPlans, p # <<>>
  PROVE  /\ Tail(p) \in UndoPlans
         /\ Head(p) \in {"remove_route", "verify_route", "clear_lease", "enter_drain",
                          "stop_listener", "clear_transition"}
         /\ Tail(p) \in Clearing => Head(p) = "clear_lease" \/ p \in Clearing
         /\ Head(p) = "clear_transition" => p \in Clearing
<1>1. CASE p = <<"remove_route", "verify_route">>
  <2>1. Head(p) = "remove_route" /\ Tail(p) = <<"verify_route">>
    BY <1>1
  <2> QED
    BY <2>1 DEF UndoPlans, Clearing
<1>2. ASSUME NEW a \in {"verify_route", "enter_drain", "clear_transition"}, p = <<a>>
      PROVE  Tail(p) = <<>> /\ Head(p) = a
  BY <1>2
<1>3. CASE p \in {<<"verify_route">>, <<"enter_drain">>, <<"clear_transition">>}
  <2>1. Tail(p) = <<>> /\ Head(p) \in {"verify_route", "enter_drain", "clear_transition"}
    BY <1>2, <1>3
  <2>2. <<>> \notin Clearing /\ <<>> \in UndoPlans
    BY DEF Clearing, UndoPlans
  <2>3. Head(p) = "clear_transition" => p \in Clearing
    BY <1>2, <1>3 DEF Clearing
  <2> QED
    BY <2>1, <2>2, <2>3
<1>4. CASE p = <<"clear_lease", "enter_drain">>
  <2>1. Head(p) = "clear_lease" /\ Tail(p) = <<"enter_drain">>
    BY <1>4
  <2> QED
    BY <2>1 DEF UndoPlans
<1>5. CASE p = <<"clear_lease", "clear_transition">>
  <2>1. Head(p) = "clear_lease" /\ Tail(p) = <<"clear_transition">>
    BY <1>5
  <2> QED
    BY <2>1 DEF UndoPlans, Clearing
<1>6. CASE p = <<"clear_lease", "stop_listener", "clear_transition">>
  <2>1. Head(p) = "clear_lease" /\ Tail(p) = <<"stop_listener", "clear_transition">>
    BY <1>6
  <2> QED
    BY <2>1 DEF UndoPlans, Clearing
<1>7. CASE p = <<"stop_listener", "clear_transition">>
  <2>1. Head(p) = "stop_listener" /\ Tail(p) = <<"clear_transition">>
    BY <1>7
  <2> QED
    BY <1>7, <2>1 DEF UndoPlans, Clearing
<1> QED
  BY <1>1, <1>3, <1>4, <1>5, <1>6, <1>7 DEF UndoPlans, Clearing

\* The matrix plans nothing else for a disable or a confirmed drain.
LEMMA DisabledPlan ==
  ASSUME NEW t \in Transitions, t.kind # "enable", NEW o \in Observations, NEW d
  PROVE  ReconcileTransition(t, o, d).actions \in FreshUndoPlans
<1>1. o.route \in Routes /\ o.hasLease \in BOOLEAN
  BY DEF Observations
<1>2. CASE t.kind = "disable"
  <2>1. ReconcileDisable(t.phase, o).actions \in FreshUndoPlans
    BY <1>1, BuildersActions DEF ReconcileDisable, FreshUndoPlans, LeasedExact, Routes
  <2> QED
    BY <1>2, <2>1 DEF ReconcileTransition
<1>3. CASE t.kind = "drain_complete"
  <2>1. ReconcileDrain(o).actions \in FreshUndoPlans
    BY <1>1, BuildersActions DEF ReconcileDrain, FreshUndoPlans, LeasedExact, Routes
  <2> QED
    BY <1>3, <2>1 DEF ReconcileTransition
<1>4. t.kind \in {"enable", "disable", "drain_complete"}
  BY DEF Transitions, EnableAt, Unroute, UnrouteRollback, DrainConfirmed
<1> QED
  BY <1>2, <1>3, <1>4
-----------------------------------------------------------------------------
(* The invariant is inductive                                              *)

\* Nothing is in flight at the start.
LEMMA InvInit == Init => IInv
<1> SUFFICES ASSUME Init PROVE IInv
  OBVIOUS
<1>1. TypeOK
  BY InitType
<1>2. sup.pc = "down" /\ \A c \in Clients : client[c].pc = "idle"
  BY DEF Init, SupAt, ClientIdle
<1>3. Mutex /\ Snapshot /\ Undoing /\ DecidesIn
  BY <1>2 DEF Mutex, Snapshot, Undoing, Inside, Writing, DecidesIn
<1>4. Directed(control) /\ DisabledIsUnleased /\ CommandsAreDurable
  BY DEF Init, Disabled, Directed, DisabledIsUnleased, CommandsAreDurable, NoTransition
<1> QED
  BY <1>1, <1>2, <1>3, <1>4 DEF IInv

\* A step that puts the supervisor outside its critical section, or at the top
\* of its loop, promises nothing about its locals.
LEMMA Outside ==
  ASSUME sup'.pc \notin Writing
  PROVE  Snapshot' /\ Undoing'
  BY DEF Snapshot, Undoing, Writing

\* A step that changes neither control.json nor what was last acknowledged.
LEMMA ControlKept ==
  ASSUME IInv, UNCHANGED <<control, acked>>
  PROVE  CommandsAreDurable' /\ Directed(control)' /\ DisabledIsUnleased'
  BY DEF IInv, CommandsAreDurable, Directed, DisabledIsUnleased

\* Entering and leaving: launch, boot, tick, and the passes with nothing to do.
LEMMA InvEnterLeave ==
  ASSUME IInv, TypeOK', Launch \/ Boot \/ Tick \/ PassOver
  PROVE  IInv'
<1>1. UNCHANGED <<control, acked, client>>
  BY DEF Launch, Boot, Tick, PassOver, operatorVars
<1>2. sup'.pc \in {"boot", "loop", "idle"}
  BY DEF Launch, Boot, Tick, PassOver, Leave, SupAt
<1>3. sup'.pc = "loop" => lock' = "supervisor"
  BY DEF Launch, Boot, Tick, PassOver, Leave, SupAt
<1>4. ASSUME NEW c \in Clients, client[c].pc = "write" PROVE lock' = c
  <2>1. lock = c /\ c # "free" /\ c # "supervisor"
    BY <1>4, ClientsAssumption DEF IInv, Mutex
  <2> QED
    BY <2>1 DEF Launch, Boot, Tick, PassOver, Leave, Released
<1>5. Mutex'
  BY <1>1, <1>2, <1>3, <1>4 DEF Mutex, Inside
<1>6. Snapshot' /\ Undoing'
  BY <1>2, Outside DEF Writing
<1>7. DecidesIn'
  BY <1>2 DEF DecidesIn, Writing, Launch, Boot, Tick, PassOver, Leave, SupAt
<1> QED
  BY <1>1, <1>2, <1>5, <1>6, <1>7, ControlKept DEF IInv

\* enable@intent to listener_healthy: only for an enabled proxy.
LEMMA InvAdvanceBootstrap ==
  ASSUME IInv, TypeOK', AdvanceBootstrap
  PROVE  IInv'
<1>1. sup \in SupStates /\ control \in ControlStates
  BY DEF IInv, TypeOK
<1>2. /\ sup'.pc = "commit" /\ sup'.mode = "drive" /\ sup'.seen = control /\ control.desired
      /\ sup'.next = [control EXCEPT !.transition = EnableAt("listener_healthy")]
  BY <1>1 DEF AdvanceBootstrap, SupStates, Bootstrapping
<1>3. UNCHANGED <<control, acked, client, lock>> /\ sup.pc = "loop"
  BY DEF AdvanceBootstrap, operatorVars
<1>4. sup'.next.desired /\ sup'.next.transition.kind = "enable"
  BY <1>1, <1>2 DEF ControlStates, EnableAt
<1>5. Directed(sup'.next) /\ Unleased(sup'.next)
  BY <1>4 DEF Directed, Unleased
<1>6. Snapshot'
  BY <1>2, <1>3, <1>4, <1>5 DEF Snapshot, Directed, Unleased
<1>7. Undoing' /\ DecidesIn'
  BY <1>2 DEF Undoing, DecidesIn
<1>8. Mutex'
  BY <1>2, <1>3 DEF IInv, Mutex, Inside
<1> QED
  BY <1>2, <1>3, <1>6, <1>7, <1>8, ControlKept DEF IInv

\* A decision for a disabled proxy is a fresh plan that undoes; a decision
\* that will advance the bootstrap is one for an enabled proxy.
LEMMA InvDecide ==
  ASSUME IInv, TypeOK', Decide
  PROVE  IInv'
<1> DEFINE d == ReconcileTransition(control.transition, Observed, control.desired)
<1>1. sup \in SupStates /\ control \in ControlStates /\ Directed(control)
  BY DEF IInv, TypeOK
<1>2. /\ sup'.pc = "act" /\ sup'.seen = control /\ sup'.next = control
      /\ sup'.acts = d.actions /\ sup'.mode = sup.mode
  BY <1>1 DEF Decide, SupStates
<1>3. sup'.after = "again" => control.desired
  <2>1. sup'.after = "again" => control.transition = EnableAt("listener_healthy")
    BY <1>1 DEF Decide, SupStates
  <2> QED
    BY <1>1, <2>1 DEF Directed, EnableAt
<1>4. ~control.desired => d.actions \in UndoPlans /\ d.actions \notin Clearing
  <2> SUFFICES ASSUME ~control.desired
               PROVE  d.actions \in UndoPlans /\ d.actions \notin Clearing
    OBVIOUS
  <2>1. control.transition \in Transitions /\ control.transition.kind # "enable"
    BY <1>1 DEF Decide, ControlStates, Directed
  <2>2. Observed \in Observations
    BY ObservedType DEF IInv
  <2>3. d.actions \in FreshUndoPlans
    BY <2>1, <2>2, DisabledPlan
  <2> QED
    BY <2>3, FreshIsUndo
<1>5. UNCHANGED <<control, lock, client, acked>>
  BY DEF Decide, operatorVars
<1>6. Snapshot'
  BY <1>1, <1>2, <1>3, <1>5 DEF Snapshot, Directed
<1>7. Undoing'
  <2>1. sup.mode \in {"recover", "drive"} /\ control.transition # NoTransition
    BY DEF IInv, DecidesIn, Decide
  <2> QED
    BY <1>2, <1>4, <1>5, <2>1 DEF Undoing, Unleased
<1>8. Mutex'
  BY <1>2, <1>5 DEF IInv, Mutex, Inside, Decide
<1>9. DecidesIn'
  BY <1>2 DEF IInv, DecidesIn, Decide
<1> QED
  BY <1>2, <1>5, <1>6, <1>7, <1>8, <1>9, ControlKept DEF IInv

\* The monitor acts on a leased proxy without a transition: an enabled one.
LEMMA InvMonitor ==
  ASSUME IInv, TypeOK', Monitor
  PROVE  IInv'
<1>1. sup \in SupStates /\ control \in ControlStates /\ Directed(control)
  BY DEF IInv, TypeOK
<1>2. control.desired /\ control.transition = NoTransition
  BY <1>1 DEF Monitor, IInv, DisabledIsUnleased, ControlStates
<1>3. UNCHANGED <<control, lock, client, acked>> /\ sup.pc = "loop"
  BY DEF Monitor, operatorVars
<1>4. /\ sup'.pc \in {"act", "commit"} /\ sup'.seen = control /\ sup'.after = "stop"
      /\ sup'.next \in {control, Drifted(control, route)}
  BY <1>1 DEF Monitor, SupStates
<1>5. sup'.next.desired /\ sup'.next.transition = NoTransition
  BY <1>1, <1>2, <1>4 DEF Drifted, ControlStates
<1>6. Snapshot'
  BY <1>1, <1>2, <1>3, <1>4, <1>5 DEF Snapshot, Directed, Unleased, NoTransition
<1>7. Undoing'
  BY <1>2, <1>3 DEF Undoing
<1>8. Mutex'
  BY <1>3, <1>4 DEF IInv, Mutex, Inside
<1>9. DecidesIn'
  BY <1>4 DEF DecidesIn
<1> QED
  BY <1>3, <1>4, <1>6, <1>7, <1>8, <1>9, ControlKept DEF IInv
\* Performing an action of a plan keeps the snapshot: the record being built
\* keeps its desired state and at most loses its transition.
LEMMA InvAct ==
  ASSUME IInv, TypeOK', sup.pc \in {"act", "settings"}, sup'.pc \in {"act", "settings"},
         UNCHANGED <<control, lock, client, acked>>,
         sup'.seen = sup.seen, sup'.after = sup.after, sup'.mode = sup.mode,
         sup'.next.desired = sup.next.desired,
         sup'.next.transition \in {sup.next.transition, NoTransition},
         Undoing'
  PROVE  IInv'
<1>1. Directed(sup.next) => Directed(sup'.next)
  BY DEF Directed, NoTransition
<1>2. Snapshot'
  BY <1>1 DEF IInv, Snapshot, Writing, Directed
<1>3. Mutex' /\ DecidesIn'
  BY DEF IInv, Mutex, Inside, DecidesIn, Writing
<1> QED
  BY <1>2, <1>3, ControlKept DEF IInv

\* Local actions: the lease is cleared before the transition is.
LEMMA InvActLocally ==
  ASSUME IInv, TypeOK', ActLocally
  PROVE  IInv'
<1>1. PICK a \in LocalActions :
        NextAct(a) /\ sup' = [Done(sup) EXCEPT !.next = Applied(sup.next, a)]
  BY DEF ActLocally
<1>2. sup \in SupStates /\ sup.next \in ControlStates
  BY DEF IInv, TypeOK, SupStates
<1>3. /\ sup.pc = "act" /\ sup'.pc = "act" /\ sup'.seen = sup.seen
      /\ sup'.after = sup.after /\ sup'.mode = sup.mode
      /\ sup'.acts = Tail(sup.acts) /\ sup'.next = Applied(sup.next, a)
  BY <1>1, <1>2 DEF NextAct, Done, SupStates
<1>4. /\ Applied(sup.next, a).desired = sup.next.desired
      /\ Applied(sup.next, a).transition =
           IF a = "clear_transition" THEN NoTransition ELSE sup.next.transition
      /\ a # "install_lease" => Applied(sup.next, a).lease \in {sup.next.lease, "active", "none"}
      /\ a \notin {"install_lease", "promote_lease"} =>
           Applied(sup.next, a).lease \in {sup.next.lease, "none"}
      /\ a = "clear_lease" => Applied(sup.next, a).lease = "none"
  BY <1>2 DEF Applied, LocalActions, ControlStates
<1>5. UNCHANGED <<control, lock, client, acked>>
  BY DEF ActLocally, operatorVars
<1>6. Undoing'
  <2> SUFFICES ASSUME ~control.desired
               PROVE  /\ sup'.mode \in {"recover", "drive"}
                      /\ sup'.acts \in UndoPlans
                      /\ sup'.acts \in Clearing => sup'.next.lease = "none"
                      /\ Unleased(sup'.next)
    BY <1>3, <1>5 DEF Undoing
  <2>1. /\ sup.mode \in {"recover", "drive"} /\ sup.acts \in UndoPlans
        /\ sup.acts \in Clearing => sup.next.lease = "none"
        /\ Unleased(sup.next)
    BY <1>3 DEF IInv, Undoing
  <2>2. sup.acts # <<>> /\ Head(sup.acts) = a
    BY <1>1 DEF NextAct
  <2>3. /\ Tail(sup.acts) \in UndoPlans /\ a \notin {"install_lease", "promote_lease"}
        /\ Tail(sup.acts) \in Clearing => a = "clear_lease" \/ sup.acts \in Clearing
        /\ a = "clear_transition" => sup.acts \in Clearing
    BY <2>1, <2>2, UndoTail
  <2>4. Tail(sup.acts) \in Clearing => sup'.next.lease = "none"
    BY <1>3, <1>4, <2>1, <2>3
  <2>5. Unleased(sup'.next)
    BY <1>3, <1>4, <2>1, <2>3 DEF Unleased
  <2> QED
    BY <1>3, <2>1, <2>3, <2>4, <2>5
<1> QED
  BY <1>3, <1>4, <1>5, <1>6, InvAct

\* Reading the settings: a disabled proxy's plan has no route to apply.
LEMMA InvReadSettings ==
  ASSUME IInv, TypeOK', ReadSettings
  PROVE  IInv'
<1>1. sup \in SupStates
  BY DEF IInv, TypeOK
<1>2. /\ sup.pc = "act" /\ sup'.pc \in {"act", "settings"} /\ sup'.seen = sup.seen
      /\ sup'.after = sup.after /\ sup'.mode = sup.mode /\ sup'.next = sup.next
      /\ sup'.acts = Tail(sup.acts)
      /\ sup.acts # <<>> /\ Head(sup.acts) \in {"apply_route", "remove_route"}
      /\ sup'.last = IF Head(sup.acts) = "apply_route" THEN "apply" ELSE "remove"
  BY <1>1 DEF ReadSettings, NextAct, Done, SupStates
<1>3. UNCHANGED <<control, lock, client, acked>>
  BY DEF ReadSettings, operatorVars
<1>4. Undoing'
  <2> SUFFICES ASSUME ~control.desired
               PROVE  /\ sup'.mode \in {"recover", "drive"}
                      /\ sup'.acts \in UndoPlans
                      /\ sup'.last # "apply"
                      /\ sup'.acts \in Clearing => sup'.next.lease = "none"
                      /\ Unleased(sup'.next)
    BY <1>2, <1>3 DEF Undoing
  <2>1. /\ sup.mode \in {"recover", "drive"} /\ sup.acts \in UndoPlans
        /\ sup.acts \in Clearing => sup.next.lease = "none"
        /\ Unleased(sup.next)
    BY <1>2 DEF IInv, Undoing
  <2> QED
    BY <1>2, <2>1, UndoTail
<1> QED
  BY <1>2, <1>3, <1>4, InvAct

\* The other actions of a plan leave the record's lease and transition alone.
LEMMA InvOtherActs ==
  ASSUME IInv, TypeOK', WriteSettings \/ VerifyRoute \/ StopListener
  PROVE  IInv'
<1>1. sup \in SupStates /\ sup.next \in ControlStates
  BY DEF IInv, TypeOK, SupStates
<1>2. /\ sup.pc \in {"act", "settings"} /\ sup'.pc = "act" /\ sup'.seen = sup.seen
      /\ sup'.after = sup.after /\ sup'.mode = sup.mode
      /\ sup'.next.desired = sup.next.desired
      /\ sup'.next.transition = sup.next.transition
      /\ sup'.next.lease = sup.next.lease
  <2>1. CASE WriteSettings
    BY <1>1, <2>1 DEF WriteSettings, SupStates
  <2>2. CASE VerifyRoute
    BY <1>1, <2>2 DEF VerifyRoute, NextAct, Done, SupStates
  <2>3. CASE StopListener
    BY <1>1, <2>3 DEF StopListener, NextAct, Done, SupStates, ControlStates
  <2> QED
    BY <2>1, <2>2, <2>3
<1>3. \/ sup'.acts \in {sup.acts, <<>>}
      \/ /\ sup.acts # <<>> /\ sup'.acts = Tail(sup.acts)
         /\ Head(sup.acts) \in {"verify_route", "stop_listener"}
  <2>1. CASE WriteSettings
    BY <1>1, <2>1 DEF WriteSettings, SupStates
  <2>2. CASE VerifyRoute
    BY <1>1, <2>2 DEF VerifyRoute, NextAct, Done, SupStates
  <2>3. CASE StopListener
    BY <1>1, <2>3 DEF StopListener, NextAct, Done, SupStates
  <2> QED
    BY <2>1, <2>2, <2>3
<1>4. UNCHANGED <<control, lock, client, acked>>
  BY DEF WriteSettings, VerifyRoute, StopListener, operatorVars
<1>5. Undoing'
  <2> SUFFICES ASSUME ~control.desired
               PROVE  /\ sup'.mode \in {"recover", "drive"}
                      /\ sup'.acts \in UndoPlans
                      /\ sup'.acts \in Clearing => sup'.next.lease = "none"
                      /\ Unleased(sup'.next)
    BY <1>2, <1>4 DEF Undoing
  <2>1. /\ sup.mode \in {"recover", "drive"} /\ sup.acts \in UndoPlans
        /\ sup.acts \in Clearing => sup.next.lease = "none"
        /\ Unleased(sup.next)
    BY <1>2 DEF IInv, Undoing
  <2>2. <<>> \in UndoPlans /\ <<>> \notin Clearing
    BY FreshIsUndo DEF FreshUndoPlans
  <2>3. sup'.acts \in UndoPlans /\ (sup'.acts \in Clearing => sup'.next.lease = "none")
    BY <1>2, <1>3, <2>1, <2>2, UndoTail
  <2>4. Unleased(sup'.next)
    BY <1>2, <2>1 DEF Unleased
  <2> QED
    BY <1>2, <2>1, <2>3, <2>4
<1> QED
  BY <1>2, <1>4, <1>5, InvAct
\* The record a pass returns is directed and unleased: it may be written.
LEMMA InvConclude ==
  ASSUME IInv, TypeOK', Conclude
  PROVE  IInv'
<1>1. /\ sup \in SupStates /\ sup.next \in ControlStates /\ control \in ControlStates
      /\ sup.pc = "act" /\ UNCHANGED <<control, acked, client>>
  BY DEF IInv, TypeOK, SupStates, Conclude, operatorVars
<1>2. /\ lock = "supervisor" /\ \A c \in Clients : client[c].pc # "write"
  BY <1>1, ClientsAssumption DEF IInv, Mutex, Inside
<1>3. /\ sup.seen = control /\ sup.next.desired = control.desired /\ Directed(sup.next)
      /\ sup.after = "again" => control.desired
      /\ Unleased(sup.next)
  BY <1>1 DEF IInv, Snapshot, Undoing, Writing, Unleased
<1>4. CASE Leave
  <2>1. sup'.pc = "idle"
    BY <1>4 DEF Leave, SupAt
  <2>2. Mutex' /\ Snapshot' /\ Undoing' /\ DecidesIn'
    BY <1>1, <1>2, <2>1, Outside DEF Mutex, Inside, Writing, DecidesIn
  <2> QED
    BY <1>1, <2>1, <2>2, ControlKept DEF IInv
<1>5. ASSUME NEW record, NEW mode \in Modes,
             sup' = [sup EXCEPT !.pc = "commit", !.mode = mode, !.next = record],
             lock' = lock, record.desired = control.desired, Directed(record),
             Unleased(record), mode = sup.mode \/ sup.after = "stop"
      PROVE  IInv'
  <2>1. /\ sup'.pc = "commit" /\ sup'.mode = mode /\ sup'.next = record
        /\ sup'.seen = sup.seen /\ sup'.after = sup.after
    BY <1>1, <1>5 DEF SupStates
  <2>2. Snapshot'
    BY <1>1, <1>3, <1>5, <2>1 DEF Snapshot, Directed, Unleased
  <2>3. Undoing' /\ Mutex'
    BY <1>1, <1>2, <1>5, <2>1 DEF Undoing, Mutex
  <2>4. DecidesIn'
    BY <1>1, <1>5, <2>1 DEF IInv, DecidesIn, Writing
  <2> QED
    BY <1>1, <2>1, <2>2, <2>3, <2>4, ControlKept DEF IInv
<1>6. CASE /\ sup' = [sup EXCEPT !.pc = "commit", !.next = Concluded]
           /\ lock' = lock
  <2>1. /\ Concluded.desired = sup.next.desired /\ Concluded.lease = sup.next.lease
        /\ \/ Concluded.transition = sup.next.transition
           \/ sup.after = "again" /\ Concluded.transition = EnableAt("lease_installing")
    BY <1>1 DEF Concluded, ControlStates
  <2>2. Directed(Concluded) /\ Unleased(Concluded)
    BY <1>3, <2>1 DEF Directed, Unleased, EnableAt
  <2>3. sup.mode \in Modes /\
        sup' = [sup EXCEPT !.pc = "commit", !.mode = sup.mode, !.next = Concluded]
    BY <1>1, <1>6 DEF SupStates
  <2> QED
    BY <1>3, <1>5, <1>6, <2>1, <2>2, <2>3
<1>7. CASE /\ sup.mode = "reapply" /\ lock' = lock
           /\ sup' = [sup EXCEPT !.pc = "commit", !.mode = "block",
                                 !.next = Drifted(sup.seen, sup.before)]
  <2> DEFINE r == Drifted(sup.seen, sup.before)
  <2>1. r.desired = control.desired /\ r.transition = control.transition /\ r.lease = "none"
    BY <1>1, <1>3 DEF Drifted, ControlStates
  <2>2. Directed(r) /\ Unleased(r)
    BY <2>1 DEF IInv, Directed, Unleased
  <2>3. sup.after = "stop"
    BY <1>1, <1>7 DEF IInv, DecidesIn, Writing
  <2> QED
    BY <1>5, <1>7, <2>1, <2>2, <2>3 DEF Modes
<1> QED
  BY <1>4, <1>6, <1>7 DEF Conclude

\* The write of control.json: the record has the desired state of the last
\* command, which nobody could change meanwhile.
LEMMA InvCommit ==
  ASSUME IInv, TypeOK', Commit
  PROVE  IInv'
<1>1. /\ sup \in SupStates /\ sup.pc = "commit" /\ control' = sup.next
      /\ UNCHANGED <<acked, client>>
  BY DEF IInv, TypeOK, Commit, operatorVars
<1>2. /\ lock = "supervisor" /\ \A c \in Clients : client[c].pc # "write"
  BY <1>1, ClientsAssumption DEF IInv, Mutex, Inside
<1>3. /\ sup.next.desired = control.desired /\ Directed(sup.next) /\ Unleased(sup.next)
  BY <1>1 DEF IInv, Snapshot, Writing
<1>4. CommandsAreDurable' /\ Directed(control)' /\ DisabledIsUnleased'
  BY <1>1, <1>3 DEF IInv, CommandsAreDurable, Directed, Unleased, DisabledIsUnleased
<1>5. /\ sup'.pc \in {"loop", "idle"}
      /\ sup'.pc = "loop" => sup'.mode = sup.mode /\ sup.after # "stop" /\ lock' = lock
  <2>1. CASE LoopsAgain
    <3>1. sup'.pc = "loop" /\ sup'.mode = sup.mode /\ lock' = lock
      BY <2>1 DEF Commit, SupAt
    <3> QED
      BY <2>1, <3>1 DEF LoopsAgain
  <2>2. CASE ~LoopsAgain
    BY <2>2 DEF Commit, Leave, SupAt
  <2> QED
    BY <2>1, <2>2
<1>6. Mutex' /\ DecidesIn' /\ Snapshot' /\ Undoing'
  BY <1>1, <1>2, <1>5, Outside DEF IInv, Mutex, Inside, Writing, DecidesIn
<1> QED
  BY <1>4, <1>5, <1>6 DEF IInv

\* Every step of the supervisor.
LEMMA InvSupervisor ==
  ASSUME IInv, Supervisor
  PROVE  IInv'
<1>1. TypeOK'
  BY SupervisorType DEF IInv
<1>2. ~RecordRead /\ ~RecordWrite
  BY DEF IInv, RecordRead, RecordWrite
<1> QED
  BY <1>1, <1>2, InvEnterLeave, InvAdvanceBootstrap, InvDecide, InvMonitor, InvActLocally,
     InvReadSettings, InvOtherActs, InvConclude, InvCommit DEF Supervisor
\* Steps of others leave the supervisor alone, or end its process.
LEMMA InvFrame ==
  ASSUME IInv, TypeOK', UNCHANGED <<control, acked>>, Mutex',
         sup' = sup \/ sup'.pc \in {"down", "idle"}
  PROVE  IInv'
<1>1. CASE sup' = sup
  <2>1. Snapshot' /\ Undoing' /\ DecidesIn'
    BY <1>1 DEF IInv, Snapshot, Undoing, DecidesIn, Directed, Unleased
  <2> QED
    BY <1>1, <2>1, ControlKept DEF IInv
<1>2. CASE sup'.pc \in {"down", "idle"}
  <2>1. Snapshot' /\ Undoing' /\ DecidesIn'
    BY <1>2, Outside DEF Writing, DecidesIn
  <2> QED
    BY <1>2, <2>1, ControlKept DEF IInv
<1> QED
  BY <1>1, <1>2

\* A client that is not writing after the step owes the lock nothing.
LEMMA ClientSteps ==
  ASSUME TypeOK, NEW c \in Clients, NEW changes, ToClient(c, changes),
         NEW k \in Clients
  PROVE  client'[k].pc = "write" =>
           (k = c /\ changes.pc = "write") \/ (k # c /\ client[k].pc = "write")
  BY DEF ToClient, TypeOK

\* A command is written under the lock, so never into a pass of the supervisor.
LEMMA InvWriteCommand ==
  ASSUME IInv, TypeOK', NEW c \in Clients, WriteCommand(c)
  PROVE  IInv'
<1>1. /\ client[c] \in ClientStates /\ client[c].seen \in ControlStates
      /\ sup' = sup /\ lock = c /\ lock' = "free"
  BY DEF IInv, TypeOK, WriteCommand, ClientStates, Mutex, Released
<1>2. sup.pc \notin Inside
  BY <1>1, ClientsAssumption DEF IInv, Mutex
<1>3. /\ control'.desired = Starts(client[c].op) /\ acked' = Starts(client[c].op)
      /\ control'.transition = IF Starts(client[c].op) THEN EnableAt("intent_persisted")
                               ELSE IF client[c].op = "confirm" THEN DrainConfirmed ELSE Unroute
  <2> DEFINE s == client[c].seen
             o == client[c].op
  <2>1. control' = Commanded(s, o) /\ acked' = Starts(o)
    BY DEF WriteCommand
  <2>2. /\ Commanded(s, o).desired = Starts(o)
        /\ Commanded(s, o).transition = IF Starts(o) THEN EnableAt("intent_persisted")
                                        ELSE IF o = "confirm" THEN DrainConfirmed ELSE Unroute
    <3>1. CASE Starts(o)
      BY <1>1, <3>1 DEF Commanded, ControlStates
    <3>2. CASE ~Starts(o)
      <4>1. Commanded(s, o) = [s EXCEPT !.desired = FALSE,
                                        !.transition = IF o = "confirm" THEN DrainConfirmed
                                                       ELSE Unroute]
        BY <3>2 DEF Commanded
      <4>2. /\ Commanded(s, o).desired = FALSE
            /\ Commanded(s, o).transition = IF o = "confirm" THEN DrainConfirmed ELSE Unroute
        BY <1>1, <4>1 DEF ControlStates
      <4>3. Starts(o) = FALSE
        BY <3>2 DEF Starts
      <4> QED
        BY <3>2, <4>2, <4>3
    <3> QED
      BY <3>1, <3>2
  <2> QED
    BY <2>1, <2>2
<1>4. CommandsAreDurable' /\ Directed(control)' /\ DisabledIsUnleased'
  BY <1>3 DEF CommandsAreDurable, Directed, DisabledIsUnleased, EnableAt, DrainConfirmed,
              Unroute, NoTransition
<1>5. Snapshot' /\ Undoing' /\ DecidesIn'
  BY <1>1, <1>2, Outside DEF Inside, Writing, DecidesIn
<1>6. \A k \in Clients : client'[k].pc # "write"
  <2> SUFFICES ASSUME NEW k \in Clients PROVE client'[k].pc # "write"
    OBVIOUS
  <2>1. \E changes : ToClient(c, changes) /\ changes.pc # "write"
    <3>1. /\ [client[c] EXCEPT !.pc = "kick"].pc # "write"
          /\ ClientIdle.pc # "write"
      BY <1>1 DEF ClientIdle, ClientStates
    <3> QED
      BY <3>1 DEF WriteCommand
  <2>2. client[k].pc = "write" => k = c
    BY <1>1 DEF IInv, Mutex
  <2> QED
    BY <2>1, <2>2, ClientSteps DEF IInv
<1>7. Mutex'
  BY <1>1, <1>2, <1>6 DEF Mutex
<1> QED
  BY <1>1, <1>4, <1>5, <1>7 DEF IInv

\* Every step of an operator's program.
LEMMA InvOperator ==
  ASSUME IInv, NEW c \in Clients, Operator(c)
  PROVE  IInv'
<1>1. TypeOK /\ TypeOK' /\ client[c] \in ClientStates
  BY OperatorType DEF IInv, TypeOK
<1>2. ASSUME NEW op \in Commands, Issue(c, op) PROVE IInv'
  <2>1. \E changes : ToClient(c, changes) /\ changes.pc = "enter"
    <3>1. PICK o : ToClient(c, [ClientIdle EXCEPT !.pc = "enter", !.op = o])
      BY <1>2 DEF Issue
    <3>2. [ClientIdle EXCEPT !.pc = "enter", !.op = o].pc = "enter"
      BY DEF ClientIdle
    <3> QED
      BY <3>1, <3>2
  <2>2. Mutex'
    BY <1>1, <1>2, <2>1, ClientSteps DEF IInv, Mutex, Issue
  <2> QED
    BY <1>1, <1>2, <2>2, InvFrame DEF Issue
<1>3. CASE Enter(c)
  <2>1. \A k \in Clients : client'[k].pc = "write" => lock' = k
    BY <1>1, <1>3, ClientsAssumption, ClientSteps DEF IInv, Mutex, Enter
  <2>2. Mutex'
    BY <1>3, <2>1 DEF IInv, Mutex, Enter
  <2> QED
    BY <1>1, <1>3, <2>2, InvFrame DEF Enter
<1>4. CASE Refused(c)
  <2>1. Mutex'
    BY <1>1, <1>4, ClientSteps DEF IInv, Mutex, Refused, ClientIdle, worldVars
  <2> QED
    BY <1>1, <1>4, <2>1, InvFrame DEF Refused
<1>5. CASE WriteCommand(c)
  BY <1>1, <1>5, InvWriteCommand
<1>6. CASE Kickstart(c)
  <2>1. ClientIdle.pc # "write" /\ ToClient(c, ClientIdle)
    BY <1>6 DEF Kickstart, ClientIdle
  <2>2. CASE job = "unloaded"
    <3>1. Mutex'
      BY <1>1, <1>6, <2>1, <2>2, ClientSteps DEF IInv, Mutex, Kickstart
    <3> QED
      BY <1>1, <1>6, <2>2, <3>1, InvFrame DEF Kickstart
  <2>3. CASE job # "unloaded"
    <3>1. sup'.pc = "down" /\ lock' = Released("supervisor")
      BY <1>6, <2>3 DEF Kickstart, SupervisorDies, SupAt
    <3>2. Mutex'
      BY <1>1, <2>1, <3>1, ClientsAssumption, ClientSteps DEF IInv, Mutex, Inside, Released
    <3> QED
      BY <1>1, <1>6, <3>1, <3>2, InvFrame DEF Kickstart
  <2> QED
    BY <2>2, <2>3
<1>7. CASE IssueUninstall(c)
  <2>1. Mutex'
    <3>1. CASE client' = client
      BY <1>7, <3>1 DEF IInv, Mutex, IssueUninstall
    <3>2. CASE ToClient(c, [ClientIdle EXCEPT !.pc = "bootout", !.op = "uninstall"])
      <4>1. [ClientIdle EXCEPT !.pc = "bootout", !.op = "uninstall"].pc # "write"
        BY DEF ClientIdle
      <4> QED
        BY <1>1, <1>7, <3>2, <4>1, ClientSteps DEF IInv, Mutex, IssueUninstall
    <3> QED
      BY <1>7, <3>1, <3>2 DEF IssueUninstall
  <2> QED
    BY <1>1, <1>7, <2>1, InvFrame DEF IssueUninstall
<1>8. CASE Bootout(c)
  <2>1. sup'.pc = "down"
    BY <1>8 DEF Bootout, SupervisorDies, SupAt
  <2>2. Mutex'
    BY <1>1, <1>8, <2>1, ClientSteps DEF IInv, Mutex, Inside, Bootout, ClientIdle
  <2> QED
    BY <1>1, <1>8, <2>1, <2>2, InvFrame DEF Bootout
<1> QED
  BY <1>2, <1>3, <1>4, <1>5, <1>6, <1>7, <1>8 DEF Operator

\* Every other step.  Failed writes and expired leases are assumed away.
LEMMA InvEnvironment ==
  ASSUME IInv, WritesSucceed, Environment
  PROVE  IInv'
<1>1. TypeOK /\ TypeOK'
  BY EnvironmentType DEF IInv
<1>2. ~WriteFails /\ ~RecordFails /\ ~LeaseExpires
  BY DEF WritesSucceed, WriteFails, RecordFails, LeaseExpires, Fault
<1>3. ASSUME NEW value \in Routes, Edit(value) PROVE IInv'
  BY <1>1, <1>3, InvFrame DEF Edit, IInv, Mutex
<1>4. CASE Crash
  <2>1. sup'.pc = "down" /\ lock' = Released("supervisor") /\ client' = client
    BY <1>4 DEF Crash, SupervisorDies, SupAt
  <2>2. Mutex'
    BY <2>1, ClientsAssumption DEF IInv, Mutex, Inside, Released
  <2> QED
    BY <1>1, <1>4, <2>1, <2>2, InvFrame DEF Crash
<1>5. CASE Signal \/ DrainedExit
  <2>1. sup'.pc = "down" /\ UNCHANGED <<control, acked, client, lock>>
    BY <1>5 DEF Signal, DrainedExit, SupervisorDies, SupAt, operatorVars
  <2>2. Mutex'
    BY <2>1 DEF IInv, Mutex, Inside
  <2> QED
    BY <1>1, <2>1, <2>2, InvFrame
<1>6. CASE Reboot
  <2>1. sup'.pc = "down" /\ \A c \in Clients : client'[c].pc = "idle"
    BY <1>6 DEF Reboot, SupervisorDies, SupAt, ClientIdle
  <2>2. Mutex'
    BY <2>1 DEF Mutex, Inside
  <2> QED
    BY <1>1, <1>6, <2>1, <2>2, InvFrame DEF Reboot
<1>7. CASE PortInUse
  BY <1>1, <1>7, InvFrame DEF PortInUse, IInv, Mutex
<1>8. ASSUME NEW c \in Clients, ClientCrash(c) PROVE IInv'
  <2>1. ToClient(c, ClientIdle) /\ ClientIdle.pc # "write" /\ sup' = sup
    BY <1>8 DEF ClientCrash, ClientIdle
  <2>2. \A k \in Clients : client'[k].pc = "write" => k # c /\ client[k].pc = "write"
    BY <1>1, <2>1, ClientSteps
  <2>3. Mutex'
    BY <1>8, <2>1, <2>2, ClientsAssumption DEF IInv, Mutex, Inside, ClientCrash, Released
  <2> QED
    BY <1>1, <1>8, <2>1, <2>3, InvFrame DEF ClientCrash
<1> QED
  BY <1>2, <1>3, <1>4, <1>5, <1>6, <1>7, <1>8 DEF Environment

\* Every step keeps the inductive invariant.
LEMMA InvStep ==
  ASSUME WritesSucceed PROVE IInv /\ [Next]_vars => IInv'
<1>1. ASSUME IInv, UNCHANGED vars PROVE IInv'
  BY <1>1 DEF vars, IInv, TypeOK, Mutex, CommandsAreDurable, Directed, DisabledIsUnleased,
              Snapshot, Undoing, DecidesIn, Unleased
<1> QED
  BY <1>1, InvSupervisor, InvOperator, InvEnvironment DEF Next

-----------------------------------------------------------------------------
(* The theorems                                                            *)

\* What the last start or stop that reported success asked for is what is on
\* disk, however many commands, passes, crashes and reboots interleave: the
\* transition lock around every read-modify-write of control.json does its
\* work as long as nobody writes without it.
THEOREM CommandsSurvive ==
  ASSUME WritesSucceed PROVE Spec => []CommandsAreDurable
<1>1. IInv => CommandsAreDurable
  BY DEF IInv
<1> QED
  BY <1>1, InvInit, InvStep, PTL DEF Spec

\* A disabled proxy with nothing in flight holds no lease, so the monitor never
\* re-applies its route.
THEOREM DisabledUnleased ==
  ASSUME WritesSucceed PROVE Spec => []DisabledIsUnleased
<1>1. IInv => DisabledIsUnleased
  BY DEF IInv
<1> QED
  BY <1>1, InvInit, InvStep, PTL DEF Spec

\* No step of the supervisor creates a route after a stop was acknowledged,
\* whatever the supervisor had observed and planned before the stop.
THEOREM StoppedStaysUnrouted ==
  ASSUME WritesSucceed PROVE Spec => StoppedIsNotRouted
<1>1. IInv /\ [Next]_vars => [RouteWritten /\ route' = "exact" => acked]_vars
  <2> SUFFICES ASSUME IInv, WriteSettings, route' = "exact" PROVE acked
    BY DEF RouteWritten
  <2>1. sup.pc = "settings" /\ sup.last = "apply"
    BY DEF WriteSettings
  <2>2. control.desired
    BY <2>1 DEF IInv, Undoing
  <2>3. control \in ControlStates /\ acked \in BOOLEAN
    BY DEF IInv, TypeOK
  <2> QED
    BY <2>2, <2>3 DEF IInv, CommandsAreDurable
<1> QED
  BY <1>1, InvInit, InvStep, PTL DEF Spec, StoppedIsNotRouted

-----------------------------------------------------------------------------
(***************************************************************************)
(* The promises of the matrix.  PlansOf lists every plan with the rows and *)
(* the observations it answers; what MatrixIsGuarded, and the invariants   *)
(* of the later sections, need of a decision follows from that list.       *)
(***************************************************************************)

\* The plans of an observation, per transition.
Planned(t, o, acts) ==
  \/ acts \in {<<>>, <<"clear_lease">>, <<"resume_bootstrap">>, <<"install_lease">>}
  \/ o.generationLive /\ acts = <<"clear_lease", "enter_drain">>
  \/ ~o.generationLive /\ acts = <<"clear_lease", "clear_transition">>
  \/ t.kind = "enable" /\ acts \in {<<"clear_transition">>,
                                    <<"verify_route", "promote_lease", "clear_transition">>}
  \/ /\ t.kind = "enable" /\ o.generationLive
     /\ acts = <<"clear_lease", "enter_drain", "clear_transition">>
  \/ /\ t.kind = "enable" /\ o.route = "absent" /\ o.health = "matching"
     /\ acts = <<"apply_route", "verify_route", "promote_lease", "clear_transition">>
  \/ LeasedExact(o) /\ acts = <<"remove_route", "verify_route">>
  \/ /\ LeasedExact(o) /\ t.kind = "enable"
     /\ \/ acts = <<"remove_route", "clear_lease">>
        \/ acts = <<"remove_route", "clear_lease", "clear_transition">>
        \/ /\ o.generationLive
           /\ acts = <<"remove_route", "verify_route", "enter_drain", "clear_transition">>
  \/ /\ t = EnableAt("listener_healthy") /\ o.health # "matching"
     /\ acts = <<"stop_listener">>
  \/ /\ t = DrainConfirmed /\ o.confirmed /\ o.route \in {"absent", "foreign"}
     /\ acts = <<"clear_lease", "stop_listener", "clear_transition">>

\* A one-element sequence before a one- or two-element one.
LEMMA Before ==
  ASSUME NEW a, NEW b, NEW c
  PROVE  <<a>> \o <<b>> = <<a, b>> /\ <<a>> \o <<b, c>> = <<a, b, c>>
<1> DEFINE S == {a, b, c}
<1>1. /\ <<a>> \in Seq(S) /\ <<b>> \in Seq(S) /\ <<b, c>> \in Seq(S)
      /\ <<a, b>> \in Seq(S) /\ <<a, b, c>> \in Seq(S)
      /\ Len(<<a>>) = 1 /\ Len(<<b>>) = 1 /\ Len(<<b, c>>) = 2
  OBVIOUS
<1>2. <<a>> \o <<b>> = <<a, b>>
  <2> DEFINE s == <<a>> \o <<b>>
             t == <<a, b>>
  <2>1. s \in Seq(S) /\ Len(s) = 2 /\ s[1] = <<a>>[1] /\ s[2] = <<b>>[1]
    BY <1>1, ConcatProperties
  <2>2. t \in Seq(S) /\ Len(t) = 2 /\ t[1] = a /\ t[2] = b
    BY <1>1
  <2>3. \A i \in 1 .. Len(s) : i = 1 \/ i = 2
    BY <2>1
  <2>4. s[1] = t[1] /\ s[2] = t[2]
    BY <2>1, <2>2
  <2> HIDE DEF s, t
  <2>5. s = t
    BY <2>1, <2>2, <2>3, <2>4, SeqEqual
  <2> QED
    BY <2>5 DEF s, t
<1>3. <<a>> \o <<b, c>> = <<a, b, c>>
  <2> DEFINE s == <<a>> \o <<b, c>>
             t == <<a, b, c>>
  <2>1. s \in Seq(S) /\ Len(s) = 3 /\ s[1] = <<a>>[1] /\ s[2] = <<b, c>>[1] /\ s[3] = <<b, c>>[2]
    BY <1>1, ConcatProperties
  <2>2. t \in Seq(S) /\ Len(t) = 3 /\ t[1] = a /\ t[2] = b /\ t[3] = c
    BY <1>1
  <2>3. \A i \in 1 .. Len(s) : i = 1 \/ i = 2 \/ i = 3
    BY <2>1
  <2>4. s[1] = t[1] /\ s[2] = t[2] /\ s[3] = t[3]
    BY <2>1, <2>2
  <2> HIDE DEF s, t
  <2>5. s = t
    BY <2>1, <2>2, <2>3, <2>4, SeqEqual
  <2> QED
    BY <2>5 DEF s, t
<1> QED
  BY <1>2, <1>3

\* The value-guarded removal, spelled out.
LEMMA RemovalPlans ==
  ASSUME NEW o
  PROVE  /\ LeasedExact(o) =>
              /\ RemoveIfLeased(o) \o <<"clear_lease">> = <<"remove_route", "clear_lease">>
              /\ RemoveIfLeased(o) \o <<"clear_lease", "clear_transition">> =
                   <<"remove_route", "clear_lease", "clear_transition">>
         /\ ~LeasedExact(o) =>
              /\ RemoveIfLeased(o) \o <<"clear_lease">> = <<"clear_lease">>
              /\ RemoveIfLeased(o) \o <<"clear_lease", "clear_transition">> =
                   <<"clear_lease", "clear_transition">>
<1>1. /\ <<>> \o <<"clear_lease">> = <<"clear_lease">>
      /\ <<>> \o <<"clear_lease", "clear_transition">> = <<"clear_lease", "clear_transition">>
  OBVIOUS
<1>2. RemoveIfLeased(o) = IF LeasedExact(o) THEN <<"remove_route">> ELSE <<>>
  BY DEF RemoveIfLeased
<1>3. CASE LeasedExact(o)
  <2>1. RemoveIfLeased(o) = <<"remove_route">>
    BY <1>2, <1>3
  <2> QED
    BY <1>3, <2>1, Before
<1>4. CASE ~LeasedExact(o)
  <2>1. RemoveIfLeased(o) = <<>>
    BY <1>2, <1>4
  <2> QED
    BY <1>1, <1>4, <2>1
<1> QED
  BY <1>3, <1>4

\* The plans of an enable's rollback.
LEMMA RollbackPlans ==
  ASSUME NEW t, t.kind = "enable", NEW o \in Observations
  PROVE  Planned(t, o, ReconcileEnableRollback(o).actions)
<1>1. o.generationLive \in BOOLEAN
  BY DEF Observations
<1>2. CASE ~o.generationLive
  <2> DEFINE acts == RemoveIfLeased(o) \o <<"clear_lease", "clear_transition">>
  <2>1. ReconcileEnableRollback(o) = Fail(acts, "none", "runtime_failed")
    BY <1>2 DEF ReconcileEnableRollback
  <2> HIDE DEF acts
  <2>2. ReconcileEnableRollback(o).actions = acts
    BY <2>1, BuildersActions
  <2> QED
    BY <1>2, <2>2, RemovalPlans DEF acts, Planned
<1>3. CASE o.generationLive
  BY <1>3, BuildersActions DEF ReconcileEnableRollback, Planned
<1> QED
  BY <1>1, <1>2, <1>3

\* The plans of enable@lease_installing.
LEMMA LeaseInstallingPlans ==
  ASSUME NEW t, t.kind = "enable", NEW o \in Observations
  PROVE  Planned(t, o, ReconcileLeaseInstalling(o).actions)
<1>1. o.route \in Routes
  BY DEF Observations
<1>2. CASE o.route = "exact" /\ o.health # "matching"
  <2> DEFINE acts == RemoveIfLeased(o) \o <<"clear_lease">>
  <2>1. ReconcileLeaseInstalling(o) = Fail(acts, "route_removed", "healthcheck_failed")
    BY <1>2 DEF ReconcileLeaseInstalling
  <2> HIDE DEF acts
  <2>2. ReconcileLeaseInstalling(o).actions = acts
    BY <2>1, BuildersActions
  <2> QED
    BY <2>2, RemovalPlans DEF acts, Planned
<1>3. CASE ~(o.route = "exact" /\ o.health # "matching")
  <2>1. CASE o.route = "absent" /\ o.health = "matching"
    <3>1. ReconcileLeaseInstalling(o) =
            Complete(<<"apply_route", "verify_route", "promote_lease", "clear_transition">>)
      BY <2>1 DEF ReconcileLeaseInstalling
    <3> QED
      BY <2>1, <3>1, BuildersActions DEF Planned
  <2>2. CASE ~(o.route = "absent" /\ o.health = "matching")
    <3>1. ReconcileLeaseInstalling(o) \in
            {Fail(<<"clear_lease">>, "route_conflict", "route_conflict"),
             Fail(<<"clear_lease">>, "route_removed", "healthcheck_failed"),
             Complete(<<"verify_route", "promote_lease", "clear_transition">>),
             Retain(<<>>, "settings_invalid")}
      BY <1>1, <1>3, <2>2 DEF ReconcileLeaseInstalling, Routes
    <3>2. ReconcileLeaseInstalling(o).actions \in
            {<<"clear_lease">>, <<"verify_route", "promote_lease", "clear_transition">>, <<>>}
      BY <3>1, BuildersActions
    <3> QED
      BY <3>2 DEF Planned
  <2> QED
    BY <2>1, <2>2
<1> QED
  BY <1>2, <1>3

\* The plans of an enable.
LEMMA EnablePlans ==
  ASSUME NEW p \in EnablePhases, NEW o \in Observations, NEW d \in BOOLEAN
  PROVE  Planned(EnableAt(p), o, ReconcileEnable(p, o, d).actions)
<1>1. EnableAt(p).kind = "enable"
  BY DEF EnableAt
<1>2. CASE p = "lease_installing"
  BY <1>1, <1>2, LeaseInstallingPlans DEF ReconcileEnable
<1>3. CASE p = "route_verified" /\ o.route = "exact" /\ o.health = "matching"
  <2>1. ReconcileEnable(p, o, d).actions = <<"clear_transition">>
    BY <1>3, BuildersActions DEF ReconcileEnable
  <2> QED
    BY <1>1, <2>1 DEF Planned
<1>4. CASE p = "rollback" \/ (p = "route_verified" /\ ~(o.route = "exact" /\ o.health = "matching"))
  <2>1. ReconcileEnable(p, o, d) = ReconcileEnableRollback(o)
    BY <1>4 DEF ReconcileEnable
  <2> QED
    BY <1>1, <2>1, RollbackPlans
<1>5. CASE p \in {"intent_persisted", "bootstrap_pending"}
  <2>1. ReconcileEnable(p, o, d).actions \in {<<"clear_transition">>, <<"resume_bootstrap">>}
    BY <1>5, BuildersActions DEF ReconcileEnable
  <2> QED
    BY <1>1, <2>1 DEF Planned
<1>6. CASE p = "listener_healthy"
  <2>1. ReconcileEnable(p, o, d).actions =
          IF o.health = "matching" THEN <<"install_lease">> ELSE <<"stop_listener">>
    BY <1>6, BuildersActions DEF ReconcileEnable
  <2> QED
    BY <1>6, <2>1 DEF Planned
<1> QED
  BY <1>2, <1>3, <1>4, <1>5, <1>6 DEF EnablePhases

\* The plans of a disable.
LEMMA DisablePlans ==
  ASSUME NEW t \in {Unroute, UnrouteRollback}, NEW o \in Observations
  PROVE  Planned(t, o, ReconcileDisable(t.phase, o).actions)
<1>1. o.route \in Routes /\ o.hasLease \in BOOLEAN /\ o.generationLive \in BOOLEAN
  BY DEF Observations
<1>2. CASE LeasedExact(o)
  <2>1. ReconcileDisable(t.phase, o).actions \in {<<>>, <<"remove_route", "verify_route">>}
    BY <1>2, BuildersActions DEF ReconcileDisable, LeasedExact
  <2> QED
    BY <1>2, <2>1 DEF Planned
<1>3. CASE ~LeasedExact(o) /\ o.route \in {"absent", "foreign"}
  <2>1. ReconcileDisable(t.phase, o).actions =
          IF o.generationLive THEN <<"clear_lease", "enter_drain">>
                              ELSE <<"clear_lease", "clear_transition">>
    BY <1>3, BuildersActions DEF ReconcileDisable
  <2> QED
    BY <1>1, <2>1 DEF Planned
<1>4. CASE ~LeasedExact(o) /\ o.route \in {"exact", "invalid"}
  <2>1. ReconcileDisable(t.phase, o).actions = <<>>
    BY <1>1, <1>4, BuildersActions DEF ReconcileDisable, LeasedExact
  <2> QED
    BY <2>1 DEF Planned
<1> QED
  BY <1>1, <1>2, <1>3, <1>4 DEF Routes

\* The plans of a confirmed drain.
LEMMA DrainPlans ==
  ASSUME NEW o \in Observations
  PROVE  Planned(DrainConfirmed, o, ReconcileDrain(o).actions)
<1>1. o.route \in Routes /\ o.hasLease \in BOOLEAN /\ o.generationLive \in BOOLEAN
      /\ o.confirmed \in BOOLEAN
  BY DEF Observations
<1>2. CASE (o.route = "exact" /\ ~o.hasLease) \/ o.route = "invalid" \/ ~o.confirmed
  <2>1. ReconcileDrain(o).actions = <<>>
    BY <1>1, <1>2, BuildersActions DEF ReconcileDrain
  <2> QED
    BY <2>1 DEF Planned
<1>3. CASE LeasedExact(o) /\ o.confirmed
  <2>1. ReconcileDrain(o).actions = <<"remove_route", "verify_route">>
    BY <1>1, <1>3, BuildersActions DEF ReconcileDrain, LeasedExact
  <2> QED
    BY <1>3, <2>1 DEF Planned
<1>4. CASE o.route \in {"absent", "foreign"} /\ o.confirmed
  <2>1. ReconcileDrain(o).actions =
          IF o.generationLive THEN <<"clear_lease", "stop_listener", "clear_transition">>
                              ELSE <<"clear_lease", "clear_transition">>
    BY <1>1, <1>4, BuildersActions DEF ReconcileDrain, LeasedExact
  <2> QED
    BY <1>1, <1>4, <2>1 DEF Planned
<1> QED
  BY <1>1, <1>2, <1>3, <1>4 DEF Routes, LeasedExact

\* Every decision of the matrix is one of these plans.
LEMMA PlansOf ==
  ASSUME NEW t \in Transitions, NEW o \in Observations, NEW d \in BOOLEAN
  PROVE  Planned(t, o, ReconcileTransition(t, o, d).actions)
<1>1. ASSUME NEW p \in EnablePhases, t = EnableAt(p)
      PROVE  Planned(t, o, ReconcileTransition(t, o, d).actions)
  <2>1. ReconcileTransition(t, o, d) = ReconcileEnable(p, o, d)
    BY <1>1 DEF ReconcileTransition, EnableAt
  <2> QED
    BY <1>1, <2>1, EnablePlans
<1>2. CASE t \in {Unroute, UnrouteRollback}
  <2>1. ReconcileTransition(t, o, d) = ReconcileDisable(t.phase, o)
    BY <1>2 DEF ReconcileTransition, Unroute, UnrouteRollback
  <2> QED
    BY <1>2, <2>1, DisablePlans
<1>3. CASE t = DrainConfirmed
  <2>1. ReconcileTransition(t, o, d) = ReconcileDrain(o)
    BY <1>3 DEF ReconcileTransition, DrainConfirmed
  <2> QED
    BY <1>3, <2>1, DrainPlans
<1> QED
  BY <1>1, <1>2, <1>3 DEF Transitions

\* What a list of actions holds, and in which order: one action.
LEMMA PlanOfOne ==
  ASSUME NEW dec, NEW a, dec.actions = <<a>>
  PROVE  Actions(dec) = {a}
  BY DEF Actions

\* The same for two actions.
LEMMA PlanOfTwo ==
  ASSUME NEW dec, NEW a, NEW b, dec.actions = <<a, b>>
  PROVE  Actions(dec) = {a, b} /\ Precedes(dec, a, b)
<1>1. DOMAIN dec.actions = 1 .. 2 /\ dec.actions[1] = a /\ dec.actions[2] = b
  OBVIOUS
<1>2. 1 .. 2 = {1, 2}
  OBVIOUS
<1> QED
  BY <1>1, <1>2 DEF Actions, Precedes

\* The same for three actions.
LEMMA PlanOfThree ==
  ASSUME NEW dec, NEW a, NEW b, NEW c, dec.actions = <<a, b, c>>
  PROVE  /\ Actions(dec) = {a, b, c}
         /\ Precedes(dec, a, b) /\ Precedes(dec, a, c) /\ Precedes(dec, b, c)
<1>1. DOMAIN dec.actions = 1 .. 3 /\ dec.actions[1] = a /\ dec.actions[2] = b
      /\ dec.actions[3] = c
  OBVIOUS
<1>2. 1 .. 3 = {1, 2, 3}
  OBVIOUS
<1> QED
  BY <1>1, <1>2 DEF Actions, Precedes

\* The same for four actions.
LEMMA PlanOfFour ==
  ASSUME NEW dec, NEW a, NEW b, NEW c, NEW d, dec.actions = <<a, b, c, d>>
  PROVE  /\ Actions(dec) = {a, b, c, d}
         /\ Precedes(dec, a, b) /\ Precedes(dec, b, c) /\ Precedes(dec, c, d)
<1>1. DOMAIN dec.actions = 1 .. 4 /\ dec.actions[1] = a /\ dec.actions[2] = b
      /\ dec.actions[3] = c /\ dec.actions[4] = d
  OBVIOUS
<1>2. 1 .. 4 = {1, 2, 3, 4}
  OBVIOUS
<1> QED
  BY <1>1, <1>2 DEF Actions, Precedes

\* A decision that is ready reports no error and blocks nothing.
LEMMA ReadyIsClean ==
  ASSUME NEW t \in Transitions, NEW o \in Observations, NEW d \in BOOLEAN,
         ReconcileTransition(t, o, d).ready
  PROVE  /\ ReconcileTransition(t, o, d).error = "none"
         /\ ReconcileTransition(t, o, d).block = "none"
<1>1. ASSUME NEW acts, NEW block, NEW error
      PROVE  /\ Retain(acts, error).ready = FALSE /\ Fail(acts, block, error).ready = FALSE
             /\ Finish(acts).ready = FALSE
             /\ Complete(acts).error = "none" /\ Complete(acts).block = "none"
  BY DEF Retain, Fail, Finish, Complete, Quiet
<1>2. o.route \in Routes /\ o.generationLive \in BOOLEAN /\ o.hasLease \in BOOLEAN
  BY DEF Observations
<1>3. ReconcileEnableRollback(o).ready = FALSE
  BY <1>1, <1>2 DEF ReconcileEnableRollback
<1>4. ReconcileLeaseInstalling(o).ready =>
        ReconcileLeaseInstalling(o).error = "none" /\ ReconcileLeaseInstalling(o).block = "none"
  BY <1>1, <1>2 DEF ReconcileLeaseInstalling, Routes
<1>5. ASSUME NEW p \in EnablePhases, ReconcileEnable(p, o, d).ready
      PROVE  ReconcileEnable(p, o, d).error = "none" /\ ReconcileEnable(p, o, d).block = "none"
  BY <1>1, <1>3, <1>4, <1>5 DEF ReconcileEnable, EnablePhases
<1>6. ASSUME NEW p \in {"unroute_expected", "rollback"}
      PROVE  ReconcileDisable(p, o).ready = FALSE
  BY <1>1, <1>2, <1>6 DEF ReconcileDisable, LeasedExact, Routes
<1>7. ReconcileDrain(o).ready = FALSE
  BY <1>1 DEF ReconcileDrain
<1>8. ASSUME NEW p \in EnablePhases, t = EnableAt(p)
      PROVE  ReconcileTransition(t, o, d) = ReconcileEnable(p, o, d)
  BY <1>8 DEF ReconcileTransition, EnableAt
<1>9. ASSUME t \in {Unroute, UnrouteRollback}
      PROVE  \E p \in {"unroute_expected", "rollback"} :
               ReconcileTransition(t, o, d) = ReconcileDisable(p, o)
  BY <1>9 DEF ReconcileTransition, Unroute, UnrouteRollback
<1>10. ASSUME t = DrainConfirmed PROVE ReconcileTransition(t, o, d) = ReconcileDrain(o)
  BY <1>10 DEF ReconcileTransition, DrainConfirmed
<1> QED
  BY <1>5, <1>6, <1>7, <1>8, <1>9, <1>10 DEF Transitions

\* A planned decision keeps the matrix's promises.
LEMMA PlansKeepPromises ==
  ASSUME NEW row \in Rows, NEW o \in Observations, NEW dec, Planned(row[1], o, dec.actions),
         dec.ready => dec.error = "none" /\ dec.block = "none"
  PROVE  Guarded(row, o, dec) /\ Verified(dec) /\ Confirmed(row, o, dec)
           /\ LeaseCleared(row, o, dec)
<1> DEFINE t == row[1]
<1> USE DEF Guarded, Verified, Confirmed, LeaseCleared
<1>1. CASE dec.actions = <<>>
  BY <1>1 DEF Actions
<1>2. CASE dec.actions \in {<<"clear_lease">>, <<"resume_bootstrap">>, <<"install_lease">>}
  BY <1>2, PlanOfOne
<1>3. CASE dec.actions \in {<<"clear_lease", "enter_drain">>, <<"clear_lease", "clear_transition">>}
  BY <1>3, PlanOfTwo
<1>4. CASE t.kind = "enable" /\ dec.actions = <<"clear_transition">>
  BY <1>4, PlanOfOne
<1>5. CASE t.kind = "enable" /\ dec.actions = <<"verify_route", "promote_lease", "clear_transition">>
  BY <1>5, PlanOfThree
<1>6. CASE t.kind = "enable" /\ dec.actions = <<"clear_lease", "enter_drain", "clear_transition">>
  BY <1>6, PlanOfThree
<1>7. CASE /\ t.kind = "enable" /\ o.route = "absent" /\ o.health = "matching"
           /\ dec.actions = <<"apply_route", "verify_route", "promote_lease", "clear_transition">>
  BY <1>7, PlanOfFour
<1>8. CASE LeasedExact(o) /\ dec.actions = <<"remove_route", "verify_route">>
  BY <1>8, PlanOfTwo
<1>9. CASE LeasedExact(o) /\ t.kind = "enable" /\ dec.actions = <<"remove_route", "clear_lease">>
  BY <1>9, PlanOfTwo
<1>10. CASE /\ LeasedExact(o) /\ t.kind = "enable"
            /\ dec.actions = <<"remove_route", "clear_lease", "clear_transition">>
  BY <1>10, PlanOfThree
<1>11. CASE /\ LeasedExact(o) /\ t.kind = "enable"
            /\ dec.actions = <<"remove_route", "verify_route", "enter_drain", "clear_transition">>
  BY <1>11, PlanOfFour
<1>12. CASE o.health # "matching" /\ dec.actions = <<"stop_listener">>
  BY <1>12, PlanOfOne
<1>13. CASE /\ t = DrainConfirmed /\ o.confirmed /\ o.route \in {"absent", "foreign"}
            /\ dec.actions = <<"clear_lease", "stop_listener", "clear_transition">>
  BY <1>13, PlanOfThree
<1> QED
  BY <1>1, <1>2, <1>3, <1>4, <1>5, <1>6, <1>7, <1>8, <1>9, <1>10, <1>11, <1>12, <1>13
     DEF Planned

\* Whatever a pass observes, in whatever row the proxy is: the matrix removes
\* and writes a route, stops the listener and clears a transition only where
\* it may and in the order it must.  No row at all breaks a promise, so the
\* claim does not depend on how the proxy came to its row.
THEOREM MatrixGuarded == Spec => []MatrixIsGuarded
<1>1. ASSUME NEW row \in Rows, NEW o \in Observations
      PROVE  LET d == Decision(row, o)
             IN Guarded(row, o, d) /\ Verified(d) /\ Confirmed(row, o, d)
                  /\ LeaseCleared(row, o, d)
  <2>1. PICK t \in Transitions, d \in BOOLEAN : row = <<t, d>>
    BY DEF Rows
  <2>2. row[1] = t /\ Decision(row, o) = ReconcileTransition(t, o, d)
    BY <2>1 DEF Decision
  <2>3. Planned(row[1], o, Decision(row, o).actions)
    BY <2>2, PlansOf
  <2>4. Decision(row, o).ready =>
          Decision(row, o).error = "none" /\ Decision(row, o).block = "none"
    BY <2>2, ReadyIsClean
  <2> QED
    BY <2>3, <2>4, PlansKeepPromises
<1>2. UnguardedRows = {} /\ UnverifiedRows = {} /\ UnconfirmedRows = {} /\ StrayLeaseRows = {}
  BY <1>1 DEF UnguardedRows, UnverifiedRows, UnconfirmedRows, StrayLeaseRows
<1>3. MatrixIsGuarded
  BY <1>2 DEF MatrixIsGuarded
<1> QED
  BY <1>3, PTL

-----------------------------------------------------------------------------
(***************************************************************************)
(* Safety under every fault, failing writes and expired leases included:   *)
(* the value guard of the settings adapter, and the listener that is not   *)
(* stopped under a route the pass saw.  Nothing here may use the lock.     *)
(*                                                                         *)
(* The matrix also stops a listener that fails its health check, route or  *)
(* not; that row is never met, because listener_healthy is only ever       *)
(* written, and read, by a process whose listener is up (ListenerUp).      *)
(***************************************************************************)

Has(acts, a) == \E i \in DOMAIN acts : acts[i] = a

\* A value the adapter is about to replace is one its guard accepted.
Applying ==
  sup.pc = "settings" =>
    stale \/ route = "exact" \/ (sup.last = "apply" /\ route = "absent")

Up(c) == c.transition = EnableAt("listener_healthy") => listener
ListenerUp ==
  /\ sup.pc # "down" => Up(control)
  /\ sup.pc \in Writing \cup {"record"} => Up(sup.seen)
  /\ sup.pc \in Writing => Up(sup.next)

\* A plan that is going to stop the listener is that of a confirmed drain.
StopPlans == {<<"clear_lease", "stop_listener", "clear_transition">>,
              <<"stop_listener", "clear_transition">>}
Stopping ==
  sup.pc \in {"act", "settings"} /\ Has(sup.acts, "stop_listener") =>
    /\ sup.pc = "act"
    /\ sup.acts \in StopPlans
    /\ sup.seen.transition = DrainConfirmed
    /\ sup.next.transition = DrainConfirmed
    /\ control.transition # EnableAt("listener_healthy")
    /\ stale \/ route # "exact"

FInv == TypeOK /\ Applying /\ ListenerUp /\ Stopping

\* The rest of a plan holds nothing that the plan did not.
LEMMA HasTail ==
  ASSUME NEW acts \in Seq(ReconcileActions), acts # <<>>, NEW a, Has(Tail(acts), a)
  PROVE  Has(acts, a)
<1>1. PICK i \in DOMAIN Tail(acts) : Tail(acts)[i] = a
  BY DEF Has
<1>2. Len(acts) \in Nat /\ Len(acts) > 0 /\ DOMAIN acts = 1 .. Len(acts)
  OBVIOUS
<1>3. i \in 1 .. Len(acts) - 1 /\ Tail(acts)[i] = acts[i + 1]
  BY <1>1, <1>2
<1> QED
  BY <1>1, <1>2, <1>3 DEF Has

\* The empty plan holds nothing, a plan of one action that action.
LEMMA HasFew ==
  /\ \A a : ~Has(<<>>, a)
  /\ \A a, b : Has(<<b>>, a) => a = b
  BY DEF Has

\* The actions of a decision, as a set and as a list.
LEMMA HasActions ==
  ASSUME NEW dec, NEW a PROVE Has(dec.actions, a) <=> a \in Actions(dec)
  BY DEF Has, Actions

\* Who plans to stop the listener.
LEMMA PlannedStop ==
  ASSUME NEW t, NEW o, NEW dec, Planned(t, o, dec.actions), Has(dec.actions, "stop_listener")
  PROVE  \/ t = EnableAt("listener_healthy") /\ o.health # "matching"
         \/ t = DrainConfirmed /\ o.route # "exact" /\ dec.actions \in StopPlans
<1>1. "stop_listener" \in Actions(dec)
  BY HasActions
<1>2. dec.actions # <<>>
  BY HasFew
<1>3. dec.actions \notin {<<"clear_lease">>, <<"resume_bootstrap">>, <<"install_lease">>,
                          <<"clear_transition">>}
  BY <1>1, PlanOfOne
<1>4. dec.actions \notin {<<"clear_lease", "enter_drain">>, <<"clear_lease", "clear_transition">>,
                          <<"remove_route", "verify_route">>, <<"remove_route", "clear_lease">>}
  BY <1>1, PlanOfTwo
<1>5. dec.actions \notin {<<"verify_route", "promote_lease", "clear_transition">>,
                          <<"clear_lease", "enter_drain", "clear_transition">>,
                          <<"remove_route", "clear_lease", "clear_transition">>}
  BY <1>1, PlanOfThree
<1>6. dec.actions \notin
        {<<"apply_route", "verify_route", "promote_lease", "clear_transition">>,
         <<"remove_route", "verify_route", "enter_drain", "clear_transition">>}
  BY <1>1, PlanOfFour
<1> QED
  BY <1>2, <1>3, <1>4, <1>5, <1>6 DEF Planned, StopPlans

\* Such a plan starts with the lease or with the listener.
LEMMA StopPlanSteps ==
  ASSUME NEW p \in StopPlans
  PROVE  /\ p # <<>> /\ Head(p) \in {"clear_lease", "stop_listener"}
         /\ Head(p) = "clear_lease" => Tail(p) \in StopPlans
         /\ Head(p) = "stop_listener" => Tail(p) = <<"clear_transition">>
<1>1. CASE p = <<"clear_lease", "stop_listener", "clear_transition">>
  <2>1. p # <<>> /\ Head(p) = "clear_lease" /\ Tail(p) = <<"stop_listener", "clear_transition">>
    BY <1>1
  <2> QED
    BY <2>1 DEF StopPlans
<1>2. CASE p = <<"stop_listener", "clear_transition">>
  BY <1>2
<1> QED
  BY <1>1, <1>2 DEF StopPlans

-----------------------------------------------------------------------------
(* The invariant is inductive                                              *)

\* A supervisor that is not writing is held to nothing but a listener that is
\* up when control.json says so.
LEMMA FaultsOutside ==
  ASSUME TypeOK', sup'.pc \notin Writing \cup {"record"}, sup'.pc # "down" => Up(control)'
  PROVE  FInv'
  BY DEF FInv, Applying, ListenerUp, Stopping, Writing

\* Nothing is written at the start.
LEMMA FaultsInit == Init => FInv
<1> SUFFICES ASSUME Init PROVE FInv
  OBVIOUS
<1>1. sup.pc = "down" /\ TypeOK
  BY InitType DEF Init, SupAt
<1> QED
  BY <1>1 DEF FInv, Applying, ListenerUp, Stopping, Writing

\* Launch, boot, tick, and the passes with nothing to do.
LEMMA FaultsEnterLeave ==
  ASSUME FInv, TypeOK', Launch \/ Boot \/ Tick \/ PassOver
  PROVE  FInv'
<1>1. sup'.pc \in {"boot", "loop", "idle"}
  BY DEF Launch, Boot, Tick, PassOver, Leave, SupAt
<1>2. control' = control
  BY DEF Launch, Boot, Tick, PassOver
<1>3. CASE Launch
  BY <1>1, <1>3, FaultsOutside DEF Launch, Up, Writing
<1>4. CASE Boot \/ Tick \/ PassOver
  <2>1. sup.pc # "down" /\ listener' = listener
    BY <1>4 DEF Boot, Tick, PassOver, worldVars
  <2> QED
    BY <1>1, <1>2, <2>1, FaultsOutside DEF FInv, ListenerUp, Up, Writing
<1> QED
  BY <1>3, <1>4

\* enable@intent to listener_healthy: only with the listener up.
LEMMA FaultsAdvance ==
  ASSUME FInv, TypeOK', AdvanceBootstrap
  PROVE  FInv'
<1>1. sup'.pc = "commit" /\ listener' = TRUE
  BY DEF AdvanceBootstrap, FInv, TypeOK, SupStates, worldVars
<1> QED
  BY <1>1 DEF FInv, Applying, ListenerUp, Stopping, Up

\* A decision that stops the listener is a drain's, and it saw no route to us.
LEMMA FaultsDecide ==
  ASSUME FInv, TypeOK', Decide
  PROVE  FInv'
<1> DEFINE d == ReconcileTransition(control.transition, Observed, control.desired)
<1>1. sup \in SupStates /\ control \in ControlStates
  BY DEF FInv, TypeOK
<1>2. /\ sup'.pc = "act" /\ sup'.seen = control /\ sup'.next = control
      /\ sup'.acts = d.actions
  BY <1>1 DEF Decide, SupStates
<1>3. UNCHANGED <<control, listener, route>>
  BY DEF Decide, worldVars
<1>4. Up(control)
  BY DEF Decide, FInv, ListenerUp
<1>5. ListenerUp'
  BY <1>2, <1>3, <1>4 DEF ListenerUp, Up
<1>6. Stopping'
  <2> SUFFICES ASSUME Has(d.actions, "stop_listener")
               PROVE  /\ d.actions \in StopPlans
                      /\ control.transition = DrainConfirmed
                      /\ control.transition # EnableAt("listener_healthy")
                      /\ route # "exact"
    BY <1>2, <1>3 DEF Stopping
  <2>1. control.transition \in Transitions /\ control.desired \in BOOLEAN
    BY <1>1 DEF Decide, ControlStates
  <2>2. Observed \in Observations
    BY ObservedType DEF FInv
  <2>3. Planned(control.transition, Observed, d.actions)
    BY <2>1, <2>2, PlansOf
  <2>4. Observed.route = route /\ (listener => Observed.health = "matching")
    BY DEF Observed
  <2>5. \/ control.transition = EnableAt("listener_healthy") /\ Observed.health # "matching"
        \/ /\ control.transition = DrainConfirmed /\ Observed.route # "exact"
           /\ d.actions \in StopPlans
    BY <2>3, PlannedStop
  <2>6. DrainConfirmed # EnableAt("listener_healthy")
    BY DEF DrainConfirmed, EnableAt
  <2> QED
    BY <1>4, <2>4, <2>5, <2>6 DEF Up
<1> QED
  BY <1>2, <1>5, <1>6 DEF FInv, Applying

\* The monitor's plan has one action, and what it records of a drift keeps the
\* transition.
LEMMA FaultsMonitor ==
  ASSUME FInv, TypeOK', Monitor
  PROVE  FInv'
<1>1. sup \in SupStates /\ control \in ControlStates
  BY DEF FInv, TypeOK
<1>2. /\ sup'.pc \in {"act", "commit"} /\ sup'.seen = control
      /\ sup'.next \in {control, Drifted(control, route)}
      /\ sup'.pc = "act" => sup'.acts = <<"apply_route">>
  BY <1>1 DEF Monitor, SupStates
<1>3. UNCHANGED <<control, listener, route>> /\ Up(control)
  BY DEF Monitor, worldVars, FInv, ListenerUp
<1>4. Drifted(control, route).transition = control.transition
  BY <1>1 DEF Drifted, ControlStates
<1>5. ListenerUp'
  BY <1>2, <1>3, <1>4 DEF ListenerUp, Up
<1>6. sup'.pc = "act" => ~Has(sup'.acts, "stop_listener")
  BY <1>2, HasFew
<1> QED
  BY <1>2, <1>5, <1>6 DEF FInv, Applying, Stopping

\* Local actions: a stop plan gives up its lease and stays one.
LEMMA FaultsActLocally ==
  ASSUME FInv, TypeOK', ActLocally
  PROVE  FInv'
<1>1. PICK a \in LocalActions :
        NextAct(a) /\ sup' = [Done(sup) EXCEPT !.next = Applied(sup.next, a)]
  BY DEF ActLocally
<1>2. sup \in SupStates /\ sup.next \in ControlStates
  BY DEF FInv, TypeOK, SupStates
<1>3. /\ sup.pc = "act" /\ sup'.pc = "act" /\ sup'.seen = sup.seen
      /\ sup.acts # <<>> /\ Head(sup.acts) = a
      /\ sup'.acts = Tail(sup.acts) /\ sup'.next = Applied(sup.next, a)
  BY <1>1, <1>2 DEF NextAct, Done, SupStates
<1>4. Applied(sup.next, a).transition =
        IF a = "clear_transition" THEN NoTransition ELSE sup.next.transition
  BY <1>2 DEF Applied, LocalActions, ControlStates
<1>5. UNCHANGED <<control, route, listener, stale>>
  BY DEF ActLocally, worldVars
<1>6. ListenerUp'
  BY <1>3, <1>4, <1>5 DEF FInv, ListenerUp, Up, Writing, NoTransition, EnableAt
<1>7. Stopping'
  <2> SUFFICES ASSUME Has(sup'.acts, "stop_listener")
               PROVE  /\ sup'.acts \in StopPlans
                      /\ sup'.next.transition = DrainConfirmed
                      /\ sup.seen.transition = DrainConfirmed
                      /\ control.transition # EnableAt("listener_healthy")
                      /\ stale \/ route # "exact"
    BY <1>3, <1>5 DEF Stopping
  <2>1. Has(sup.acts, "stop_listener")
    BY <1>2, <1>3, HasTail DEF SupStates
  <2>2. sup.acts \in StopPlans
    BY <1>3, <2>1 DEF FInv, Stopping
  <2>3. a = "clear_lease" /\ Tail(sup.acts) \in StopPlans
    BY <1>3, <2>2, StopPlanSteps DEF LocalActions
  <2> QED
    BY <1>3, <1>4, <2>1, <2>3 DEF FInv, Stopping
<1> QED
  BY <1>3, <1>6, <1>7 DEF FInv, Applying

\* The steps that read or write the settings belong to no stop plan.
LEMMA FaultsSettings ==
  ASSUME FInv, TypeOK', ReadSettings \/ WriteSettings \/ VerifyRoute
  PROVE  FInv'
<1>1. sup \in SupStates
  BY DEF FInv, TypeOK
<1>2. /\ sup.pc \in {"act", "settings"} /\ sup'.pc \in {"act", "settings"}
      /\ sup'.seen = sup.seen /\ sup'.next = sup.next
  BY <1>1 DEF ReadSettings, WriteSettings, VerifyRoute, NextAct, Done, SupStates
<1>3. UNCHANGED <<control, listener>>
  BY DEF ReadSettings, WriteSettings, VerifyRoute, worldVars
<1>4. ListenerUp'
  BY <1>2, <1>3 DEF FInv, ListenerUp, Up, Writing
<1>5. Applying'
  <2>1. CASE ReadSettings
    <3>1. route' = route
      BY <2>1 DEF ReadSettings, worldVars
    <3>2. /\ sup'.pc = "settings" =>
               \/ sup'.last = "apply" /\ route \in {"absent", "exact"}
               \/ route = "exact"
      BY <1>1, <2>1 DEF ReadSettings, NextAct, Done, SupStates
    <3> QED
      BY <3>1, <3>2 DEF Applying
  <2>2. CASE WriteSettings
    BY <1>1, <2>2 DEF WriteSettings, Applying, SupStates
  <2>3. CASE VerifyRoute
    BY <1>1, <2>3 DEF VerifyRoute, NextAct, Done, Applying, SupStates
  <2> QED
    BY <2>1, <2>2, <2>3
<1>6. ~Has(sup.acts, "stop_listener")
  <2>1. CASE WriteSettings
    BY <2>1 DEF WriteSettings, FInv, Stopping
  <2>2. CASE ReadSettings \/ VerifyRoute
    <3>1. Head(sup.acts) \in {"apply_route", "remove_route", "verify_route"}
      BY <2>2 DEF ReadSettings, VerifyRoute, NextAct
    <3>2. sup.acts \notin StopPlans
      BY <3>1, StopPlanSteps
    <3> QED
      BY <1>2, <3>2 DEF FInv, Stopping
  <2> QED
    BY <2>1, <2>2
<1>7. \/ sup'.acts \in {sup.acts, <<>>}
      \/ sup.acts # <<>> /\ sup'.acts = Tail(sup.acts)
  <2>1. CASE WriteSettings
    BY <1>1, <2>1 DEF WriteSettings, SupStates
  <2>2. CASE ReadSettings
    BY <1>1, <2>2 DEF ReadSettings, NextAct, Done, SupStates
  <2>3. CASE VerifyRoute
    BY <1>1, <2>3 DEF VerifyRoute, NextAct, Done, SupStates
  <2> QED
    BY <2>1, <2>2, <2>3
<1>8. ~Has(sup'.acts, "stop_listener")
  <2>1. sup.acts \in Seq(ReconcileActions)
    BY <1>1 DEF SupStates
  <2> QED
    BY <1>6, <1>7, <2>1, HasTail, HasFew
<1> QED
  BY <1>4, <1>5, <1>8 DEF FInv, Stopping

\* The listener goes: nobody is at listener_healthy.
LEMMA FaultsStopListener ==
  ASSUME FInv, TypeOK', StopListener
  PROVE  FInv'
<1>1. sup \in SupStates /\ sup.next \in ControlStates
  BY DEF FInv, TypeOK, SupStates
<1>2. /\ sup.pc = "act" /\ sup.acts # <<>> /\ Head(sup.acts) = "stop_listener"
      /\ sup'.pc = "act" /\ sup'.seen = sup.seen /\ sup'.acts = Tail(sup.acts)
      /\ sup'.next.transition = sup.next.transition /\ control' = control
  BY <1>1 DEF StopListener, NextAct, Done, SupStates, ControlStates
<1>3. Has(sup.acts, "stop_listener")
  <2>1. sup.acts \in Seq(ReconcileActions)
    BY <1>1 DEF SupStates
  <2>2. 1 \in DOMAIN sup.acts /\ sup.acts[1] = "stop_listener"
    BY <1>2, <2>1
  <2> QED
    BY <2>2 DEF Has
<1>4. /\ sup.acts \in StopPlans /\ sup.seen.transition = DrainConfirmed
      /\ sup.next.transition = DrainConfirmed
      /\ control.transition # EnableAt("listener_healthy")
  BY <1>2, <1>3 DEF FInv, Stopping
<1>5. DrainConfirmed # EnableAt("listener_healthy")
  BY DEF DrainConfirmed, EnableAt
<1>6. ListenerUp'
  BY <1>2, <1>4, <1>5 DEF ListenerUp, Up
<1>7. sup'.acts = <<"clear_transition">>
  BY <1>2, <1>4, StopPlanSteps
<1>8. ~Has(sup'.acts, "stop_listener")
  BY <1>7, HasFew
<1> QED
  BY <1>2, <1>6, <1>8 DEF FInv, Applying, Stopping

\* The end of a pass: the record it returns keeps the transition, or goes on to
\* lease_installing.
LEMMA FaultsConclude ==
  ASSUME FInv, TypeOK', Conclude
  PROVE  FInv'
<1>1. /\ sup \in SupStates /\ sup.next \in ControlStates /\ sup.seen \in ControlStates
      /\ sup.pc = "act" /\ UNCHANGED <<control, listener>>
  BY DEF FInv, TypeOK, SupStates, Conclude, worldVars
<1>2. Up(control) /\ Up(sup.seen) /\ Up(sup.next)
  BY <1>1 DEF FInv, ListenerUp, Writing
<1>3. CASE Leave
  <2>1. sup'.pc = "idle"
    BY <1>3 DEF Leave, SupAt
  <2> QED
    BY <1>1, <1>2, <2>1, FaultsOutside DEF Up, Writing
<1>4. ASSUME sup'.pc = "commit", sup'.seen = sup.seen,
             sup'.next.transition \in {sup.next.transition, sup.seen.transition,
                                       EnableAt("lease_installing")}
      PROVE  FInv'
  <2>1. EnableAt("lease_installing") # EnableAt("listener_healthy")
    BY DEF EnableAt
  <2>2. ListenerUp'
    BY <1>1, <1>2, <1>4, <2>1 DEF ListenerUp, Up
  <2> QED
    BY <1>4, <2>2 DEF FInv, Applying, Stopping
<1>5. CASE sup' = [sup EXCEPT !.pc = "commit", !.next = Concluded]
  <2>1. Concluded.transition \in {sup.next.transition, EnableAt("lease_installing")}
    BY <1>1 DEF Concluded, ControlStates
  <2>2. sup'.pc = "commit" /\ sup'.seen = sup.seen /\ sup'.next = Concluded
    BY <1>1, <1>5 DEF SupStates
  <2> QED
    BY <1>4, <2>1, <2>2
<1>6. CASE sup' = [sup EXCEPT !.pc = "commit", !.mode = "block",
                              !.next = Drifted(sup.seen, sup.before)]
  <2>1. Drifted(sup.seen, sup.before).transition = sup.seen.transition
    BY <1>1 DEF Drifted, ControlStates
  <2>2. sup'.pc = "commit" /\ sup'.seen = sup.seen /\ sup'.next = Drifted(sup.seen, sup.before)
    BY <1>1, <1>6 DEF SupStates
  <2> QED
    BY <1>4, <2>1, <2>2
<1> QED
  BY <1>3, <1>5, <1>6 DEF Conclude

\* The supervisor's writes of control.json, the record of a failed tick among
\* them, are of records it holds.
LEMMA FaultsWrites ==
  ASSUME FInv, TypeOK', Commit \/ RecordRead \/ RecordWrite
  PROVE  FInv'
<1>1. sup \in SupStates /\ sup.seen \in ControlStates
  BY DEF FInv, TypeOK, SupStates
<1>2. listener' = listener
  BY DEF Commit, RecordRead, RecordWrite, worldVars
<1>3. CASE Commit
  <2>1. sup'.pc \in {"loop", "idle"}
    <3>1. CASE LoopsAgain
      BY <1>3, <3>1 DEF Commit, SupAt
    <3>2. CASE ~LoopsAgain
      BY <1>3, <3>2 DEF Commit, Leave, SupAt
    <3> QED
      BY <3>1, <3>2
  <2>2. Up(control)'
    BY <1>2, <1>3 DEF Commit, FInv, ListenerUp, Up, Writing
  <2> QED
    BY <2>1, <2>2, FaultsOutside DEF Writing
<1>4. CASE RecordRead
  <2>1. sup'.pc = "record" /\ sup'.seen = control /\ control' = control /\ Up(control)
    BY <1>1, <1>4 DEF RecordRead, SupStates, FInv, ListenerUp
  <2>2. ListenerUp'
    BY <1>2, <2>1 DEF ListenerUp, Up, Writing
  <2> QED
    BY <2>1, <2>2 DEF FInv, Applying, Stopping
<1>5. CASE RecordWrite
  <2>1. sup'.pc = "idle" /\ control'.transition = sup.seen.transition
    BY <1>1, <1>5 DEF RecordWrite, SupAt, ControlStates
  <2>2. Up(control)'
    BY <1>2, <1>5, <2>1 DEF RecordWrite, FInv, ListenerUp, Up
  <2> QED
    BY <2>1, <2>2, FaultsOutside DEF Writing
<1> QED
  BY <1>3, <1>4, <1>5

\* A step of somebody else: the supervisor stays as it is or dies; control.json
\* stays or gets a command; an edit of the settings counts as one.
LEMMA FaultsFrame ==
  ASSUME FInv, TypeOK',
         \/ sup'.pc = "down"
         \/ /\ UNCHANGED <<sup, listener>>
            /\ control' = control \/ control'.transition # EnableAt("listener_healthy")
            /\ stale' \/ UNCHANGED <<route, stale>>
  PROVE  FInv'
<1>1. CASE sup'.pc = "down"
  BY <1>1, FaultsOutside DEF Writing
<1>2. CASE /\ UNCHANGED <<sup, listener>>
           /\ control' = control \/ control'.transition # EnableAt("listener_healthy")
           /\ stale' \/ UNCHANGED <<route, stale>>
  <2>1. ListenerUp'
    BY <1>2 DEF FInv, ListenerUp, Up
  <2>2. Applying'
    BY <1>2 DEF FInv, Applying
  <2>3. Stopping'
    BY <1>2 DEF FInv, Stopping
  <2> QED
    BY <2>1, <2>2, <2>3 DEF FInv
<1> QED
  BY <1>1, <1>2

\* Every step of an operator's program.
LEMMA FaultsOperator ==
  ASSUME FInv, NEW c \in Clients, Operator(c)
  PROVE  FInv'
<1>1. TypeOK' /\ client[c] \in ClientStates
  BY OperatorType DEF FInv, TypeOK
<1>2. CASE WriteCommand(c)
  <2>1. client[c].seen \in ControlStates
    BY <1>1 DEF ClientStates
  <2>2. Commanded(client[c].seen, client[c].op).transition \in
          {EnableAt("intent_persisted"), DrainConfirmed, Unroute}
    BY <2>1 DEF Commanded, ControlStates
  <2>3. control'.transition # EnableAt("listener_healthy")
    BY <1>2, <2>2 DEF WriteCommand, EnableAt, DrainConfirmed, Unroute
  <2> QED
    BY <1>1, <1>2, <2>3, FaultsFrame DEF WriteCommand, worldVars
<1>3. CASE (\E op \in Commands : Issue(c, op)) \/ Enter(c) \/ Refused(c) \/ IssueUninstall(c)
  BY <1>1, <1>3, FaultsFrame DEF Issue, Enter, Refused, IssueUninstall, worldVars
<1>4. CASE Kickstart(c) \/ Bootout(c)
  BY <1>1, <1>4, FaultsFrame DEF Kickstart, Bootout, SupervisorDies, SupAt
<1> QED
  BY <1>2, <1>3, <1>4 DEF Operator

\* Every other step: edits, deaths, failed writes, expired leases.
LEMMA FaultsEnvironment ==
  ASSUME FInv, Environment
  PROVE  FInv'
<1>1. TypeOK'
  BY EnvironmentType DEF FInv
<1>2. ASSUME NEW value \in Routes, Edit(value) PROVE FInv'
  BY <1>1, <1>2, FaultsFrame DEF Edit
<1>3. CASE Crash \/ Signal \/ Reboot \/ DrainedExit
  <2>1. sup'.pc = "down"
    BY <1>3 DEF Crash, Signal, Reboot, DrainedExit, SupervisorDies, SupAt
  <2> QED
    BY <1>1, <2>1, FaultsFrame
<1>4. CASE PortInUse \/ LeaseExpires \/ (\E c \in Clients : ClientCrash(c))
  BY <1>1, <1>4, FaultsFrame DEF PortInUse, LeaseExpires, ClientCrash, worldVars
<1>5. CASE WriteFails \/ RecordFails
  <2>1. /\ sup'.pc \in {"zombie", "failed", "idle"} /\ sup.pc # "down"
        /\ UNCHANGED <<control, listener>>
    BY <1>5 DEF WriteFails, RecordFails, SupAt, worldVars
  <2>2. Up(control)'
    BY <2>1 DEF FInv, ListenerUp, Up
  <2> QED
    BY <1>1, <2>1, <2>2, FaultsOutside DEF Writing
<1> QED
  BY <1>2, <1>3, <1>4, <1>5 DEF Environment

\* Every step, whatever fails, keeps the invariant.
LEMMA FaultsStep == FInv /\ [Next]_vars => FInv'
<1>1. ASSUME FInv, UNCHANGED vars PROVE FInv'
  BY <1>1 DEF vars, FInv, TypeOK, Applying, ListenerUp, Up, Stopping
<1>2. ASSUME FInv, Supervisor PROVE FInv'
  <2>1. TypeOK'
    BY <1>2, SupervisorType DEF FInv
  <2> QED
    BY <1>2, <2>1, FaultsEnterLeave, FaultsAdvance, FaultsDecide, FaultsMonitor,
       FaultsActLocally, FaultsSettings, FaultsStopListener, FaultsConclude, FaultsWrites
       DEF Supervisor
<1> QED
  BY <1>1, <1>2, FaultsOperator, FaultsEnvironment DEF Next

\* A write of the settings replaces an absent value or our own, whatever fails,
\* unless somebody edited the file after the adapter read it.
THEOREM OverwritesOnlyRead == Spec => OverwritesOnlyWhatItRead
<1>1. FInv /\ [Next]_vars => [RouteWritten => stale \/ route \in {"absent", "exact"}]_vars
  BY DEF FInv, Applying, RouteWritten, WriteSettings
<1> QED
  BY <1>1, FaultsInit, FaultsStep, PTL DEF Spec, OverwritesOnlyWhatItRead

\* No pass stops the listener while the route points at it, unless the settings
\* were edited since the pass read them: whatever fails, be it a write that throws,
\* a lock whose lease ran out or a process killed between any two steps.
THEOREM StopsUnrouted == Spec => StopsOnlyUnrouted
<1>1. FInv /\ [Next]_vars => [StopListener => stale \/ route # "exact"]_vars
  <2> SUFFICES ASSUME FInv, StopListener PROVE stale \/ route # "exact"
    OBVIOUS
  <2>1. sup.pc = "act" /\ sup.acts # <<>> /\ Head(sup.acts) = "stop_listener"
    BY DEF StopListener, NextAct
  <2>2. sup.acts \in Seq(ReconcileActions)
    BY DEF FInv, TypeOK, SupStates
  <2>3. 1 \in DOMAIN sup.acts /\ sup.acts[1] = "stop_listener"
    BY <2>1, <2>2
  <2>4. Has(sup.acts, "stop_listener")
    BY <2>3 DEF Has
  <2> QED
    BY <2>1, <2>4 DEF FInv, Stopping
<1> QED
  BY <1>1, FaultsInit, FaultsStep, PTL DEF Spec, StopsOnlyUnrouted

-----------------------------------------------------------------------------
(***************************************************************************)
(* The record at rest (RestIsClean), where writes succeed.  Three things   *)
(* make it true.  The phases route_verified and rollback are never         *)
(* persisted, so a plan that clears the transition reports nothing and     *)
(* resets an old block (Records, Ending).  Where the listener is down, the *)
(* record to be read or written has no draining marker (Draining): the     *)
(* branch of a drain whose generation is dead, which forgets the marker,   *)
(* finds none.  And a command changes the record that is on disk           *)
(* (Current).                                                              *)
(***************************************************************************)

Reached(c) ==
  c.transition.kind = "enable" =>
    c.transition.phase \in {"intent_persisted", "listener_healthy", "lease_installing"}

Clean(c) ==
  c.transition = NoTransition =>
    /\ c.lease # "none" => c.blocked = "none"
    /\ ~c.desired => ~c.drain

Records ==
  /\ Reached(control) /\ Clean(control)
  /\ sup.pc \in Writing => Reached(sup.next)
  /\ sup.pc = "commit" => Clean(sup.next)

Draining ==
  /\ sup.pc \notin Writing \cup {"down"} /\ ~listener => ~control.drain
  /\ sup.pc \in Writing /\ ~listener => ~sup.next.drain

Current == \A c \in Clients : client[c].pc = "write" => client[c].seen = control

\* The transition is the last thing a plan clears, and nothing is reported then.
ClearsLast(acts) ==
  \A i \in DOMAIN acts : acts[i] = "clear_transition" => i = Len(acts)
LastActs == {<<"clear_lease", "clear_transition">>, <<"clear_transition">>}

Ending ==
  sup.pc \in {"act", "settings"} =>
    /\ sup.mode \in {"recover", "drive"} =>
         /\ ClearsLast(sup.acts)
         /\ sup.next.transition = NoTransition =>
              sup.acts = <<>> /\ sup.block = "none" /\ sup.error = "none"
         /\ Has(sup.acts, "clear_transition") => sup.block = "none" /\ sup.error = "none"
    /\ sup.mode \notin {"recover", "drive"} => listener
    /\ ~listener => ~Has(sup.acts, "enter_drain")
    /\ ~control.desired /\ (sup.acts \in LastActs \/ sup.next.transition = NoTransition)
         => ~listener

Rest == Records /\ Draining /\ Current /\ Ending
RInv == IInv /\ FInv /\ Rest

-----------------------------------------------------------------------------
(* Plans                                                                   *)

\* The sets of actions of all plans but two.
LEMMA PlannedSets ==
  ASSUME NEW t, NEW o, NEW dec, Planned(t, o, dec.actions)
  PROVE  /\ "enter_drain" \in Actions(dec) => o.generationLive
         /\ Actions(dec) \in {{"clear_lease", "clear_transition"}, {"clear_transition"}} =>
              t.kind = "enable" \/ ~o.generationLive
<1>1. CASE dec.actions = <<>>
  BY <1>1 DEF Actions
<1>2. CASE dec.actions \in {<<"clear_lease">>, <<"resume_bootstrap">>, <<"install_lease">>,
                            <<"stop_listener">>}
  BY <1>2, PlanOfOne
<1>3. CASE \/ o.generationLive /\ dec.actions = <<"clear_lease", "enter_drain">>
           \/ ~o.generationLive /\ dec.actions = <<"clear_lease", "clear_transition">>
           \/ dec.actions \in {<<"remove_route", "verify_route">>, <<"remove_route", "clear_lease">>}
  BY <1>3, PlanOfTwo
<1>4. CASE t.kind = "enable" /\ dec.actions = <<"clear_transition">>
  BY <1>4, PlanOfOne
<1>5. CASE \/ dec.actions = <<"verify_route", "promote_lease", "clear_transition">>
           \/ o.generationLive /\ dec.actions = <<"clear_lease", "enter_drain", "clear_transition">>
           \/ dec.actions = <<"remove_route", "clear_lease", "clear_transition">>
           \/ dec.actions = <<"clear_lease", "stop_listener", "clear_transition">>
  BY <1>5, PlanOfThree
<1>6. CASE \/ dec.actions =
                <<"apply_route", "verify_route", "promote_lease", "clear_transition">>
           \/ o.generationLive /\ dec.actions =
                <<"remove_route", "verify_route", "enter_drain", "clear_transition">>
  BY <1>6, PlanOfFour
<1> QED
  BY <1>1, <1>2, <1>3, <1>4, <1>5, <1>6 DEF Planned

\* A plan enters draining only with a live generation, and one of a disable or
\* a drain that just clears finds a dead one.
LEMMA PlannedEnds ==
  ASSUME NEW t, NEW o, NEW dec, Planned(t, o, dec.actions)
  PROVE  /\ Has(dec.actions, "enter_drain") => o.generationLive
         /\ dec.actions \in LastActs => t.kind = "enable" \/ ~o.generationLive
<1>1. dec.actions = <<"clear_lease", "clear_transition">> =>
        Actions(dec) = {"clear_lease", "clear_transition"}
  BY PlanOfTwo
<1>2. dec.actions = <<"clear_transition">> => Actions(dec) = {"clear_transition"}
  BY PlanOfOne
<1> QED
  BY <1>1, <1>2, PlannedSets, HasActions DEF LastActs

\* Every plan clears the transition last.
LEMMA PlannedClears ==
  ASSUME NEW t, NEW o, NEW acts, Planned(t, o, acts)
  PROVE  ClearsLast(acts)
<1>1. CASE acts = <<>>
  BY <1>1 DEF ClearsLast
<1>2. ASSUME NEW a, acts = <<a>> PROVE ClearsLast(acts)
  BY <1>2 DEF ClearsLast
<1>3. ASSUME NEW a, NEW b, acts = <<a, b>>, a # "clear_transition" PROVE ClearsLast(acts)
  <2>1. DOMAIN acts = 1 .. 2 /\ acts[1] = a /\ Len(acts) = 2
    BY <1>3
  <2> QED
    BY <1>3, <2>1 DEF ClearsLast
<1>4. ASSUME NEW a, NEW b, NEW c, acts = <<a, b, c>>,
             a # "clear_transition", b # "clear_transition"
      PROVE  ClearsLast(acts)
  <2>1. DOMAIN acts = 1 .. 3 /\ acts[1] = a /\ acts[2] = b /\ Len(acts) = 3
    BY <1>4
  <2> QED
    BY <1>4, <2>1 DEF ClearsLast
<1>5. ASSUME NEW a, NEW b, NEW c, NEW d, acts = <<a, b, c, d>>,
             a # "clear_transition", b # "clear_transition", c # "clear_transition"
      PROVE  ClearsLast(acts)
  <2>1. DOMAIN acts = 1 .. 4 /\ acts[1] = a /\ acts[2] = b /\ acts[3] = c /\ Len(acts) = 4
    BY <1>5
  <2> QED
    BY <1>5, <2>1 DEF ClearsLast
<1> QED
  BY <1>1, <1>2, <1>3, <1>4, <1>5 DEF Planned

\* The rest of a plan clears the transition last, too; and when the transition
\* is cleared the plan is over.
LEMMA ClearsTail ==
  ASSUME NEW acts \in Seq(ReconcileActions), acts # <<>>, ClearsLast(acts)
  PROVE  /\ ClearsLast(Tail(acts))
         /\ Head(acts) = "clear_transition" => Tail(acts) = <<>>
<1>1. /\ Len(acts) \in Nat /\ Len(acts) > 0 /\ DOMAIN acts = 1 .. Len(acts)
      /\ Head(acts) = acts[1]
  OBVIOUS
<1>2. /\ Len(Tail(acts)) = Len(acts) - 1 /\ DOMAIN Tail(acts) = 1 .. Len(acts) - 1
      /\ \A i \in 1 .. Len(acts) - 1 : Tail(acts)[i] = acts[i + 1]
  BY <1>1
<1>3. ClearsLast(Tail(acts))
  BY <1>1, <1>2 DEF ClearsLast
<1>4. ASSUME Head(acts) = "clear_transition" PROVE Tail(acts) = <<>>
  <2>1. Len(acts) = 1
    BY <1>1, <1>4 DEF ClearsLast
  <2>2. Tail(acts) \in Seq(ReconcileActions) /\ Len(Tail(acts)) = 0
    BY <1>2, <2>1
  <2> QED
    BY <2>2, EmptySeq
<1> QED
  BY <1>3, <1>4

\* A plan of a persisted transition that clears it reports nothing.
LEMMA PlannedQuietly ==
  ASSUME NEW t \in Transitions, NEW o \in Observations, NEW d \in BOOLEAN,
         t.kind = "enable" =>
           t.phase \in {"intent_persisted", "listener_healthy", "lease_installing"},
         Has(ReconcileTransition(t, o, d).actions, "clear_transition")
  PROVE  /\ ReconcileTransition(t, o, d).block = "none"
         /\ ReconcileTransition(t, o, d).error = "none"
<1> DEFINE Quietly(dec) ==
      Has(dec.actions, "clear_transition") => dec.block = "none" /\ dec.error = "none"
<1>1. ASSUME NEW acts, NEW block, NEW error
      PROVE  /\ Quietly(Finish(acts)) /\ Quietly(Complete(acts))
             /\ ~Has(acts, "clear_transition") =>
                  Quietly(Retain(acts, error)) /\ Quietly(Fail(acts, block, error))
  BY BuildersActions DEF Retain, Fail, Finish, Complete, Quiet
<1>2. /\ ~Has(<<>>, "clear_transition") /\ ~Has(<<"clear_lease">>, "clear_transition")
      /\ ~Has(<<"resume_bootstrap">>, "clear_transition")
      /\ ~Has(<<"install_lease">>, "clear_transition")
      /\ ~Has(<<"stop_listener">>, "clear_transition")
  BY HasFew
<1>3. /\ ~Has(<<"remove_route", "verify_route">>, "clear_transition")
      /\ ~Has(<<"remove_route", "clear_lease">>, "clear_transition")
  <2>1. ASSUME NEW a, NEW b, Has(<<a, b>>, "clear_transition")
        PROVE  a = "clear_transition" \/ b = "clear_transition"
    BY <2>1 DEF Has
  <2> QED
    BY <2>1
<1>4. o.route \in Routes /\ o.generationLive \in BOOLEAN /\ o.hasLease \in BOOLEAN
  BY DEF Observations
<1>5. ~Has(RemoveIfLeased(o) \o <<"clear_lease">>, "clear_transition")
  BY <1>2, <1>3, RemovalPlans
<1> HIDE DEF Quietly
<1>6. Quietly(ReconcileLeaseInstalling(o))
  BY <1>1, <1>2, <1>4, <1>5 DEF ReconcileLeaseInstalling, Routes
<1>7. ASSUME NEW p \in {"intent_persisted", "listener_healthy", "lease_installing"}
      PROVE  Quietly(ReconcileEnable(p, o, d))
  BY <1>1, <1>2, <1>6, <1>7 DEF ReconcileEnable
<1>8. ASSUME NEW p \in {"unroute_expected", "rollback"}
      PROVE  Quietly(ReconcileDisable(p, o))
  BY <1>1, <1>2, <1>3, <1>4, <1>8 DEF ReconcileDisable, LeasedExact, Routes
<1>9. Quietly(ReconcileDrain(o))
  BY <1>1, <1>2, <1>3 DEF ReconcileDrain
<1>10. ASSUME NEW p \in EnablePhases, t = EnableAt(p)
       PROVE  Quietly(ReconcileTransition(t, o, d))
  <2>1. p \in {"intent_persisted", "listener_healthy", "lease_installing"}
    BY <1>10 DEF EnableAt
  <2>2. ReconcileTransition(t, o, d) = ReconcileEnable(p, o, d)
    BY <1>10 DEF ReconcileTransition, EnableAt
  <2> QED
    BY <1>7, <2>1, <2>2
<1>11. ASSUME t \in {Unroute, UnrouteRollback} PROVE Quietly(ReconcileTransition(t, o, d))
  <2>1. \E p \in {"unroute_expected", "rollback"} :
          ReconcileTransition(t, o, d) = ReconcileDisable(p, o)
    BY <1>11 DEF ReconcileTransition, Unroute, UnrouteRollback
  <2> QED
    BY <1>8, <2>1
<1>12. ASSUME t = DrainConfirmed PROVE Quietly(ReconcileTransition(t, o, d))
  <2>1. ReconcileTransition(t, o, d) = ReconcileDrain(o)
    BY <1>12 DEF ReconcileTransition, DrainConfirmed
  <2> QED
    BY <1>9, <2>1
<1>13. Quietly(ReconcileTransition(t, o, d))
  BY <1>10, <1>11, <1>12 DEF Transitions
<1> QED
  BY <1>13 DEF Quietly

\* What is left of an undoing plan: it just clears if it just cleared before,
\* or if the listener has been stopped.
LEMMA UndoLast ==
  ASSUME NEW p \in UndoPlans, p # <<>>
  PROVE  /\ Tail(p) \in LastActs => p \in LastActs \/ Head(p) = "stop_listener"
         /\ Head(p) = "clear_transition" => p \in LastActs
<1>1. ASSUME NEW a, p = <<a>> PROVE Tail(p) = <<>> /\ Head(p) = a
  BY <1>1
<1>2. ASSUME NEW a, NEW b, p = <<a, b>> PROVE Tail(p) = <<b>> /\ Head(p) = a
  BY <1>2
<1>3. CASE p \in {<<"verify_route">>, <<"enter_drain">>, <<"clear_transition">>}
  <2>1. Tail(p) = <<>> /\ (Head(p) = "clear_transition" => p = <<"clear_transition">>)
    BY <1>1, <1>3
  <2>2. <<>> \notin LastActs
    BY DEF LastActs
  <2> QED
    BY <2>1, <2>2 DEF LastActs
<1>4. CASE p \in {<<"remove_route", "verify_route">>, <<"clear_lease", "enter_drain">>}
  <2>1. Tail(p) \in {<<"verify_route">>, <<"enter_drain">>}
          /\ Head(p) \in {"remove_route", "clear_lease"}
    BY <1>2, <1>4
  <2>2. <<"verify_route">> \notin LastActs /\ <<"enter_drain">> \notin LastActs
    BY DEF LastActs
  <2> QED
    BY <2>1, <2>2
<1>5. CASE p = <<"clear_lease", "clear_transition">>
  BY <1>5 DEF LastActs
<1>6. CASE p = <<"stop_listener", "clear_transition">>
  <2>1. Head(p) = "stop_listener"
    BY <1>2, <1>6
  <2> QED
    BY <2>1
<1>7. CASE p = <<"clear_lease", "stop_listener", "clear_transition">>
  <2>1. Tail(p) = <<"stop_listener", "clear_transition">> /\ Head(p) = "clear_lease"
    BY <1>7
  <2>2. <<"stop_listener", "clear_transition">> \notin LastActs
    BY DEF LastActs
  <2> QED
    BY <2>1, <2>2
<1> QED
  BY <1>3, <1>4, <1>5, <1>6, <1>7 DEF UndoPlans, Clearing

-----------------------------------------------------------------------------
(* The invariant is inductive                                              *)

\* Nothing is in flight at the start.
LEMMA RestInit == Init => RInv
<1> SUFFICES ASSUME Init PROVE RInv
  OBVIOUS
<1>1. IInv /\ FInv
  BY InvInit, FaultsInit
<1>2. sup.pc = "down" /\ \A c \in Clients : client[c].pc = "idle"
  BY DEF Init, SupAt, ClientIdle
<1>3. Reached(control) /\ Clean(control)
  BY DEF Init, Disabled, Reached, Clean, NoTransition
<1> QED
  BY <1>1, <1>2, <1>3 DEF RInv, Rest, Records, Draining, Current, Ending, Writing

\* A supervisor that is not writing answers only for the record on disk.
LEMMA RestOutside ==
  ASSUME sup'.pc \notin Writing, Reached(control)', Clean(control)', Current',
         sup'.pc = "down" \/ listener' \/ ~control'.drain
  PROVE  Rest'
  BY DEF Rest, Records, Draining, Ending, Writing

\* The clients' copies stay current when control.json does, and nobody starts
\* to write.
LEMMA CurrentKept ==
  ASSUME RInv, control' = control,
         \/ client' = client
         \/ \E c \in Clients : \E changes : ToClient(c, changes) /\ changes.pc # "write"
  PROVE  Current'
<1>1. CASE client' = client
  BY <1>1 DEF RInv, Rest, Current
<1>2. ASSUME NEW c \in Clients, NEW changes, ToClient(c, changes), changes.pc # "write"
      PROVE  Current'
  <2>1. \A k \in Clients : client'[k].pc = "write" => client'[k] = client[k]
    BY <1>2 DEF ToClient, RInv, IInv, TypeOK
  <2> QED
    BY <2>1 DEF RInv, Rest, Current
<1> QED
  BY <1>1, <1>2

\* A step of somebody else that leaves control.json, listener and supervisor.
LEMMA RestFrame ==
  ASSUME RInv, UNCHANGED <<control, listener, sup>>, Current'
  PROVE  Rest'
  BY DEF RInv, Rest, Records, Reached, Clean, Draining, Ending

\* A step after which there is no supervisor.
LEMMA RestDown ==
  ASSUME RInv, control' = control, Current', sup'.pc = "down"
  PROVE  Rest'
<1>1. Reached(control)' /\ Clean(control)'
  BY DEF RInv, Rest, Records, Reached, Clean
<1> QED
  BY <1>1, RestOutside DEF Writing

\* Launch, boot, tick, and the passes with nothing to do: a listener that came
\* up, or a record without the marker.
LEMMA RestEnterLeave ==
  ASSUME RInv, Launch \/ Boot \/ Tick \/ PassOver
  PROVE  Rest'
<1>1. sup'.pc \in {"boot", "loop", "idle"}
  BY DEF Launch, Boot, Tick, PassOver, Leave, SupAt
<1>2. UNCHANGED <<control, client>>
  BY DEF Launch, Boot, Tick, PassOver, operatorVars
<1>3. Reached(control)' /\ Clean(control)' /\ Current'
  BY <1>2, CurrentKept DEF RInv, Rest, Records, Reached, Clean
<1>4. listener' \/ ~control'.drain
  <2>1. CASE Launch
    BY <2>1 DEF Launch
  <2>2. CASE Boot \/ Tick \/ PassOver
    <3>1. sup.pc \in {"boot", "idle", "loop"} /\ listener' = listener
      BY <2>2 DEF Boot, Tick, PassOver, worldVars
    <3> QED
      BY <1>2, <3>1 DEF RInv, Rest, Draining, Writing
  <2> QED
    BY <2>1, <2>2
<1> QED
  BY <1>1, <1>3, <1>4, RestOutside DEF Writing

\* enable@intent to listener_healthy.
LEMMA RestAdvance ==
  ASSUME RInv, AdvanceBootstrap
  PROVE  Rest'
<1>1. sup \in SupStates /\ control \in ControlStates
  BY DEF RInv, IInv, TypeOK
<1>2. /\ sup'.pc = "commit" /\ sup'.next.transition = EnableAt("listener_healthy")
      /\ listener' = listener /\ listener /\ UNCHANGED <<control, client>>
  BY <1>1 DEF AdvanceBootstrap, SupStates, ControlStates, worldVars, operatorVars
<1>3. Reached(sup'.next) /\ Clean(sup'.next)
  BY <1>2 DEF Reached, Clean, EnableAt, NoTransition
<1>4. Records'
  BY <1>2, <1>3 DEF RInv, Rest, Records, Reached, Clean
<1>5. Draining' /\ Ending'
  BY <1>2 DEF Draining, Ending, Writing
<1> QED
  BY <1>2, <1>4, <1>5, CurrentKept DEF Rest

\* A decision: what the matrix promises of its plans.
LEMMA RestDecide ==
  ASSUME RInv, Decide
  PROVE  Rest'
<1> DEFINE d == ReconcileTransition(control.transition, Observed, control.desired)
<1>1. sup \in SupStates /\ control \in ControlStates /\ Reached(control) /\ Directed(control)
  BY DEF RInv, IInv, TypeOK, Rest, Records
<1>2. /\ sup'.pc = "act" /\ sup'.next = control /\ sup'.acts = d.actions /\ sup'.mode = sup.mode
      /\ sup'.block = d.block /\ sup'.error = d.error
  BY <1>1 DEF Decide, SupStates
<1>3. UNCHANGED <<control, listener, client>> /\ sup.pc = "loop"
      /\ control.transition # NoTransition
  BY DEF Decide, worldVars, operatorVars
<1>4. sup.mode \in {"recover", "drive"}
  BY <1>3 DEF RInv, IInv, DecidesIn
<1>5. control.transition \in Transitions /\ control.desired \in BOOLEAN
  BY <1>1, <1>3 DEF ControlStates
<1>6. Observed \in Observations /\ Observed.generationLive = listener
  BY ObservedType DEF RInv, IInv, Observed
<1>7. Planned(control.transition, Observed, d.actions)
  BY <1>5, <1>6, PlansOf
<1>8. ClearsLast(d.actions)
  BY <1>7, PlannedClears
<1>9. Has(d.actions, "clear_transition") => d.block = "none" /\ d.error = "none"
  BY <1>1, <1>5, <1>6, PlannedQuietly DEF Reached
<1>10. /\ Has(d.actions, "enter_drain") => listener
       /\ d.actions \in LastActs => control.transition.kind = "enable" \/ ~listener
  BY <1>6, <1>7, PlannedEnds
<1>11. ~control.desired => control.transition.kind # "enable"
  BY <1>1 DEF Directed
<1> HIDE DEF d
<1>12. Ending'
  BY <1>2, <1>3, <1>4, <1>8, <1>9, <1>10, <1>11 DEF Ending
<1>13. Records'
  BY <1>1, <1>2, <1>3 DEF RInv, Rest, Records, Reached, Clean
<1>14. Draining'
  BY <1>2, <1>3 DEF RInv, Rest, Draining, Writing
<1> QED
  BY <1>3, <1>12, <1>13, <1>14, CurrentKept DEF Rest

\* The monitor writes a route with the listener up, or records a drift: then
\* the lease is gone, and so is the marker unless the listener is up.
LEMMA RestMonitor ==
  ASSUME RInv, Monitor
  PROVE  Rest'
<1>1. sup \in SupStates /\ control \in ControlStates /\ Reached(control)
  BY DEF RInv, IInv, TypeOK, Rest, Records
<1>2. control.desired /\ control.transition = NoTransition
  BY <1>1 DEF Monitor, RInv, IInv, DisabledIsUnleased, ControlStates
<1>3. UNCHANGED <<control, listener, client>> /\ sup.pc = "loop"
  BY DEF Monitor, worldVars, operatorVars
<1>4. ~listener => ~control.drain
  BY <1>3 DEF RInv, Rest, Draining, Writing
<1>5. \/ /\ sup'.pc = "act" /\ sup'.next = control /\ listener
         /\ sup'.acts = <<"apply_route">> /\ sup'.mode \in {"heal", "reapply"}
      \/ sup'.pc = "commit" /\ sup'.next = Drifted(control, route)
  BY <1>1 DEF Monitor, SupStates
<1>6. CASE /\ sup'.pc = "act" /\ sup'.next = control /\ listener
           /\ sup'.acts = <<"apply_route">> /\ sup'.mode \in {"heal", "reapply"}
  <2>1. Records' /\ Draining'
    BY <1>1, <1>3, <1>6 DEF RInv, Rest, Records, Reached, Clean, Draining, Writing
  <2>2. Ending'
    BY <1>2, <1>3, <1>6 DEF Ending
  <2> QED
    BY <1>3, <2>1, <2>2, CurrentKept DEF Rest
<1>7. CASE sup'.pc = "commit" /\ sup'.next = Drifted(control, route)
  <2> DEFINE r == Drifted(control, route)
  <2>1. /\ r.lease = "none" /\ r.desired /\ r.transition = control.transition
        /\ ~listener => r.drain = control.drain
    BY <1>1, <1>2 DEF Drifted, ControlStates
  <2>2. Reached(r) /\ Clean(r)
    BY <1>1, <2>1 DEF Reached, Clean
  <2>3. Records'
    BY <1>3, <1>7, <2>2 DEF RInv, Rest, Records, Reached, Clean
  <2>4. Draining' /\ Ending'
    BY <1>3, <1>4, <1>7, <2>1 DEF Draining, Ending, Writing
  <2> QED
    BY <1>3, <2>3, <2>4, CurrentKept DEF Rest
<1> QED
  BY <1>5, <1>6, <1>7

\* What a pass owes while its plan is carried out, for a disabled proxy.
LEMMA UndoingFacts ==
  ASSUME RInv, sup.pc \in {"act", "settings"}, ~control.desired
  PROVE  sup.mode \in {"recover", "drive"} /\ sup.acts \in UndoPlans
  BY DEF RInv, IInv, Undoing

\* An action of a plan that leaves control.json, the listener and the record's
\* transition alone keeps everything.
LEMMA RestAct ==
  ASSUME RInv, sup.pc \in {"act", "settings"}, sup'.pc \in {"act", "settings"},
         UNCHANGED <<control, listener, client>>,
         sup'.mode = sup.mode, sup'.next = sup.next,
         \/ UNCHANGED <<sup.acts, sup.block, sup.error>>
         \/ /\ sup.acts # <<>> /\ Head(sup.acts) # "stop_listener"
            /\ sup'.acts = Tail(sup.acts) /\ UNCHANGED <<sup.block, sup.error>>
         \/ sup.acts # <<>> /\ sup'.acts = <<>>
  PROVE  Rest'
<1>1. sup.acts \in Seq(ReconcileActions)
  BY DEF RInv, IInv, TypeOK, SupStates
<1>2. Records' /\ Draining'
  BY DEF RInv, Rest, Records, Reached, Clean, Draining, Writing
<1>3. Ending
  BY DEF RInv, Rest
<1>4. CASE UNCHANGED <<sup.acts, sup.block, sup.error>>
  <2>1. Ending'
    BY <1>3, <1>4 DEF Ending
  <2> QED
    BY <1>2, <2>1, CurrentKept DEF Rest
<1>5. CASE /\ sup.acts # <<>> /\ Head(sup.acts) # "stop_listener"
           /\ sup'.acts = Tail(sup.acts) /\ UNCHANGED <<sup.block, sup.error>>
  <2>1. \A a : Has(Tail(sup.acts), a) => Has(sup.acts, a)
    BY <1>1, <1>5, HasTail
  <2>2. ClearsLast(sup.acts) => ClearsLast(Tail(sup.acts))
    BY <1>1, <1>5, ClearsTail
  <2>3. ~control.desired => sup.mode \in {"recover", "drive"} /\ sup.acts \in UndoPlans
    BY UndoingFacts
  <2>4. ~control.desired /\ Tail(sup.acts) \in LastActs => sup.acts \in LastActs
    BY <1>5, <2>3, UndoLast
  <2>5. Ending'
    BY <1>3, <1>5, <2>1, <2>2, <2>3, <2>4 DEF Ending
  <2> QED
    BY <1>2, <2>5, CurrentKept DEF Rest
<1>6. CASE sup.acts # <<>> /\ sup'.acts = <<>>
  <2>1. /\ \A a : ~Has(<<>>, a)
        /\ <<>> \notin LastActs /\ ClearsLast(<<>>)
    BY HasFew DEF LastActs, ClearsLast
  <2>2. ~control.desired => sup.mode \in {"recover", "drive"}
    BY UndoingFacts
  <2>3. Ending'
    BY <1>3, <1>6, <2>1, <2>2 DEF Ending
  <2> QED
    BY <1>2, <2>3, CurrentKept DEF Rest
<1> QED
  BY <1>4, <1>5, <1>6

\* The settings are read, written and read back.
LEMMA RestSettings ==
  ASSUME RInv, ReadSettings \/ WriteSettings \/ VerifyRoute
  PROVE  Rest'
<1>1. sup \in SupStates
  BY DEF RInv, IInv, TypeOK
<1>2. /\ sup.pc \in {"act", "settings"} /\ sup'.pc \in {"act", "settings"}
      /\ sup'.next = sup.next /\ sup'.mode = sup.mode
  BY <1>1 DEF ReadSettings, WriteSettings, VerifyRoute, NextAct, Done, SupStates
<1>3. UNCHANGED <<control, listener, client>>
  BY DEF ReadSettings, WriteSettings, VerifyRoute, worldVars, operatorVars
<1>4. \/ UNCHANGED <<sup.acts, sup.block, sup.error>>
      \/ /\ sup.acts # <<>> /\ Head(sup.acts) # "stop_listener"
         /\ sup'.acts = Tail(sup.acts) /\ UNCHANGED <<sup.block, sup.error>>
      \/ sup.acts # <<>> /\ sup'.acts = <<>>
  <2>1. CASE WriteSettings
    BY <1>1, <2>1 DEF WriteSettings, SupStates
  <2>2. CASE ReadSettings
    BY <1>1, <2>2 DEF ReadSettings, NextAct, Done, SupStates
  <2>3. CASE VerifyRoute
    BY <1>1, <2>3 DEF VerifyRoute, NextAct, Done, SupStates
  <2> QED
    BY <2>1, <2>2, <2>3
<1> QED
  BY <1>2, <1>3, <1>4, RestAct

\* Local actions: the marker needs the listener, the transition goes last.
LEMMA RestActLocally ==
  ASSUME RInv, ActLocally
  PROVE  Rest'
<1>1. PICK a \in LocalActions :
        NextAct(a) /\ sup' = [Done(sup) EXCEPT !.next = Applied(sup.next, a)]
  BY DEF ActLocally
<1>2. sup \in SupStates /\ sup.next \in ControlStates /\ sup.acts \in Seq(ReconcileActions)
  BY DEF RInv, IInv, TypeOK, SupStates
<1>3. /\ sup.pc = "act" /\ sup'.pc = "act" /\ sup'.mode = sup.mode
      /\ sup.acts # <<>> /\ Head(sup.acts) = a /\ sup'.acts = Tail(sup.acts)
      /\ sup'.next = Applied(sup.next, a) /\ sup'.block = sup.block /\ sup'.error = sup.error
  BY <1>1, <1>2 DEF NextAct, Done, SupStates
<1>4. /\ Applied(sup.next, a).transition =
           IF a = "clear_transition" THEN NoTransition ELSE sup.next.transition
      /\ a # "enter_drain" => Applied(sup.next, a).drain = sup.next.drain
  BY <1>2 DEF Applied, LocalActions, ControlStates
<1>5. UNCHANGED <<control, listener, client>>
  BY DEF ActLocally, worldVars, operatorVars
<1>6. Ending
  BY DEF RInv, Rest
<1>7. Has(sup.acts, a)
  <2>1. 1 \in DOMAIN sup.acts /\ sup.acts[1] = a
    BY <1>2, <1>3
  <2> QED
    BY <2>1 DEF Has
<1>8. Records'
  BY <1>3, <1>4, <1>5
     DEF RInv, Rest, Records, Reached, Clean, NoTransition, Writing
<1>9. Draining'
  BY <1>3, <1>4, <1>5, <1>6, <1>7 DEF RInv, Rest, Draining, Ending, Writing
<1>10. \A b : Has(Tail(sup.acts), b) => Has(sup.acts, b)
  BY <1>2, <1>3, HasTail
<1>11. ClearsLast(sup.acts) =>
         /\ ClearsLast(Tail(sup.acts))
         /\ a = "clear_transition" => Tail(sup.acts) = <<>>
  BY <1>2, <1>3, ClearsTail
<1>12. ~control.desired =>
         /\ sup.mode \in {"recover", "drive"}
         /\ Tail(sup.acts) \in LastActs \/ a = "clear_transition" => sup.acts \in LastActs
  <2> SUFFICES ASSUME ~control.desired
               PROVE  /\ sup.mode \in {"recover", "drive"}
                      /\ Tail(sup.acts) \in LastActs \/ a = "clear_transition" =>
                           sup.acts \in LastActs
    OBVIOUS
  <2>1. sup.mode \in {"recover", "drive"} /\ sup.acts \in UndoPlans
    BY <1>3, UndoingFacts
  <2>2. a # "stop_listener"
    BY DEF LocalActions
  <2> QED
    BY <1>3, <2>1, <2>2, UndoLast
<1>13. Ending'
  <2>1. sup.mode \in {"recover", "drive"} =>
          /\ ClearsLast(Tail(sup.acts))
          /\ sup'.next.transition = NoTransition =>
               Tail(sup.acts) = <<>> /\ sup.block = "none" /\ sup.error = "none"
          /\ Has(Tail(sup.acts), "clear_transition") =>
               sup.block = "none" /\ sup.error = "none"
    BY <1>3, <1>4, <1>6, <1>7, <1>10, <1>11 DEF Ending
  <2>2. /\ sup.mode \notin {"recover", "drive"} => listener
        /\ ~listener => ~Has(Tail(sup.acts), "enter_drain")
    BY <1>3, <1>6, <1>10 DEF Ending
  <2>3. ~control.desired /\ (Tail(sup.acts) \in LastActs \/ sup'.next.transition = NoTransition)
          => ~listener
    BY <1>3, <1>4, <1>6, <1>12 DEF Ending
  <2> QED
    BY <1>3, <1>5, <2>1, <2>2, <2>3 DEF Ending
<1> QED
  BY <1>5, <1>8, <1>9, <1>13, CurrentKept DEF Rest

\* The listener goes, and the marker with it.
LEMMA RestStopListener ==
  ASSUME RInv, StopListener
  PROVE  Rest'
<1>1. sup \in SupStates /\ sup.next \in ControlStates /\ sup.acts \in Seq(ReconcileActions)
  BY DEF RInv, IInv, TypeOK, SupStates
<1>2. /\ sup.pc = "act" /\ sup.acts # <<>> /\ Head(sup.acts) = "stop_listener"
      /\ sup'.pc = "act" /\ sup'.mode = sup.mode /\ sup'.acts = Tail(sup.acts)
      /\ sup'.next.transition = sup.next.transition /\ ~sup'.next.drain
      /\ sup'.block = sup.block /\ sup'.error = sup.error
      /\ ~listener' /\ UNCHANGED <<control, client>>
  BY <1>1 DEF StopListener, NextAct, Done, SupStates, ControlStates, operatorVars
<1>3. Has(sup.acts, "stop_listener")
  <2>1. 1 \in DOMAIN sup.acts /\ sup.acts[1] = "stop_listener"
    BY <1>1, <1>2
  <2> QED
    BY <2>1 DEF Has
<1>4. sup.acts \in StopPlans /\ sup.seen.transition = DrainConfirmed
      /\ sup.next.transition = DrainConfirmed
  BY <1>2, <1>3 DEF RInv, FInv, Stopping
<1>5. ~control.desired
  BY <1>2, <1>4 DEF RInv, IInv, Snapshot, Directed, Writing, DrainConfirmed
<1>6. sup.mode \in {"recover", "drive"}
  BY <1>2, <1>5, UndoingFacts
<1>7. sup'.acts = <<"clear_transition">>
  BY <1>2, <1>4, StopPlanSteps
<1>8. ~Has(sup'.acts, "enter_drain")
  BY <1>7, HasFew
<1>9. Ending
  BY DEF RInv, Rest
<1>10. ClearsLast(sup'.acts)
  BY <1>1, <1>2, <1>6, <1>9, ClearsTail DEF Ending
<1>11. Has(sup'.acts, "clear_transition") => Has(sup.acts, "clear_transition")
  BY <1>1, <1>2, HasTail
<1>12. DrainConfirmed # NoTransition
  BY DEF DrainConfirmed, NoTransition
<1>13. Ending'
  BY <1>2, <1>4, <1>6, <1>8, <1>9, <1>10, <1>11, <1>12 DEF Ending
<1>14. Records' /\ Draining'
  BY <1>2 DEF RInv, Rest, Records, Reached, Clean, Draining, Writing
<1> QED
  BY <1>2, <1>13, <1>14, CurrentKept DEF Rest

\* The record a pass returns is clean: one that cleared the transition has
\* nothing to report, and for a disabled proxy no listener to drain.
LEMMA RestConclude ==
  ASSUME RInv, Conclude
  PROVE  Rest'
<1>1. /\ sup \in SupStates /\ sup.next \in ControlStates /\ control \in ControlStates
      /\ sup.pc = "act" /\ UNCHANGED <<control, listener, client>>
  BY DEF RInv, IInv, TypeOK, SupStates, Conclude, worldVars, operatorVars
<1>2. /\ sup.seen = control /\ sup.next.desired = control.desired
      /\ Reached(control) /\ Clean(control) /\ Reached(sup.next)
      /\ ~listener => ~sup.next.drain
      /\ Ending
  BY <1>1 DEF RInv, IInv, Snapshot, Rest, Records, Draining, Writing
<1>3. CASE sup.mode \in {"heal", "reapply"} /\ Leave
  <2>1. sup'.pc = "idle" /\ listener'
    BY <1>1, <1>2, <1>3 DEF Leave, SupAt, Ending
  <2>2. Reached(control)' /\ Clean(control)'
    BY <1>1, <1>2 DEF Reached, Clean
  <2> QED
    BY <1>1, <2>1, <2>2, CurrentKept, RestOutside DEF Writing
<1>4. ASSUME sup'.pc = "commit", Reached(sup'.next), Clean(sup'.next),
             ~listener => ~sup'.next.drain
      PROVE  Rest'
  <2>1. Records'
    BY <1>1, <1>2, <1>4 DEF Records, Reached, Clean
  <2>2. Draining' /\ Ending'
    BY <1>1, <1>4 DEF Draining, Ending, Writing
  <2> QED
    BY <1>1, <2>1, <2>2, CurrentKept DEF Rest
<1>5. CASE /\ sup.mode \in {"recover", "drive"}
           /\ sup' = [sup EXCEPT !.pc = "commit", !.next = Concluded]
  <2>1. sup'.pc = "commit" /\ sup'.next = Concluded
    BY <1>1, <1>5 DEF SupStates
  <2>2. /\ Concluded.desired = sup.next.desired /\ Concluded.drain = sup.next.drain
        /\ \/ Concluded.transition = sup.next.transition
           \/ Concluded.transition = EnableAt("lease_installing")
    BY <1>1 DEF Concluded, ControlStates
  <2>3. Reached(Concluded)
    BY <1>2, <2>2 DEF Reached, EnableAt
  <2>4. ASSUME Concluded.transition = NoTransition
        PROVE  sup.next.transition = NoTransition /\ sup.block = "none" /\ sup.error = "none"
    <3>1. EnableAt("lease_installing") # NoTransition
      BY DEF EnableAt, NoTransition
    <3>2. sup.next.transition = NoTransition
      BY <2>2, <2>4, <3>1
    <3> QED
      BY <1>1, <1>2, <1>5, <3>2 DEF Ending
  <2>5. ASSUME Concluded.transition = NoTransition PROVE Concluded.blocked = "none"
    BY <1>1, <2>4, <2>5 DEF Concluded, ControlStates
  <2>6. ASSUME Concluded.transition = NoTransition, ~Concluded.desired PROVE ~Concluded.drain
    <3>1. ~listener
      BY <1>1, <1>2, <2>2, <2>4, <2>6 DEF Ending
    <3> QED
      BY <1>2, <2>2, <3>1
  <2>7. Clean(Concluded)
    BY <2>5, <2>6 DEF Clean
  <2> QED
    BY <1>2, <1>4, <2>1, <2>2, <2>3, <2>7
<1>6. CASE /\ sup.mode = "reapply"
           /\ sup' = [sup EXCEPT !.pc = "commit", !.mode = "block",
                                 !.next = Drifted(sup.seen, sup.before)]
  <2> DEFINE r == Drifted(control, sup.before)
  <2>1. sup'.pc = "commit" /\ sup'.next = r
    BY <1>1, <1>2, <1>6 DEF SupStates
  <2>2. control.desired /\ listener
    BY <1>1, <1>2, <1>6, UndoingFacts DEF Ending
  <2>3. r.lease = "none" /\ r.desired /\ r.transition = control.transition
    BY <1>1, <2>2 DEF Drifted, ControlStates
  <2>4. Reached(r) /\ Clean(r)
    BY <1>2, <2>3 DEF Reached, Clean
  <2> QED
    BY <1>4, <2>1, <2>2, <2>4
<1> QED
  BY <1>3, <1>5, <1>6 DEF Conclude

\* The write of control.json: no client holds a copy.
LEMMA RestCommit ==
  ASSUME RInv, Commit
  PROVE  Rest'
<1>1. /\ sup.pc = "commit" /\ control' = sup.next /\ UNCHANGED <<client, listener>>
  BY DEF Commit, worldVars, operatorVars
<1>2. /\ Reached(sup.next) /\ Clean(sup.next)
      /\ ~listener => ~sup.next.drain
  BY <1>1 DEF RInv, Rest, Records, Draining, Writing
<1>3. sup'.pc \in {"loop", "idle"}
  <2>1. CASE LoopsAgain
    BY <2>1 DEF Commit, SupAt
  <2>2. CASE ~LoopsAgain
    BY <2>2 DEF Commit, Leave, SupAt
  <2> QED
    BY <2>1, <2>2
<1>4. \A c \in Clients : client[c].pc # "write"
  BY <1>1, ClientsAssumption DEF RInv, IInv, Mutex, Inside
<1>5. Current'
  BY <1>1, <1>4 DEF Current
<1>6. Reached(control)' /\ Clean(control)'
  BY <1>1, <1>2 DEF Reached, Clean
<1> QED
  BY <1>1, <1>2, <1>3, <1>5, <1>6, RestOutside DEF Writing

\* A command starts from the record on disk: a stop keeps the marker that is
\* there, a start drops it.
LEMMA RestWriteCommand ==
  ASSUME RInv, NEW c \in Clients, WriteCommand(c)
  PROVE  Rest'
<1>1. /\ client[c] \in ClientStates /\ client[c].pc = "write" /\ client[c].seen = control
      /\ control \in ControlStates /\ UNCHANGED <<sup, listener>> /\ lock = c
  BY DEF RInv, IInv, TypeOK, WriteCommand, worldVars, Rest, Current, Mutex
<1>2. sup.pc \notin Writing
  BY <1>1, ClientsAssumption DEF RInv, IInv, Mutex, Inside, Writing
<1>3. /\ control'.transition \in {EnableAt("intent_persisted"), DrainConfirmed, Unroute}
      /\ control'.drain => control.drain
  <2>1. control' = Commanded(control, client[c].op)
    BY <1>1 DEF WriteCommand
  <2>2. /\ Commanded(control, client[c].op).transition \in
             {EnableAt("intent_persisted"), DrainConfirmed, Unroute}
        /\ Commanded(control, client[c].op).drain \in {control.drain, FALSE}
    BY <1>1 DEF Commanded, ControlStates
  <2> QED
    BY <2>1, <2>2
<1>4. Reached(control)' /\ Clean(control)'
  BY <1>3 DEF Reached, Clean, EnableAt, DrainConfirmed, Unroute, NoTransition
<1>5. sup.pc = "down" \/ listener \/ ~control.drain
  BY <1>2 DEF RInv, Rest, Draining
<1>6. Current'
  <2> SUFFICES ASSUME NEW k \in Clients PROVE client'[k].pc # "write"
    BY DEF Current
  <2>1. \E changes : ToClient(c, changes) /\ changes.pc # "write"
    <3>1. [client[c] EXCEPT !.pc = "kick"].pc # "write" /\ ClientIdle.pc # "write"
      BY <1>1 DEF ClientIdle, ClientStates
    <3> QED
      BY <3>1 DEF WriteCommand
  <2>2. client[k].pc = "write" => k = c
    BY <1>1 DEF RInv, IInv, Mutex
  <2> QED
    BY <2>1, <2>2, ClientSteps DEF RInv, IInv
<1> QED
  BY <1>1, <1>2, <1>3, <1>4, <1>5, <1>6, RestOutside

\* Every step of an operator's program.
LEMMA RestOperator ==
  ASSUME RInv, NEW c \in Clients, Operator(c)
  PROVE  Rest'
<1>1. client \in [Clients -> ClientStates] /\ ClientIdle.pc # "write"
  BY DEF RInv, IInv, TypeOK, ClientIdle
<1>2. ASSUME NEW op \in Commands, Issue(c, op) PROVE Rest'
  <2>1. \E changes : ToClient(c, changes) /\ changes.pc # "write"
    <3>1. PICK o : ToClient(c, [ClientIdle EXCEPT !.pc = "enter", !.op = o])
      BY <1>2 DEF Issue
    <3>2. [ClientIdle EXCEPT !.pc = "enter", !.op = o].pc # "write"
      BY DEF ClientIdle
    <3> QED
      BY <3>1, <3>2
  <2> QED
    BY <1>2, <2>1, CurrentKept, RestFrame DEF Issue
<1>3. CASE Enter(c)
  <2>1. ASSUME NEW k \in Clients, client'[k].pc = "write" PROVE client'[k].seen = control
    <3>1. CASE k = c
      BY <1>1, <1>3, <3>1 DEF Enter, ToClient, ClientStates
    <3>2. CASE k # c
      BY <1>1, <1>3, <2>1, <3>2 DEF Enter, ToClient, RInv, Rest, Current
    <3> QED
      BY <3>1, <3>2
  <2>2. Current'
    BY <1>3, <2>1 DEF Enter, Current
  <2> QED
    BY <1>3, <2>2, RestFrame DEF Enter, worldVars
<1>4. CASE Refused(c)
  BY <1>1, <1>4, CurrentKept, RestFrame DEF Refused, worldVars
<1>5. CASE WriteCommand(c)
  BY <1>5, RestWriteCommand
<1>6. CASE Kickstart(c)
  <2>1. Current' /\ control' = control
    BY <1>1, <1>6, CurrentKept DEF Kickstart
  <2>2. CASE job = "unloaded"
    BY <1>6, <2>1, <2>2, RestFrame DEF Kickstart
  <2>3. CASE job # "unloaded"
    BY <1>6, <2>1, <2>3, RestDown DEF Kickstart, SupervisorDies, SupAt
  <2> QED
    BY <2>2, <2>3
<1>7. CASE IssueUninstall(c)
  <2>1. [ClientIdle EXCEPT !.pc = "bootout", !.op = "uninstall"].pc # "write"
    BY DEF ClientIdle
  <2>2. Current'
    BY <1>7, <2>1, CurrentKept DEF IssueUninstall
  <2> QED
    BY <1>7, <2>2, RestFrame DEF IssueUninstall, worldVars
<1>8. CASE Bootout(c)
  <2>1. Current' /\ control' = control
    BY <1>1, <1>8, CurrentKept DEF Bootout
  <2> QED
    BY <1>8, <2>1, RestDown DEF Bootout, SupervisorDies, SupAt
<1> QED
  BY <1>2, <1>3, <1>4, <1>5, <1>6, <1>7, <1>8 DEF Operator

\* Every other step.  Failed writes are assumed away.
LEMMA RestEnvironment ==
  ASSUME RInv, WritesSucceed, Environment
  PROVE  Rest'
<1>1. ~WriteFails /\ ~RecordFails /\ ~LeaseExpires
  BY DEF WritesSucceed, WriteFails, RecordFails, LeaseExpires, Fault
<1>2. ASSUME NEW value \in Routes, Edit(value) PROVE Rest'
  BY <1>2, CurrentKept, RestFrame DEF Edit
<1>3. CASE PortInUse
  BY <1>3, CurrentKept, RestFrame DEF PortInUse
<1>4. ASSUME NEW c \in Clients, ClientCrash(c) PROVE Rest'
  <2>1. ToClient(c, ClientIdle) /\ ClientIdle.pc # "write"
    BY <1>4 DEF ClientCrash, ClientIdle
  <2> QED
    BY <1>4, <2>1, CurrentKept, RestFrame DEF ClientCrash, worldVars
<1>5. CASE Crash \/ Signal \/ DrainedExit
  <2>1. sup'.pc = "down" /\ UNCHANGED <<control, client>>
    BY <1>5 DEF Crash, Signal, DrainedExit, SupervisorDies, SupAt, operatorVars
  <2> QED
    BY <2>1, CurrentKept, RestDown
<1>6. CASE Reboot
  <2>1. sup'.pc = "down" /\ control' = control /\ \A c \in Clients : client'[c].pc = "idle"
    BY <1>6 DEF Reboot, SupervisorDies, SupAt, ClientIdle
  <2>2. Current'
    BY <2>1 DEF Current
  <2> QED
    BY <2>1, <2>2, RestDown
<1> QED
  BY <1>1, <1>2, <1>3, <1>4, <1>5, <1>6 DEF Environment

\* Every step keeps the invariant.
LEMMA RestStep ==
  ASSUME WritesSucceed PROVE RInv /\ [Next]_vars => RInv'
<1>1. ASSUME RInv, UNCHANGED vars PROVE Rest'
  <2>1. UNCHANGED <<control, listener, sup, client>>
    BY <1>1 DEF vars
  <2> QED
    BY <1>1, <2>1, CurrentKept, RestFrame
<1>2. ASSUME RInv, Supervisor PROVE Rest'
  <2>1. ~RecordRead /\ ~RecordWrite
    BY <1>2 DEF RInv, IInv, RecordRead, RecordWrite
  <2> QED
    BY <1>2, <2>1, RestEnterLeave, RestAdvance, RestDecide, RestMonitor, RestActLocally,
       RestSettings, RestStopListener, RestConclude, RestCommit DEF Supervisor
<1>3. RInv /\ [Next]_vars => Rest'
  BY <1>1, <1>2, RestOperator, RestEnvironment DEF Next
<1> QED
  BY <1>3, InvStep, FaultsStep DEF RInv

\* At rest the record tells the truth: a proxy with a lease is not reported as
\* blocked, and a disabled one carries no draining marker, although one branch
\* of a confirmed drain clears the transition and forgets the marker.
THEOREM RestClean ==
  ASSUME WritesSucceed PROVE Spec => []RestIsClean
<1>1. RInv => RestIsClean
  BY DEF RInv, Rest, Records, Clean, RestIsClean
<1> QED
  BY <1>1, RestInit, RestStep, PTL DEF Spec
=============================================================================
