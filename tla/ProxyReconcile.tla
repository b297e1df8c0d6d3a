--------------------------- MODULE ProxyReconcile ---------------------------
(***************************************************************************)
(* The pure part of packages/proxy-control: the persisted control record   *)
(* and the recovery matrix that turns one observation of the world into a  *)
(* list of actions (reconcile.ts).  Nothing here has a side effect; the    *)
(* module ProxyControl performs the actions.                               *)
(*                                                                         *)
(* Ports, urls, owner fields and timestamps are left out: no decision      *)
(* reads them.                                                             *)
(***************************************************************************)
EXTENDS Naturals, Sequences

NoTransition == [kind |-> "none", phase |-> "none"]

EnablePhases == {"intent_persisted", "bootstrap_pending", "listener_healthy",
                 "lease_installing", "route_verified", "rollback"}

EnableAt(phase)  == [kind |-> "enable", phase |-> phase]
Unroute          == [kind |-> "disable", phase |-> "unroute_expected"]
UnrouteRollback  == [kind |-> "disable", phase |-> "rollback"]
DrainConfirmed   == [kind |-> "drain_complete", phase |-> "confirmation_persisted"]

\* The discriminated union accepts exactly these kind/phase pairs.
Transitions == {EnableAt(p) : p \in EnablePhases}
                 \cup {Unroute, UnrouteRollback, DrainConfirmed}

Blocks == {"none", "route_removed", "route_conflict"}
Errors == {"none", "route_conflict", "settings_invalid", "healthcheck_failed",
           "runtime_failed", "disable_failed"}

ControlStates ==
  [desired : BOOLEAN, lease : {"none", "installing", "active"}, drain : BOOLEAN,
   blocked : Blocks, transition : Transitions \cup {NoTransition},
   error : Errors]

\* What a missing or unreadable control.json means.
Disabled == [desired |-> FALSE, lease |-> "none", drain |-> FALSE,
             blocked |-> "none", transition |-> NoTransition, error |-> "none"]

Routes  == {"absent", "exact", "foreign", "invalid"}
Healths == {"matching", "failed", "none"}

Observations ==
  [route : Routes, health : Healths, hasLease : BOOLEAN,
   generationLive : BOOLEAN, confirmed : BOOLEAN]

ReconcileActions ==
  {"resume_bootstrap", "install_lease", "apply_route", "verify_route",
   "promote_lease", "clear_lease", "remove_route", "enter_drain",
   "stop_listener", "clear_transition"}

-----------------------------------------------------------------------------
(* Decisions                                                               *)

Quiet == [actions |-> <<>>, block |-> "none", error |-> "none",
          retain |-> FALSE, ready |-> FALSE]

Retain(actions, error) ==
  [Quiet EXCEPT !.actions = actions, !.error = error, !.retain = TRUE]
Fail(actions, block, error) ==
  [Quiet EXCEPT !.actions = actions, !.block = block, !.error = error]
Finish(actions)  == [Quiet EXCEPT !.actions = actions]
Complete(actions) == [Quiet EXCEPT !.actions = actions, !.ready = TRUE]

LeasedExact(o) == o.hasLease /\ o.route = "exact"
\* Mutant: the removal forgets the lease.
RemoveAlways(o) == IF o.route = "exact" THEN <<"remove_route">> ELSE <<>>
RemoveIfLeased(o) == IF LeasedExact(o) THEN <<"remove_route">> ELSE <<>>

ReconcileEnableRollback(o) ==
  CASE ~o.generationLive ->
         Fail(RemoveIfLeased(o) \o <<"clear_lease", "clear_transition">>,
              "none", "runtime_failed")
    [] o.generationLive /\ LeasedExact(o) ->
         Fail(<<"remove_route", "verify_route", "enter_drain", "clear_transition">>,
              "none", "runtime_failed")
    [] o.generationLive /\ o.route \in {"absent", "foreign"} ->
         Fail(<<"clear_lease", "enter_drain", "clear_transition">>,
              "none", "runtime_failed")
    [] OTHER -> Retain(<<>>, "route_conflict")

\* lease_installing: the lease is on disk, the route may or may not be.
ReconcileLeaseInstalling(o) ==
  CASE o.route = "foreign" ->
         Fail(<<"clear_lease">>, "route_conflict", "route_conflict")
    [] o.route = "exact" /\ o.health = "matching" ->
         Complete(<<"verify_route", "promote_lease", "clear_transition">>)
    [] o.route = "exact" /\ o.health # "matching" ->
         Fail(RemoveIfLeased(o) \o <<"clear_lease">>, "route_removed", "healthcheck_failed")
    [] o.route = "absent" /\ o.health = "matching" ->
         Complete(<<"apply_route", "verify_route", "promote_lease", "clear_transition">>)
    [] o.route = "absent" /\ o.health # "matching" ->
         Fail(<<"clear_lease">>, "route_removed", "healthcheck_failed")
    [] o.route = "invalid" -> Retain(<<>>, "settings_invalid")

ReconcileEnable(phase, o, desired) ==
  CASE phase = "intent_persisted" /\ ~desired -> Finish(<<"clear_transition">>)
    [] phase = "intent_persisted" /\ desired -> Retain(<<"resume_bootstrap">>, "none")
    [] phase = "bootstrap_pending" -> Retain(<<"resume_bootstrap">>, "none")
    [] phase = "listener_healthy" ->
         IF o.health = "matching"
         THEN Retain(<<"install_lease">>, "none")
         ELSE Retain(<<"stop_listener">>, "healthcheck_failed")
    [] phase = "lease_installing" -> ReconcileLeaseInstalling(o)
    [] phase = "route_verified" /\ o.route = "exact" /\ o.health = "matching" ->
         Complete(<<"clear_transition">>)
    [] OTHER -> ReconcileEnableRollback(o)

ReconcileDisable(phase, o) ==
  CASE LeasedExact(o) /\ phase = "rollback" -> Retain(<<>>, "disable_failed")
    [] LeasedExact(o) /\ phase # "rollback" ->
         Retain(<<"remove_route", "verify_route">>, "none")
    [] o.route = "invalid" -> Retain(<<>>, "settings_invalid")
    [] o.route = "exact" /\ ~o.hasLease -> Retain(<<>>, "route_conflict")
    [] o.route \in {"absent", "foreign"} ->
         Finish(IF o.generationLive THEN <<"clear_lease", "enter_drain">>
                                    ELSE <<"clear_lease", "clear_transition">>)

\* Mutants: a drain that stops before it unroutes; one that never finishes.
ReconcileDrainFirst(o) ==
  CASE o.route = "exact" /\ ~o.hasLease -> Retain(<<>>, "route_conflict")
    [] o.route = "invalid" -> Retain(<<>>, "settings_invalid")
    [] OTHER -> Finish(<<"clear_lease", "stop_listener", "clear_transition">>)
ReconcileDrainForever(o) ==
  CASE o.route = "exact" /\ ~o.hasLease -> Retain(<<>>, "route_conflict")
    [] o.route = "invalid" -> Retain(<<>>, "settings_invalid")
    [] OTHER -> IF LeasedExact(o) THEN Retain(<<"remove_route", "verify_route">>, "none")
                ELSE Finish(<<"clear_lease">>)

ReconcileDrain(o) ==
  CASE o.route = "exact" /\ ~o.hasLease -> Retain(<<>>, "route_conflict")
    [] o.route = "invalid" -> Retain(<<>>, "settings_invalid")
    [] OTHER ->
         IF ~o.confirmed THEN Retain(<<>>, "none")
         ELSE IF LeasedExact(o) THEN Retain(<<"remove_route", "verify_route">>, "none")
         ELSE IF o.generationLive
              THEN Finish(<<"clear_lease", "stop_listener", "clear_transition">>)
              ELSE Finish(<<"clear_lease", "clear_transition">>)

ReconcileTransition(t, o, desired) ==
  CASE t.kind = "enable"         -> ReconcileEnable(t.phase, o, desired)
    [] t.kind = "disable"        -> ReconcileDisable(t.phase, o)
    [] t.kind = "drain_complete" -> ReconcileDrain(o)
=============================================================================
