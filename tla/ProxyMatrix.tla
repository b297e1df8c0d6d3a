---------------------------- MODULE ProxyMatrix ----------------------------
(***************************************************************************)
(* What the recovery matrix promises of its decisions: for each promise    *)
(* the rows, a transition with a desired state, that break it under some   *)
(* observation.  The observations include those production listeners       *)
(* never report (health "failed"), because reconcileTransition is exported *)
(* for all of them.  TLC evaluates each of the four sets once.             *)
(***************************************************************************)
EXTENDS ProxyControl

Rows == {<<transition, desired>> : transition \in Transitions, desired \in BOOLEAN}
Decision(row, observation) == ReconcileTransition(row[1], observation, row[2])
Actions(decision) == {decision.actions[i] : i \in DOMAIN decision.actions}

\* Does a come before b in the list of actions?
Precedes(decision, a, b) ==
  \E i, j \in DOMAIN decision.actions :
    i < j /\ decision.actions[i] = a /\ decision.actions[j] = b

Guarded(row, observation, decision) ==
  /\ "remove_route" \in Actions(decision) => LeasedExact(observation)
  /\ "apply_route" \in Actions(decision) =>
       row[1].kind = "enable" /\ observation.route = "absent"
         /\ observation.health = "matching"

Verified(decision) ==
  /\ decision.ready => decision.error = "none" /\ decision.block = "none"
  /\ "apply_route" \in Actions(decision) =>
       Precedes(decision, "apply_route", "verify_route")
         /\ Precedes(decision, "verify_route", "promote_lease")
  /\ "promote_lease" \in Actions(decision) =>
       Precedes(decision, "promote_lease", "clear_transition")
  /\ {"remove_route", "enter_drain"} \subseteq Actions(decision) =>
       Precedes(decision, "remove_route", "verify_route")
         /\ Precedes(decision, "verify_route", "enter_drain")

Confirmed(row, observation, decision) ==
  "stop_listener" \in Actions(decision) =>
    \/ observation.health # "matching"
    \/ /\ row[1] = DrainConfirmed
       /\ observation.confirmed
       /\ observation.route \in {"absent", "foreign"}

\* (The enable rollback row does leave a lease.)
LeaseCleared(row, observation, decision) ==
  /\ row[1].kind # "enable"
  /\ "clear_transition" \in Actions(decision)
  /\ observation.hasLease
  => "clear_lease" \in Actions(decision)
       /\ Precedes(decision, "clear_lease", "clear_transition")

UnguardedRows ==
  {row \in Rows : \E o \in Observations : ~Guarded(row, o, Decision(row, o))}
UnverifiedRows ==
  {row \in Rows : \E o \in Observations : ~Verified(Decision(row, o))}
UnconfirmedRows ==
  {row \in Rows : \E o \in Observations : ~Confirmed(row, o, Decision(row, o))}
StrayLeaseRows ==
  {row \in Rows : \E o \in Observations : ~LeaseCleared(row, o, Decision(row, o))}

-----------------------------------------------------------------------------
\* The row the proxy is at.
Row == <<control.transition, control.desired>>

\* No decision of reconcileTransition breaks its order.  Only a route that is
\* exactly ours and leased is removed, and no disable or drain writes one
\* (UnguardedRows).  None reports ready, or starts a drain after a removal, on
\* the word of the write alone (UnverifiedRows).  A listener that answers is
\* stopped only by a confirmed drain without a route to it (UnconfirmedRows).
\* A finished disable or drain leaves no lease with which the monitor would
\* bring the route back (StrayLeaseRows).
MatrixIsGuarded ==
  Row \notin UnguardedRows \cup UnverifiedRows \cup UnconfirmedRows \cup StrayLeaseRows
=============================================================================
