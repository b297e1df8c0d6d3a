------------------------- MODULE MCDaemonLifecycle -------------------------
(***************************************************************************)
(* DaemonLifecycle for TLC: the bridge's boot and two starts beside what   *)
(* was there before.                                                       *)
(***************************************************************************)
EXTENDS DaemonLifecycle

CONSTANTS boot, start, other
=============================================================================
