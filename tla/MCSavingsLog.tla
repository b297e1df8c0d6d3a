---------------------------- MODULE MCSavingsLog ----------------------------
(***************************************************************************)
(* SavingsLog for TLC: a hook and the daemon, which write one event or     *)
(* two, and the sweep.                                                     *)
(***************************************************************************)
EXTENDS SavingsLog

CONSTANTS hook, daemon, sweep
=============================================================================
