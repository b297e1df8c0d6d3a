---------------------------- MODULE MCBrainSync ----------------------------
(* Two machines that sync one project. *)
EXTENDS BrainSync, TLC

\* Nothing distinguishes one machine or one memory from another.
Alike == Permutations(Machines) \cup Permutations(Entries)
=============================================================================
