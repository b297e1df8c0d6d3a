--------------------------- MODULE MCCoreRegistry ---------------------------
(* Programs on one registry that all work on one group of its files: the   *)
(* groups have nothing in common but the lock.  Plans have three steps: in *)
(* a row, two behind one, or two in a circle.                              *)
EXTENDS CoreRegistry, TLC

CONSTANTS scan, edit, test

InARow == (scan :> {}) @@ (edit :> {scan}) @@ (test :> {edit})
Forked == (scan :> {}) @@ (edit :> {scan}) @@ (test :> {scan})
InACircle == (scan :> {}) @@ (edit :> {test}) @@ (test :> {edit})
MCGraphs == {InARow, Forked, InACircle}

VARIABLE topic

MCInit == Init /\ topic \in {{"plan"}, {"sessions", "failures", "clear"}, {"rules"}}
OnTopic == topic' = topic /\ \A p \in Processes : todo'[p].file \in topic \cup {"none"}
MCNext == Next /\ OnTopic
MCSpec ==
  /\ MCInit /\ [][MCNext]_<<vars, topic>>
  /\ \A p \in Processes : WF_<<vars, topic>>(Proceed(p) /\ OnTopic)
=============================================================================
