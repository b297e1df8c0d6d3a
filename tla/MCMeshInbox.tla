---------------------------- MODULE MCMeshInbox ----------------------------
(***************************************************************************)
(* MeshInbox for TLC: one session with the hooks of two tool calls and a   *)
(* poll.  Other sessions have inboxes of their own.                        *)
(***************************************************************************)
EXTENDS MeshInbox

CONSTANTS a, hook, other_hook, poll, g

MCOwner == [r \in Readers |-> a]
=============================================================================
