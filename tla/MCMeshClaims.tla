---------------------------- MODULE MCMeshClaims ----------------------------
(***************************************************************************)
(* MeshClaims for TLC: two sessions with one claim each.  A presence dies  *)
(* between its first and its second tick, a claim lasts two.               *)
(***************************************************************************)
EXTENDS MeshClaims

CONSTANTS a, b, claim_a, claim_b

MCClaimant == [c \in Claims |-> IF c = claim_a THEN a ELSE b]
=============================================================================
