-------------------------------- MODULE Mesh --------------------------------
(***************************************************************************)
(* Who takes part in the session mesh (packages/mesh): the agents' sessions *)
(* and the runs of its collector (mesh/src/gc.ts).  MeshInbox models what  *)
(* sessions send each other, MeshClaims who is there and what they claim;  *)
(* the two halves share no file.                                           *)
(***************************************************************************)

CONSTANTS
  Sessions,
  Collectors   \* runs of gc
=============================================================================
