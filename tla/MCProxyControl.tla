--------------------------- MODULE MCProxyControl ---------------------------
(* Instances of ProxyControl for TLC. *)
EXTENDS ProxyMatrix, TLC

ClientSymmetry == Permutations(Clients)
=============================================================================
