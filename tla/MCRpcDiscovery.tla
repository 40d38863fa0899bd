--------------------------- MODULE MCRpcDiscovery ---------------------------
(* Instances of RpcDiscovery for TLC. *)
EXTENDS RpcDiscovery, TLC

Symmetry == Permutations(Calls) \cup Permutations(Ids)
=============================================================================
