---------------------------- MODULE MCPsnClient ----------------------------
(* Instances of PsnClient for TLC. *)
EXTENDS PsnClient, TLC

SymmetricRequests == Permutations(Requests)

=============================================================================
