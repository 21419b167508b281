----------------------------- MODULE MCHotPath -----------------------------
(* Instances of HotPath and HotSync for TLC. *)
EXTENDS HotSync, TLC

SymmetricRequests == Permutations(Requests)

=============================================================================
