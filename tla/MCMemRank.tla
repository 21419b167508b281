----------------------------- MODULE MCMemRank -----------------------------
(* Instances of MemRank for TLC. *)
EXTENDS MemRank, TLC

SymmetricActors == Permutations(Writers) \cup Permutations(Readers)

SymmetricData == Permutations(Keys) \cup Permutations(Vals) \cup SymmetricActors

=============================================================================
