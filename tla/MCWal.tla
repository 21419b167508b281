------------------------------- MODULE MCWal -------------------------------
(* Instances of Wal for TLC: how players fall on the shards. *)
EXTENDS Wal, TLC

CONSTANTS k1, k2, k3

OneShard == [k \in Keys |-> 0]

TwoShards == [k \in Keys |-> IF k = k1 THEN 0 ELSE 1]

SymmetricAppenders == Permutations(Appenders)

=============================================================================
