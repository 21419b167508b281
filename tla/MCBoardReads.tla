---------------------------- MODULE MCBoardReads ----------------------------
(* Instances of BoardReads for TLC. *)
EXTENDS BoardReads

=============================================================================
