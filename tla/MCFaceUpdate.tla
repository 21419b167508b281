---------------------------- MODULE MCFaceUpdate ----------------------------
(* Instances of FaceUpdate for TLC. *)
EXTENDS FaceUpdate

CountsOf(b, s, g, p) == [bronze |-> b, silver |-> s, gold |-> g, platinum |-> p]

(* Breakdowns of one score, 300, that differ first in each of the counts,  *)
(* and one that scores less.                                               *)
Breakdowns == {CountsOf(0, 0, 0, 1), CountsOf(0, 1, 3, 0), CountsOf(2, 0, 3, 0),
               CountsOf(0, 10, 0, 0), CountsOf(20, 0, 0, 0), CountsOf(0, 0, 0, 0)}

=============================================================================
