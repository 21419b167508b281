------------------------------- MODULE Inbox -------------------------------
(***************************************************************************)
(* What the cold path promises whoever appends a player: the player is     *)
(* accepted, and delivered to the players table later, once and for good.  *)
(* An accepted player is never dropped, and nobody is delivered who was    *)
(* not accepted.                                                           *)
(***************************************************************************)
CONSTANT Keys

VARIABLES owed,     \* players that are accepted and not delivered
          stored    \* players in the table

vars == <<owed, stored>>

Init == owed = {} /\ stored = {}

(* Accepting a player who is in the table already changes nothing here. *)
Accept(k) == /\ k \notin owed \cup stored
             /\ owed' = owed \cup {k}
             /\ UNCHANGED stored

(* A transaction delivers some of those who are owed. *)
Deliver(d) == /\ d # {}
              /\ d \subseteq owed
              /\ owed' = owed \ d
              /\ stored' = stored \cup d

Next == \/ \E k \in Keys : Accept(k)
        \/ \E d \in SUBSET owed : Deliver(d)

Spec == Init /\ [][Next]_vars

=============================================================================
