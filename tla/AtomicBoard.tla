---------------------------- MODULE AtomicBoard ----------------------------
(***************************************************************************)
(* What memrank.Leaderboard promises its writers: one board, and every     *)
(* Load, Upsert or UpsertBatch takes effect on it in one step, between the *)
(* moment the call gets the writer mutex and the moment it returns.        *)
(* No faces, no read pointer, no locks.                                    *)
(***************************************************************************)
CONSTANTS Keys,     \* online ids, up to strings.ToLower
          Vals,     \* what a player's row can hold
          None,     \* "no such player" / "not in the batch"
          Writers

VARIABLES board,    \* what a new reader is served
          phase,    \* phase[w]: "idle", "called" or "applied"
          kind,     \* kind[w]: which operation is in progress
          arg       \* arg[w]: its players

vars == <<board, phase, kind, arg>>

Boards == [Keys -> Vals \cup {None}]

EmptyBoard == [k \in Keys |-> None]

(* A batch is a board too: None marks the players it does not carry. *)
Overlay(old, batch) == [k \in Keys |-> IF batch[k] = None THEN old[k] ELSE batch[k]]

Effect(old, op, a) == IF op = "load" THEN a ELSE Overlay(old, a)

Kinds == {"none", "load", "upsert", "batch"}

Init == /\ board = EmptyBoard
        /\ phase = [w \in Writers |-> "idle"]
        /\ kind = [w \in Writers |-> "none"]
        /\ arg = [w \in Writers |-> EmptyBoard]

(* Writers are served one at a time: the mutex is part of the promise. *)
Call(w, op, a) == /\ \A v \in Writers : phase[v] = "idle"
                  /\ phase' = [phase EXCEPT ![w] = "called"]
                  /\ kind' = [kind EXCEPT ![w] = op]
                  /\ arg' = [arg EXCEPT ![w] = a]
                  /\ UNCHANGED board

Apply(w) == /\ phase[w] = "called"
            /\ board' = Effect(board, kind[w], arg[w])
            /\ phase' = [phase EXCEPT ![w] = "applied"]
            /\ UNCHANGED <<kind, arg>>

Return(w) == /\ phase[w] = "applied"
             /\ phase' = [phase EXCEPT ![w] = "idle"]
             /\ kind' = [kind EXCEPT ![w] = "none"]
             /\ arg' = [arg EXCEPT ![w] = EmptyBoard]
             /\ UNCHANGED board

Next == \E w \in Writers : \/ \E op \in Kinds \ {"none"}, a \in Boards : Call(w, op, a)
                           \/ Apply(w)
                           \/ Return(w)

Spec == Init /\ [][Next]_vars

=============================================================================
