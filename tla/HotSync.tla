------------------------------ MODULE HotSync ------------------------------
(***************************************************************************)
(* HotPath with a record of which syncs of one player get in each other's  *)
(* way.  A sync writes the table and later the board; nothing orders two   *)
(* of them.  The record says when that can leave the board behind, and     *)
(* when the cooldown may be passed by.  It changes nothing in HotPath: its *)
(* variables follow from the steps HotPath takes.                          *)
(***************************************************************************)
EXTENDS HotPath, FiniteSets

(* Syncs are named by a request or by a player, which must not be mixed up;*)
(* at any time finitely many goroutines serve requests.                    *)
ASSUME HotSyncAssumption == Requests \cap Keys = {} /\ IsFiniteSet(Requests)

VARIABLES
    crossed,    \* crossed[k]: the syncs of k in progress that met another one
    lag,        \* lag[k]: the last sync of k that reached the board was crossed
    overtaken,  \* requests whose player was stored by another one since they
                \* were admitted
    blind       \* requests admitted because the cooldown could not be checked

history == <<crossed, lag, overtaken, blind>>

(* The syncs of k that have written the table and not yet the board: a     *)
(* request stands for its own, k itself for that of the flush function.    *)
Syncs(k) == {r \in Requests : rkey[r] = k /\ rpc[r] \in {"readback", "board"}}
            \cup (batch \cap {k})

BeforeInsert == {"lookup", "select", "insert"}

InitSync ==
    /\ Init
    /\ crossed = [k \in Keys |-> {}]
    /\ lag = [k \in Keys |-> FALSE]
    /\ overtaken = {}
    /\ blind = {}

(* What a step shows that admits the given requests without a check. *)
Observe(unchecked) ==
    /\ crossed' = [k \in Keys |-> IF Cardinality(Syncs(k)') > 1
                                  THEN Syncs(k)'
                                  ELSE crossed[k] \cap Syncs(k)']
    /\ lag' = [k \in Keys |->
                  LET done == Syncs(k) \ Syncs(k)'
                  IN  IF restarts' # restarts THEN FALSE
                      ELSE IF done = {} THEN lag[k]
                      ELSE done \subseteq crossed[k]]
    /\ overtaken' = {r \in Requests : /\ rpc'[r] \in BeforeInsert
                                      /\ \/ r \in overtaken
                                         \/ store'[rkey'[r]] # store[rkey'[r]]}
    /\ blind' = {r \in blind \cup unchecked : rpc'[r] \in BeforeInsert}

(* Next of HotPath, every step observed. *)
NextSync ==
    \/ \E r \in Requests, k \in JoinKeys :
            \/ Join(r, k) /\ Observe({})
            \/ JoinUnchecked(r, k) /\ Observe({r})
            \/ Refresh(r, k) /\ Observe({})
    \/ \E r \in Requests :
            \/ Lookup(r) /\ Observe({})
            \/ SelectJoined(r) /\ Observe({})
            \/ Insert(r) /\ Observe({})
            \/ ReadBack(r) /\ Observe({})
            \/ UpdateBoard(r) /\ Observe({})
    \/ \E b \in SUBSET SeedKeys \ {{}} : FlushCommit(b) /\ Observe({})
    \/ \E k \in Keys : FlushReadBack(k) /\ Observe({})
    \/ FlushBoard /\ Observe({})
    \/ \E k \in JoinKeys : AccountChanges(k) /\ Observe({})
    \/ Tick /\ Observe({})
    \/ Restart /\ Observe({})

SpecSync == InitSync /\ [][NextSync]_<<vars, history>>

-----------------------------------------------------------------------------
(* The board is behind the table only for a player whose last sync met     *)
(* another one on its way.  The next sync that has the player to itself,   *)
(* or a restart, puts that right, whatever statements of it fail: a stale  *)
(* row is not kept for ever.                                               *)
StaleOnlyAfterCrossing ==
    \A k \in Keys : Syncs(k) = {} /\ ~lag[k] => mem[k].n = store[k].n

(* A player is not synced twice within the cooldown, restarts included:    *)
(* a row is overwritten only once it is old enough.  The exceptions are    *)
(* requests whose check could not read the row, and requests that overlap: *)
(* the row they overwrite was written after their check had passed.        *)
CooldownHonoured ==
    [][\A r \in Requests \ (overtaken \cup blind) :
          /\ rpc[r] = "insert" /\ rpc'[r] = "readback"
          /\ store[rkey[r]] # NoRow
          => clock - store[rkey[r]].synced >= Cooldown]_vars

=============================================================================
