------------------------------ MODULE HotPath ------------------------------
(***************************************************************************)
(* The hot path: handleJoin and handleRefresh take a player from Sony to   *)
(* the SQLite table and from there to the memory board, one statement at a *)
(* time and with no lock around them, while the sealing worker flushes     *)
(* simulated players the same way.                                         *)
(*                                                                         *)
(* A row is what it shows (n), joined_at and synced_at.  n is the version  *)
(* of the account that Sony answered with, or, above MaxPsn, the number of *)
(* a flush.  The board is written atomically: that is what MemRank shows.  *)
(* Requests that are refused change nothing and are left out.              *)
(***************************************************************************)
EXTENDS Integers

CONSTANTS Keys,         \* online ids, up to strings.ToLower
          JoinKeys,     \* those that visitors join or refresh
          SeedKeys,     \* those the sealing worker has events for
          Requests,     \* goroutines of /join and /refresh
          Cooldown,     \* 15 minutes
          Faults,       \* which store operations may fail
          MaxPsn,       \* bound on the versions of an account
          MaxFlushes,   \* bound on flushes
          MaxClock,     \* bound on the clock
          MaxRestarts   \* bound on restarts of the process

FaultKinds == {"check", "select", "insert", "readback"}

ASSUME HotPathAssumption ==
    /\ JoinKeys \subseteq Keys
    /\ SeedKeys \subseteq Keys
    /\ Cooldown \in Nat \ {0}
    /\ Faults \subseteq FaultKinds
    /\ MaxPsn \in Nat /\ MaxFlushes \in Nat /\ MaxClock \in Nat \ {0} /\ MaxRestarts \in Nat

VARIABLES
    store,      \* store[k]: the row of the players table, NoRow if none
    mem,        \* mem[k]: the row of the memory board
    rpc, rkey, summary, row,          \* locals of each request
    wpc, batch, pending, rows,        \* locals of the worker's flush function
    psn,        \* psn[k]: the version of the account at Sony, 0 if not public
    clock, flushes, restarts,
    committed   \* history: committed[k], the contents store has had for k

requestVars == <<rpc, rkey, summary, row>>
workerVars == <<wpc, batch, pending, rows>>
vars == <<store, mem, requestVars, workerVars, psn, clock, flushes, restarts, committed>>

Times == 1 .. MaxClock
Contents == 1 .. MaxPsn + MaxFlushes
NoRow == [n |-> 0, joined |-> 0, synced |-> 0]
StoreRows == [n : Contents, joined : Times, synced : Times]
BoardRows == [n : Contents, joined : Times \cup {0}, synced : Times]
NoRows == [k \in Keys |-> NoRow]

Init ==
    /\ store = NoRows
    /\ mem = NoRows
    /\ rpc = [r \in Requests |-> "idle"]
    /\ rkey \in [Requests -> JoinKeys]
    /\ summary = [r \in Requests |-> 0]
    /\ row = [r \in Requests |-> NoRow]
    /\ wpc = "idle"
    /\ batch = {}
    /\ pending = {}
    /\ rows = NoRows
    /\ psn = [k \in Keys |-> 0]
    /\ clock = 1
    /\ flushes = 0
    /\ restarts = 0
    /\ committed = [k \in Keys |-> {}]

(* Mistaken variants of a definition stand just before it: they are what   *)
(* the properties are tried against.                                       *)
ExpiredTooSoon(k) == clock - store[k].synced >= Cooldown - 1
Expired(k) == clock - store[k].synced >= Cooldown

(* INSERT ... ON CONFLICT DO UPDATE leaves joined_at as it is. *)
InsertOrReplace(old, new) == new
InsertOnConflict(old, new) == IF old = NoRow THEN new ELSE [new EXCEPT !.joined = old.joined]

Goto(r, pc) == rpc' = [rpc EXCEPT ![r] = pc]

(* An answer has been sent: the locals are gone. *)
Answered(r) ==
    /\ rpc' = [rpc EXCEPT ![r] = "idle"]
    /\ summary' = [summary EXCEPT ![r] = 0]
    /\ row' = [row EXCEPT ![r] = NoRow]
    /\ UNCHANGED rkey

-----------------------------------------------------------------------------
(* The check lets the request go on to the lookup. *)
Admit(r, k) ==
    /\ rpc[r] = "idle"
    /\ rkey' = [rkey EXCEPT ![r] = k]
    /\ Goto(r, "lookup")
    /\ UNCHANGED <<store, mem, summary, row, workerVars, psn, clock, flushes, restarts, committed>>

(* /join admits players without a row and those whose row is old enough. *)
Join(r, k) == (store[k] = NoRow \/ Expired(k)) /\ Admit(r, k)

(* The row cannot be read: that is logged, and the request goes on as if   *)
(* there were none.                                                        *)
JoinUnchecked(r, k) == "check" \in Faults /\ Admit(r, k)

(* /refresh insists on a row, which must be old enough. *)
Refresh(r, k) == store[k] # NoRow /\ Expired(k) /\ Admit(r, k)

(* Sony's answer, which may be stale by the time it is used; or none: not  *)
(* found, private, timed out, negative counts.                             *)
Lookup(r) ==
    /\ rpc[r] = "lookup"
    /\ \/ /\ psn[rkey[r]] # 0
          /\ summary' = [summary EXCEPT ![r] = psn[rkey[r]]]
          /\ Goto(r, "select")
          /\ UNCHANGED <<rkey, row>>
       \/ Answered(r)
    /\ UNCHANGED <<store, mem, workerVars, psn, clock, flushes, restarts, committed>>

JoinedOfStore(k) == store[k].joined
JoinedAt(k) == IF store[k] = NoRow THEN clock ELSE store[k].joined

(* First statement of store.Upsert: joined_at of the row, or now. *)
SelectJoined(r) ==
    /\ rpc[r] = "select"
    /\ \/ /\ row' = [row EXCEPT ![r] = [n |-> summary[r], joined |-> JoinedAt(rkey[r]),
                                         synced |-> clock]]
          /\ Goto(r, "insert")
          /\ UNCHANGED <<rkey, summary>>
       \/ "select" \in Faults /\ Answered(r)
    /\ UNCHANGED <<store, mem, workerVars, psn, clock, flushes, restarts, committed>>

(* Variant: a failed statement is not noticed. *)
InsertUnchecked(r) ==
    /\ rpc[r] = "insert"
    /\ \/ store' = [store EXCEPT ![rkey[r]] = InsertOnConflict(@, row[r])]
       \/ "insert" \in Faults /\ UNCHANGED store
    /\ committed' = [committed EXCEPT ![rkey[r]] = @ \cup {store'[rkey[r]].n}]
    /\ Goto(r, "readback")
    /\ UNCHANGED <<mem, rkey, summary, row, workerVars, psn, clock, flushes, restarts>>

(* Second statement of store.Upsert. *)
Insert(r) ==
    /\ rpc[r] = "insert"
    /\ \/ /\ store' = [store EXCEPT ![rkey[r]] = InsertOnConflict(@, row[r])]
          /\ committed' = [committed EXCEPT ![rkey[r]] = @ \cup {row[r].n}]
          /\ Goto(r, "readback")
          /\ UNCHANGED <<rkey, summary, row>>
       \/ "insert" \in Faults /\ Answered(r) /\ UNCHANGED <<store, committed>>
    /\ UNCHANGED <<mem, workerVars, psn, clock, flushes, restarts>>

(* What the handler has without the table: its own row, no joined_at. *)
Own(r) == [row[r] EXCEPT !.joined = 0]

(* Variants: the row is not read back; a failure ends the request. *)
ReadBackSkipped(r) ==
    /\ rpc[r] = "readback"
    /\ Goto(r, "board")
    /\ UNCHANGED <<store, mem, rkey, summary, row, workerVars, psn, clock, flushes, restarts,
                   committed>>

ReadBackOrStop(r) ==
    /\ rpc[r] = "readback"
    /\ \/ /\ row' = [row EXCEPT ![r] = store[rkey[r]]]
          /\ Goto(r, "board")
          /\ UNCHANGED <<rkey, summary>>
       \/ "readback" \in Faults /\ Answered(r)
    /\ UNCHANGED <<store, mem, workerVars, psn, clock, flushes, restarts, committed>>

(* The handler reads the row back, for its joined_at. *)
ReadBack(r) ==
    /\ rpc[r] = "readback"
    /\ \/ row' = [row EXCEPT ![r] = IF store[rkey[r]] = NoRow THEN Own(r) ELSE store[rkey[r]]]
       \/ "readback" \in Faults /\ row' = [row EXCEPT ![r] = Own(r)]
    /\ Goto(r, "board")
    /\ UNCHANGED <<store, mem, rkey, summary, workerVars, psn, clock, flushes, restarts, committed>>

(* leaderboard.Upsert, cookie and redirect. *)
UpdateBoard(r) ==
    /\ rpc[r] = "board"
    /\ mem' = [mem EXCEPT ![rkey[r]] = row[r]]
    /\ Answered(r)
    /\ UNCHANGED <<store, workerVars, psn, clock, flushes, restarts, committed>>

-----------------------------------------------------------------------------
(* The flush function of the sealing worker *)

FlushRow == [n |-> MaxPsn + flushes, joined |-> 0, synced |-> clock]

FlushCommit(b) ==
    /\ wpc = "idle"
    /\ flushes < MaxFlushes
    /\ flushes' = flushes + 1
    /\ store' = [k \in Keys |->
                    IF k \in b
                    THEN InsertOnConflict(store[k], [n |-> MaxPsn + flushes', joined |-> clock,
                                                     synced |-> clock])
                    ELSE store[k]]
    /\ committed' = [k \in Keys |-> IF k \in b THEN committed[k] \cup {MaxPsn + flushes'}
                                               ELSE committed[k]]
    /\ batch' = b
    /\ pending' = b
    /\ wpc' = "readback"
    /\ UNCHANGED <<mem, requestVars, rows, psn, clock, restarts>>

(* store.Get, one player after the other; the event itself if that fails. *)
FlushReadBack(k) ==
    /\ wpc = "readback"
    /\ k \in pending
    /\ pending' = pending \ {k}
    /\ \/ rows' = [rows EXCEPT ![k] = IF store[k] = NoRow THEN FlushRow ELSE store[k]]
       \/ "readback" \in Faults /\ rows' = [rows EXCEPT ![k] = FlushRow]
    /\ UNCHANGED <<store, mem, requestVars, wpc, batch, psn, clock, flushes, restarts, committed>>

FlushBoard ==
    /\ wpc = "readback"
    /\ pending = {}
    /\ mem' = [k \in Keys |-> IF k \in batch THEN rows[k] ELSE mem[k]]
    /\ wpc' = "idle"
    /\ batch' = {}
    /\ rows' = NoRows
    /\ UNCHANGED <<store, requestVars, pending, psn, clock, flushes, restarts, committed>>

-----------------------------------------------------------------------------
(* Sony, time, and the process *)

AccountChanges(k) ==
    /\ psn[k] < MaxPsn
    /\ psn' = [psn EXCEPT ![k] = @ + 1]
    /\ UNCHANGED <<store, mem, requestVars, workerVars, clock, flushes, restarts, committed>>

Tick ==
    /\ clock < MaxClock
    /\ clock' = clock + 1
    /\ UNCHANGED <<store, mem, requestVars, workerVars, psn, flushes, restarts, committed>>

(* Variant: the board starts empty. *)
RestartEmpty ==
    /\ restarts < MaxRestarts
    /\ restarts' = restarts + 1
    /\ mem' = NoRows
    /\ rpc' = [r \in Requests |-> "idle"]
    /\ summary' = [r \in Requests |-> 0]
    /\ row' = [r \in Requests |-> NoRow]
    /\ wpc' = "idle"
    /\ batch' = {}
    /\ pending' = {}
    /\ rows' = NoRows
    /\ UNCHANGED <<store, rkey, psn, clock, flushes, committed>>

(* The process stops at any point; the next one loads the board from the   *)
(* table before it serves.                                                 *)
Restart ==
    /\ restarts < MaxRestarts
    /\ restarts' = restarts + 1
    /\ mem' = store
    /\ rpc' = [r \in Requests |-> "idle"]
    /\ summary' = [r \in Requests |-> 0]
    /\ row' = [r \in Requests |-> NoRow]
    /\ wpc' = "idle"
    /\ batch' = {}
    /\ pending' = {}
    /\ rows' = NoRows
    /\ UNCHANGED <<store, rkey, psn, clock, flushes, committed>>

RequestStep(r) == Lookup(r) \/ SelectJoined(r) \/ Insert(r) \/ ReadBack(r) \/ UpdateBoard(r)

Next ==
    \/ \E r \in Requests : \/ \E k \in JoinKeys : Join(r, k) \/ JoinUnchecked(r, k) \/ Refresh(r, k)
                           \/ RequestStep(r)
    \/ \E b \in SUBSET SeedKeys \ {{}} : FlushCommit(b)
    \/ \E k \in Keys : FlushReadBack(k)
    \/ \E k \in JoinKeys : AccountChanges(k)
    \/ FlushBoard
    \/ Tick
    \/ Restart

Spec == Init /\ [][Next]_vars

-----------------------------------------------------------------------------
(* Type invariant of the whole state; a stored row always has a joined_at. *)
TypeOK ==
    /\ store \in [Keys -> StoreRows \cup {NoRow}]
    /\ mem \in [Keys -> BoardRows \cup {NoRow}]
    /\ rpc \in [Requests -> {"idle", "lookup", "select", "insert", "readback", "board"}]
    /\ rkey \in [Requests -> JoinKeys]
    /\ summary \in [Requests -> 0 .. MaxPsn]
    /\ row \in [Requests -> BoardRows \cup {NoRow}]
    /\ wpc \in {"idle", "readback"}
    /\ batch \subseteq Keys
    /\ pending \subseteq batch
    /\ rows \in [Keys -> BoardRows \cup {NoRow}]
    /\ psn \in [Keys -> 0 .. MaxPsn]
    /\ clock \in Times
    /\ flushes \in 0 .. MaxFlushes
    /\ restarts \in 0 .. MaxRestarts
    /\ committed \in [Keys -> SUBSET Contents]

(* The first joined_at of a player is kept for ever, whatever requests and *)
(* flushes race to create the row.                                         *)
JoinedNeverChanges ==
    [][\A k \in Keys : store[k] # NoRow => store'[k].joined = store[k].joined]_vars

(* The board shows only what the table has held for that player, through   *)
(* failed statements, failed read-backs, overlapping requests and restarts.*)
BoardShowsCommitted == \A k \in Keys : mem[k] # NoRow => mem[k].n \in committed[k]

(* The joined_at on the board is the table's, or missing where reading the *)
(* row back failed; never that of a request that lost the race.            *)
BoardKeepsJoined == \A k \in Keys : mem[k].joined \in {0, store[k].joined}

AtRest == wpc = "idle" /\ \A r \in Requests : rpc[r] = "idle"

(* Once nothing is in progress, the board lists exactly the players of the *)
(* table, although a player is stored and listed in separate steps.        *)
AllStoredAreListed == AtRest => \A k \in Keys : mem[k] # NoRow <=> store[k] # NoRow

(* SPEC 13.3.1: every write updates the memory board as well.  Once        *)
(* nothing is in progress the board shows for each player what the table   *)
(* holds.                                                                  *)
BoardMatchesStore == AtRest => \A k \in Keys : mem[k].n = store[k].n

=============================================================================
