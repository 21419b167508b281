-------------------------------- MODULE Wal --------------------------------
(***************************************************************************)
(* The cold path: wal.Manager with its shard files, the sealing worker and *)
(* the replay at start-up, and the flush function cmd/server gives them    *)
(* (SQLite in chunks, then the memory board).  The process can crash at    *)
(* any step and every file or database operation of the worker can fail.   *)
(*                                                                         *)
(* An event is its player, its Seq and its number n in the order of the    *)
(* Append calls, which stands for EventTS and for the trophies it carries; *)
(* the store and the memory board hold the n of the event they show.       *)
(***************************************************************************)
EXTENDS Integers, Sequences, FiniteSets

CONSTANTS
    Keys,          \* online ids, up to strings.ToLower
    ShardCount,    \* number of shard files
    ShardOf,       \* shardIndex: the shard of each player
    Appenders,     \* goroutines of handleAdminSeed
    BatchSize,     \* rows per SQLite transaction
    FreshStamps,   \* TRUE: no shard is sealed in a second a kept segment has already
    Faults,        \* which I/O operations may fail
    MaxEvents,     \* bound on Append calls
    MaxClock,      \* bound on the clock, in seconds
    MaxFaults,     \* bound on I/O failures
    MaxCrashes     \* bound on crashes

Shards == 0 .. ShardCount - 1

FaultKinds == {"short_write", "stat", "recreate", "rename", "create", "read", "flush", "remove"}

ASSUME WalAssumption ==
    /\ ShardCount \in Nat \ {0}
    /\ ShardOf \in [Keys -> Shards]
    /\ BatchSize \in Nat \ {0}
    /\ FreshStamps \in BOOLEAN
    /\ Faults \subseteq FaultKinds
    /\ MaxEvents \in Nat /\ MaxFaults \in Nat /\ MaxCrashes \in Nat
    /\ MaxClock \in Nat \ {0}

VARIABLES
    live,       \* live[s]: the lines of shard-s.log
    handle,     \* handle[s]: "open", "lost" (closed or nil), "gone" (and no file either)
    sealed,     \* sealed[s][t]: the lines of shard-s.log.sealed-t, << >> if there is none
    store,      \* store[k]: the event the players table shows, 0 if no row
    mem,        \* mem[k]: the event the memory board shows, 0 if absent
    mode,       \* "down", "replay" (starting up) or "run"
    seqCounter, \* the counter behind Seq
    apc, aev,   \* locals of each appender: where it is, its event
    wpc,        \* where the worker (or the replay) is
    cur,        \* the segment it works on: shard and stamp
    batch,      \* the deduplicated events it read, 0 for players not in it
    left,       \* the players of the batch not yet committed to the store
    todo,       \* replay: sealed files still to be processed
    clock,
    events, faults, crashes,   \* counters for the bounds
    acked       \* history: acked[k], the latest event of k whose Append returned nil

files == <<live, handle, sealed>>
appenderVars == <<apc, aev>>
workerVars == <<wpc, cur, batch, left, todo>>
counters == <<clock, events, faults, crashes>>
vars == <<live, handle, sealed, store, mem, mode, seqCounter, apc, aev, wpc, cur,
          batch, left, todo, clock, events, faults, crashes, acked>>

Stamps == 1 .. MaxClock
Numbers == 0 .. MaxEvents
NoEvent == [key |-> "none", seq |-> 0, n |-> 0]
Torn == [key |-> "torn", seq |-> 0, n |-> 0]
Events == [key : Keys, seq : 1 .. MaxEvents, n : 1 .. MaxEvents]
Nothing == [k \in Keys |-> 0]

LinesIn(file) == {file[i] : i \in DOMAIN file}

EventsOf(k, file) == {e \in LinesIn(file) : e # Torn /\ e.key = k}

Init ==
    /\ live = [s \in Shards |-> << >>]
    /\ handle = [s \in Shards |-> "gone"]
    /\ sealed = [s \in Shards |-> [t \in Stamps |-> << >>]]
    /\ store = Nothing
    /\ mem = Nothing
    /\ mode = "down"
    /\ seqCounter = 0
    /\ apc = [a \in Appenders |-> "idle"]
    /\ aev = [a \in Appenders |-> NoEvent]
    /\ wpc = "idle"
    /\ cur = [shard |-> 0, stamp |-> 1]
    /\ batch = Nothing
    /\ left = {}
    /\ todo = {}
    /\ clock = 1
    /\ events = 0
    /\ faults = 0
    /\ crashes = 0
    /\ acked = Nothing

(* An I/O operation of this kind fails now. *)
Fails(what) == /\ what \in Faults
               /\ faults < MaxFaults
               /\ faults' = faults + 1

-----------------------------------------------------------------------------
(* Append *)

(* The sequence number is drawn and the event stamped before the shard is  *)
(* locked.                                                                 *)
TakeSeq(a, k) ==
    /\ mode = "run"
    /\ apc[a] = "idle"
    /\ events < MaxEvents
    /\ seqCounter' = seqCounter + 1
    /\ events' = events + 1
    /\ aev' = [aev EXCEPT ![a] = [key |-> k, seq |-> seqCounter', n |-> events']]
    /\ apc' = [apc EXCEPT ![a] = "write"]
    /\ UNCHANGED <<files, store, mem, mode, workerVars, clock, faults, crashes, acked>>

AppendReturns(a) ==
    /\ apc' = [apc EXCEPT ![a] = "idle"]
    /\ aev' = [aev EXCEPT ![a] = NoEvent]
    /\ UNCHANGED <<handle, sealed, store, mem, mode, seqCounter, workerVars, clock,
                   events, crashes>>

WriteLine(a) ==
    LET k == aev[a].key
    IN  /\ apc[a] = "write"
        /\ handle[ShardOf[k]] = "open"
        /\ live' = [live EXCEPT ![ShardOf[k]] = Append(@, aev[a])]
        /\ acked' = [acked EXCEPT ![k] = IF aev[a].n > @ THEN aev[a].n ELSE @]
        /\ AppendReturns(a)
        /\ UNCHANGED faults

(* Write on a handle the worker closed and could not replace. *)
WriteLineNoHandle(a) ==
    /\ apc[a] = "write"
    /\ handle[ShardOf[aev[a].key]] # "open"
    /\ AppendReturns(a)
    /\ UNCHANGED <<live, acked, faults>>

(* The disk takes part of the line only; Append returns the error. *)
WriteLineShort(a) ==
    LET s == ShardOf[aev[a].key]
    IN  /\ apc[a] = "write"
        /\ handle[s] = "open"
        /\ Fails("short_write")
        /\ live' = [live EXCEPT ![s] = Append(@, Torn)]
        /\ AppendReturns(a)
        /\ UNCHANGED acked

-----------------------------------------------------------------------------
(* The worker's rounds *)

(* Mistaken variants of a definition stand just before it: they are what   *)
(* the properties are tried against.                                       *)
OnePastTheEnd == ShardCount
OneShort == ShardCount - 2
LastShard == ShardCount - 1

(* Where the worker goes when it is done with its segment. *)
Proceed ==
    /\ wpc' = CASE mode = "replay" -> "pick"
                [] mode # "replay" /\ cur.shard = LastShard -> "idle"
                [] OTHER -> "seal"
    /\ cur' = IF mode = "replay" \/ cur.shard = LastShard
              THEN [shard |-> 0, stamp |-> 1]
              ELSE [shard |-> cur.shard + 1, stamp |-> 1]
    /\ batch' = Nothing
    /\ left' = {}

StartRound ==
    /\ mode = "run"
    /\ wpc = "idle"
    /\ wpc' = "seal"
    /\ UNCHANGED <<files, store, mem, mode, seqCounter, appenderVars, cur, batch, left,
                   todo, counters, acked>>

(* All of sealShard runs under the shard's mutex, as does Append's write. *)
Sealing(s) == mode = "run" /\ wpc = "seal" /\ cur.shard = s

SealEmpty(s) ==
    /\ Sealing(s)
    /\ handle[s] # "gone"
    /\ live[s] = << >>
    /\ Proceed
    /\ UNCHANGED <<files, store, mem, mode, seqCounter, appenderVars, todo, counters, acked>>

SealStatFails(s) ==
    /\ Sealing(s)
    /\ Fails("stat")
    /\ Proceed
    /\ UNCHANGED <<files, store, mem, mode, seqCounter, appenderVars, todo, clock,
                   events, crashes, acked>>

(* The shard file is missing: it is created again, or that fails too. *)
SealRecreate(s) ==
    /\ Sealing(s)
    /\ handle[s] = "gone"
    /\ \/ /\ handle' = [handle EXCEPT ![s] = "open"]
          /\ UNCHANGED faults
       \/ /\ Fails("recreate")
          /\ UNCHANGED handle
    /\ Proceed
    /\ UNCHANGED <<live, sealed, store, mem, mode, seqCounter, appenderVars, todo,
                   clock, events, crashes, acked>>

(* Rename fails after the handle was closed; the reopening can fail too. *)
SealRenameFails(s) ==
    /\ Sealing(s)
    /\ handle[s] # "gone"
    /\ live[s] # << >>
    /\ Fails("rename")
    /\ \E h \in {"open", "lost"} : handle' = [handle EXCEPT ![s] = h]
    /\ Proceed
    /\ UNCHANGED <<live, sealed, store, mem, mode, seqCounter, appenderVars, todo,
                   clock, events, crashes, acked>>

(* Rename replaces whatever file has that second in its name already.      *)
(* FreshStamps excludes that.  Nothing in the code does: the interval is   *)
(* 100 ms, and after a slow round a longer one does not help either, for   *)
(* the ticker has kept a tick and the next round follows at once.          *)
SealRename(s) ==
    /\ Sealing(s)
    /\ handle[s] # "gone"
    /\ live[s] # << >>
    /\ FreshStamps => sealed[s][clock] = << >>
    /\ sealed' = [sealed EXCEPT ![s][clock] = live[s]]
    /\ live' = [live EXCEPT ![s] = << >>]
    /\ \/ /\ handle' = [handle EXCEPT ![s] = "open"]
          /\ wpc' = "read"
          /\ cur' = [shard |-> s, stamp |-> clock]
          /\ UNCHANGED <<batch, left, faults>>
       \/ /\ Fails("create")
          /\ handle' = [handle EXCEPT ![s] = "gone"]
          /\ Proceed
    /\ UNCHANGED <<store, mem, mode, seqCounter, appenderVars, todo, clock,
                   events, crashes, acked>>

-----------------------------------------------------------------------------
(* Read, flush, remove: the same code for a round and for the replay *)

Segment == sealed[cur.shard][cur.stamp]

(* Variant: the first event wins. *)
KeptFirst(k, file) ==
    CHOOSE e \in EventsOf(k, file) : \A o \in EventsOf(k, file) : e.n <= o.n

(* readSealed keeps the event with the larger Seq, the later one on a tie. *)
Kept(k, file) ==
    CHOOSE e \in EventsOf(k, file) :
        \A o \in EventsOf(k, file) : o.seq < e.seq \/ (o.seq = e.seq /\ o.n <= e.n)

Dedupe(file) == [k \in Keys |-> IF EventsOf(k, file) = {} THEN 0 ELSE Kept(k, file).n]

ReadSealed ==
    /\ wpc = "read"
    /\ Torn \notin LinesIn(Segment)
    /\ batch' = Dedupe(Segment)
    /\ left' = {k \in Keys : batch'[k] # 0}
    /\ wpc' = "flush"
    /\ UNCHANGED <<files, store, mem, mode, seqCounter, appenderVars, cur, todo,
                   counters, acked>>

(* json.Decoder repeats the error of a broken line for ever: the loop that *)
(* means to skip the line logs, continues, and never reaches the end of    *)
(* the file.                                                               *)
SpinOnTornLine ==
    /\ wpc = "read"
    /\ Torn \in LinesIn(Segment)
    /\ UNCHANGED vars

(* store.UpsertBatch: one transaction per BatchSize rows, in the order the  *)
(* map of events was ranged over; committed chunks stay if a later fails.  *)
FlushChunk ==
    /\ wpc = "flush"
    /\ left # {}
    /\ \E chunk \in SUBSET left :
          /\ Cardinality(chunk) = IF Cardinality(left) < BatchSize THEN Cardinality(left)
                                                                  ELSE BatchSize
          /\ store' = [k \in Keys |-> IF k \in chunk THEN batch[k] ELSE store[k]]
          /\ left' = left \ chunk
    /\ UNCHANGED <<files, mem, mode, seqCounter, appenderVars, wpc, cur, batch, todo,
                   counters, acked>>

(* Variant: only the rows still to be committed are read back. *)
UpdateMemoryOfLeft ==
    /\ wpc = "flush"
    /\ left = {}
    /\ mem' = [k \in Keys |-> IF k \in left THEN store[k] ELSE mem[k]]
    /\ wpc' = "remove"
    /\ UNCHANGED <<files, store, mode, seqCounter, appenderVars, cur, batch, left, todo,
                   counters, acked>>

(* Every row is read back from the store before the board is updated. *)
UpdateMemory ==
    /\ wpc = "flush"
    /\ left = {}
    /\ mem' = [k \in Keys |-> IF batch[k] # 0 THEN store[k] ELSE mem[k]]
    /\ wpc' = "remove"
    /\ UNCHANGED <<files, store, mode, seqCounter, appenderVars, cur, batch, left, todo,
                   counters, acked>>

(* Variants: every segment of the shard goes; the segment stays. *)
RemoveWholeShard ==
    /\ wpc = "remove"
    /\ sealed' = [sealed EXCEPT ![cur.shard] = [t \in Stamps |-> << >>]]
    /\ Proceed
    /\ UNCHANGED <<live, handle, store, mem, mode, seqCounter, appenderVars, todo,
                   counters, acked>>

RemoveNothing ==
    /\ wpc = "remove"
    /\ Proceed
    /\ UNCHANGED <<files, store, mem, mode, seqCounter, appenderVars, todo, counters, acked>>

Remove ==
    /\ wpc = "remove"
    /\ \/ /\ sealed' = [sealed EXCEPT ![cur.shard][cur.stamp] = << >>]
          /\ UNCHANGED faults
       \/ /\ Fails("remove")
          /\ UNCHANGED sealed
    /\ Proceed
    /\ UNCHANGED <<live, handle, store, mem, mode, seqCounter, appenderVars, todo,
                   clock, events, crashes, acked>>

(* Variant: the segment is dropped when its flush fails. *)
GiveUpRemoves ==
    /\ wpc = "flush" /\ left # {} /\ Fails("flush")
    /\ sealed' = [sealed EXCEPT ![cur.shard][cur.stamp] = << >>]
    /\ Proceed
    /\ UNCHANGED <<live, handle, store, mem, mode, seqCounter, appenderVars, todo, clock,
                   events, crashes, acked>>

(* The segment cannot be opened, or a transaction of its flush fails: the  *)
(* file is kept and the worker goes on with the next one.                  *)
GiveUp ==
    /\ \/ wpc = "read" /\ Fails("read")
       \/ wpc = "flush" /\ left # {} /\ Fails("flush")
    /\ Proceed
    /\ UNCHANGED <<files, store, mem, mode, seqCounter, appenderVars, todo, clock,
                   events, crashes, acked>>

-----------------------------------------------------------------------------
(* Start-up, crashes, time *)

SealedFiles == {f \in [shard : Shards, stamp : Stamps] : sealed[f.shard][f.stamp] # << >>}

(* Variants: the shard files are truncated; the board is not loaded. *)
StartTruncates ==
    /\ mode = "down"
    /\ mode' = "replay"
    /\ live' = [s \in Shards |-> << >>]
    /\ handle' = [s \in Shards |-> "open"]
    /\ seqCounter' = 0
    /\ mem' = store
    /\ todo' = SealedFiles
    /\ wpc' = "pick"
    /\ UNCHANGED <<sealed, store, appenderVars, cur, batch, left, counters, acked>>

StartCold ==
    /\ mode = "down"
    /\ mode' = "replay"
    /\ handle' = [s \in Shards |-> "open"]
    /\ seqCounter' = 0
    /\ todo' = SealedFiles
    /\ wpc' = "pick"
    /\ UNCHANGED <<live, sealed, store, mem, appenderVars, cur, batch, left, counters, acked>>

(* wal.New opens every shard file and starts its counter from zero, the    *)
(* HTTP server loads the board from the store, ReplaySealed lists the      *)
(* directory.                                                              *)
Start ==
    /\ mode = "down"
    /\ mode' = "replay"
    /\ handle' = [s \in Shards |-> "open"]
    /\ seqCounter' = 0
    /\ mem' = store
    /\ todo' = SealedFiles
    /\ wpc' = "pick"
    /\ UNCHANGED <<live, sealed, store, appenderVars, cur, batch, left, counters, acked>>

(* Sealed files are replayed by the second in their name, ties in any      *)
(* order.                                                                  *)
ReplayNext ==
    /\ mode = "replay"
    /\ wpc = "pick"
    /\ \E f \in todo : /\ \A g \in todo : f.stamp <= g.stamp
                       /\ cur' = f
                       /\ todo' = todo \ {f}
    /\ wpc' = "read"
    /\ UNCHANGED <<files, store, mem, mode, seqCounter, appenderVars, batch, left,
                   counters, acked>>

(* StartSealing and ListenAndServe. *)
ReplayDone ==
    /\ mode = "replay"
    /\ wpc = "pick"
    /\ todo = {}
    /\ mode' = "run"
    /\ wpc' = "idle"
    /\ UNCHANGED <<files, store, mem, seqCounter, appenderVars, cur, batch, left, todo,
                   counters, acked>>

Crash ==
    /\ mode # "down"
    /\ crashes < MaxCrashes
    /\ crashes' = crashes + 1
    /\ mode' = "down"
    /\ mem' = Nothing
    /\ apc' = [a \in Appenders |-> "idle"]
    /\ aev' = [a \in Appenders |-> NoEvent]
    /\ wpc' = "idle"
    /\ cur' = [shard |-> 0, stamp |-> 1]
    /\ batch' = Nothing
    /\ left' = {}
    /\ todo' = {}
    /\ UNCHANGED <<files, store, seqCounter, clock, events, faults, acked>>

Tick ==
    /\ clock < MaxClock
    /\ clock' = clock + 1
    /\ UNCHANGED <<files, store, mem, mode, seqCounter, appenderVars, workerVars, events,
                   faults, crashes, acked>>

AppenderStep(a) == WriteLine(a) \/ WriteLineNoHandle(a) \/ WriteLineShort(a)

WorkerStep ==
    \/ StartRound
    \/ \E s \in Shards : \/ SealEmpty(s) \/ SealStatFails(s) \/ SealRecreate(s)
                         \/ SealRenameFails(s) \/ SealRename(s)
    \/ ReadSealed \/ SpinOnTornLine \/ FlushChunk \/ UpdateMemory \/ Remove \/ GiveUp
    \/ Start \/ ReplayNext \/ ReplayDone

Next ==
    \/ \E a \in Appenders, k \in Keys : TakeSeq(a, k)
    \/ \E a \in Appenders : AppenderStep(a)
    \/ WorkerStep
    \/ Crash
    \/ Tick

Spec == Init /\ [][Next]_vars

(* The worker's loop and the request handlers keep running; the ticker     *)
(* always fires again.  Nobody is obliged to append.                       *)
FairSpec == /\ Spec
            /\ WF_vars(WorkerStep)
            /\ \A a \in Appenders : WF_vars(AppenderStep(a))

-----------------------------------------------------------------------------
(* Type invariant of the whole state. *)
Lines == Seq(Events \cup {Torn})

TypeOK ==
    /\ live \in [Shards -> Lines]
    /\ handle \in [Shards -> {"open", "lost", "gone"}]
    /\ sealed \in [Shards -> [Stamps -> Lines]]
    /\ store \in [Keys -> Numbers]
    /\ mem \in [Keys -> Numbers]
    /\ mode \in {"down", "replay", "run"}
    /\ seqCounter \in Numbers
    /\ apc \in [Appenders -> {"idle", "write"}]
    /\ aev \in [Appenders -> Events \cup {NoEvent}]
    /\ \A a \in Appenders : apc[a] = "write" => aev[a] \in Events /\ mode = "run"
    /\ wpc \in {"idle", "seal", "read", "flush", "remove", "pick"}
    /\ cur \in [shard : Shards, stamp : Stamps]
    /\ batch \in [Keys -> Numbers]
    /\ left \subseteq Keys
    /\ todo \subseteq [shard : Shards, stamp : Stamps]
    /\ clock \in Stamps
    /\ events \in Numbers
    /\ faults \in 0 .. MaxFaults
    /\ crashes \in 0 .. MaxCrashes
    /\ acked \in [Keys -> Numbers]

AllFiles == {live[s] : s \in Shards} \cup {sealed[s][t] : s \in Shards, t \in Stamps}

OnDisk(k) == UNION {EventsOf(k, f) : f \in AllFiles}

Owed == {k \in Keys : store[k] = 0 /\ OnDisk(k) # {}}

IB == INSTANCE Inbox WITH owed <- Owed, stored <- {k \in Keys : store[k] # 0}

(* A player whose line is on disk is owed to the store, whether Append     *)
(* returned nil or the process died before it could, and is delivered to   *)
(* it or still owed, whatever fails and however often the process starts:  *)
(* write the store first, delete the log after.                            *)
NothingLost == IB!Spec

(* "enqueued" in the answer of /admin/seed: whose Append returned nil is   *)
(* in the store or owed to it.                                             *)
PlayerNeverLost == \A k \in Keys : acked[k] # 0 => store[k] # 0 \/ k \in Owed

(* The same for the very last event of the player: what the store shows is *)
(* at least as recent, or a file still holds an event that is.             *)
NewestNeverLost ==
    \A k \in Keys : acked[k] # 0 => \/ store[k] >= acked[k]
                                   \/ \E e \in OnDisk(k) : e.n >= acked[k]

(* SPEC 13.3.3: a sealed segment is immutable.  It disappears only when    *)
(* the worker that has flushed it removes it, and is never written over.   *)
SealedIsImmutable ==
    [][\A s \in Shards, t \in Stamps :
          sealed[s][t] \notin {<< >>, sealed'[s][t]} =>
             /\ sealed'[s][t] = << >>
             /\ wpc = "remove" /\ cur = [shard |-> s, stamp |-> t]
             /\ \A k \in Keys : EventsOf(k, sealed[s][t]) # {} => store[k] # 0]_vars

(* SPEC 13.7.1 and architecture.md: what is flushed for a player is the    *)
(* newest of its events in the segment.                                    *)
BatchIsNewest ==
    wpc = "flush" =>
        \A k \in Keys : \A e \in EventsOf(k, Segment) : e.n <= batch[k]

(* One appender at a time, whatever fails: until the process restarts, and *)
(* with it the counter behind Seq, what is flushed is the newest event and *)
(* the newest event is never lost.                                         *)
NewestUntilRestart == crashes = 0 => BatchIsNewest /\ NewestNeverLost

Regresses(k) == store'[k] < store[k]

(* SPEC 13.7.1: an older record never replaces a newer one in the store,   *)
(* in particular when segments are replayed.                               *)
StoreNeverRegresses == [][\A k \in Keys : ~Regresses(k)]_vars

(* What holds of it, one appender at a time: as long as no operation has   *)
(* failed, crashes and replays never put an older event over a newer one.  *)
MonotoneUntilFailure == [][faults = 0 => \A k \in Keys : ~Regresses(k)]_vars

(* The ranking shows exactly the store whenever no flush is between its    *)
(* first commit and the memory update, through crashes and replays.        *)
MemoryShowsStore ==
    mode # "down" /\ wpc # "flush" => mem = store

(* Where flushes can fail half-way the ranking may lag behind the store,   *)
(* but only for players of a segment that is kept and will be replayed.    *)
LagIsRetained ==
    mode # "down" /\ wpc # "flush" =>
        \A k \in Keys : mem[k] # store[k] =>
            \E s \in Shards, t \in Stamps : EventsOf(k, sealed[s][t]) # {}

TornLineOnDisk == \E f \in AllFiles : Torn \in LinesIn(f)

(* Cold-path writes become visible: a player whose Append has returned nil *)
(* is on the ranking in the end and stays there, whatever crashes and      *)
(* replays come in between, and although a round skips a shard it cannot   *)
(* seal.  Except when a line was torn: no worker gets past it.             *)
AckedIsListed ==
    \A k \in Keys : <>[](acked[k] # 0 => mem[k] # 0 \/ TornLineOnDisk)

(* A comment in readSealed says it skips the broken lines of a file: the   *)
(* worker always gets past reading a segment.                              *)
ReadingEnds == wpc = "read" ~> wpc # "read"

=============================================================================
