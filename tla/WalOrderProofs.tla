-------------------------- MODULE WalOrderProofs ---------------------------
(***************************************************************************)
(* Proofs about the order of the events in Wal: how recent what is flushed *)
(* is, until the process restarts, and when the table can go back to an    *)
(* older event.  Most of it is about one appender at a time: two of them   *)
(* draw their numbers and write their lines in different orders.           *)
(***************************************************************************)
EXTENDS WalProofs

OneAppender == \A a, b \in Appenders : a = b

Writing == \E a \in Appenders : apc[a] = "write"

(* The event of every appender that is about to write is the last one, so  *)
(* the lines on disk and the rows of the table are older.                  *)
HorizonInv ==
    /\ \A a \in Appenders : apc[a] = "write" => aev[a].n = events
    /\ \A k \in Keys : \A e \in OnDisk(k) : e.n <= events /\ (Writing => e.n < events)
    /\ \A k \in Keys : store[k] <= events /\ (Writing => store[k] < events)

(* A player's unsealed lines are in its shard, and newer than its sealed   *)
(* lines and than its row.                                                 *)
LiveInv ==
    \A k \in Keys, s \in Shards : \A e \in EventsOf(k, live[s]) :
        /\ s = ShardOf[k]
        /\ store[k] < e.n
        /\ \A r \in Shards, t \in Stamps : \A o \in EventsOf(k, sealed[r][t]) : o.n < e.n

OrderInv == HorizonInv /\ LiveInv

(* Until the process restarts there is nothing to replay, and Seq is the   *)
(* order of the Append calls.                                              *)
FirstLifeInv ==
    crashes = 0 =>
        /\ mode # "run" => events = 0 /\ SealedFiles = {} /\ todo = {} /\ ~ Busy
        /\ seqCounter = events
        /\ \A a \in Appenders : apc[a] = "write" => aev[a].seq = aev[a].n
        /\ \A k \in Keys : \A e \in OnDisk(k) : e.seq = e.n

(* Until then, what the worker has in hand is not older than the table.    *)
InHandInv ==
    crashes = 0 =>
        \A k \in Keys : wpc = "read" \/ (wpc = "flush" /\ k \in left) =>
            \A e \in EventsOf(k, Segment) : store[k] <= e.n

NewestInv == crashes = 0 => NewestNeverLost

(* As long as nothing has failed there is one sealed segment at most, and  *)
(* flushing it once more does not make the table older.                    *)
OneSegmentInv ==
    faults = 0 =>
        /\ \A f, g \in SealedFiles : f = g
        /\ \A k \in Keys, s \in Shards, t \in Stamps :
              EventsOf(k, sealed[s][t]) # {} => store[k] <= Kept(k, sealed[s][t]).n

-----------------------------------------------------------------------------
(* How the files grow, overwritten or not *)

(* The lines of every file have their type.                                *)
LEMMA FilesTyped ==
    ASSUME TypeInv
    PROVE  /\ live \in [Shards -> Lines] /\ sealed \in [Shards -> [Stamps -> Lines]]
           /\ clock \in Stamps /\ cur.shard \in Shards /\ cur.stamp \in Stamps
           /\ Segment \in Lines
           /\ store \in [Keys -> Numbers] /\ acked \in [Keys -> Numbers]
           /\ events \in Numbers
BY DEF TypeInv, TypeOK, Segment

(* A line that a shard file gains is the one an appender writes.           *)
LEMMA LiveGrows ==
    ASSUME TypeInv, [Next]_vars, NEW k \in Keys, NEW s \in Shards,
           NEW e \in EventsOf(k, live'[s]), e \notin EventsOf(k, live[s])
    PROVE  \E a \in Appenders : WriteLine(a) /\ e = aev[a] /\ aev[a].key = k /\ s = ShardOf[k]
<1>0. live'[s] # live[s]
  OBVIOUS
<1>1. ~ \E r \in Shards : SealRename(r)
  <2> SUFFICES ASSUME NEW r \in Shards, SealRename(r) PROVE FALSE
    OBVIOUS
  <2>1. live'[s] = << >>
    BY <1>0, FilesTyped DEF SealRename
  <2> QED  BY <2>1, EmptyFile
<1>2. PICK a \in Appenders : WriteLine(a) \/ WriteLineShort(a)
  BY <1>0, <1>1
  DEF Next, vars, AppenderStep, WriteLineNoHandle, WorkerStep, TakeSeq, StartRound, SealEmpty,
      SealStatFails, SealRecreate, SealRenameFails, ReadSealed, SpinOnTornLine, FlushChunk,
      UpdateMemory, Remove, GiveUp, Start, ReplayNext, ReplayDone, Crash, Tick, files
<1>3. aev[a] \in Events /\ aev[a].key \in Keys /\ ShardOf[aev[a].key] \in Shards
  BY <1>2, WalAssumption DEF WriteLine, WriteLineShort, TypeInv, TypeOK, Events
<1>4. CASE WriteLineShort(a)
  <2>1. live'[s] = Append(live[s], Torn)
    BY <1>0, <1>3, <1>4, FilesTyped DEF WriteLineShort
  <2>2. EventsOf(k, live'[s]) = EventsOf(k, live[s])
    BY <2>1, FilesTyped, EventsOfAppend
  <2> QED  BY <2>2
<1>5. CASE WriteLine(a)
  <2>1. live'[s] = Append(live[s], aev[a]) /\ s = ShardOf[aev[a].key]
    BY <1>0, <1>3, <1>5, FilesTyped DEF WriteLine
  <2>2. EventsOf(k, live'[s]) =
           EventsOf(k, live[s]) \cup (IF aev[a] # Torn /\ aev[a].key = k THEN {aev[a]} ELSE {})
    BY <1>3, <2>1, FilesTyped, EventsOfAppend
  <2>3. e = aev[a] /\ aev[a].key = k
    BY <2>2
  <2> QED  BY <1>5, <2>1, <2>3
<1> QED  BY <1>2, <1>4, <1>5

(* A line that a sealed segment gains comes from the shard file, which is  *)
(* emptied.                                                                *)
LEMMA SealedGrows ==
    ASSUME TypeInv, [Next]_vars, NEW k \in Keys, NEW s \in Shards, NEW t \in Stamps,
           NEW e \in EventsOf(k, sealed'[s][t]), e \notin EventsOf(k, sealed[s][t])
    PROVE  /\ SealRename(s) /\ t = clock
           /\ sealed'[s][t] = live[s] /\ live'[s] = << >> /\ e \in EventsOf(k, live[s])
<1>0. sealed'[s][t] # sealed[s][t]
  OBVIOUS
<1>1. ~ Remove
  <2> SUFFICES ASSUME Remove PROVE FALSE
    OBVIOUS
  <2>1. sealed' = [sealed EXCEPT ![cur.shard][cur.stamp] = << >>]
    BY <1>0 DEF Remove
  <2>2. sealed'[s][t] = << >>
    BY <1>0, <2>1, FilesTyped
  <2> QED  BY <2>2, EmptyFile
<1>2. PICK r \in Shards : SealRename(r)
  BY <1>0, <1>1
  DEF Next, vars, AppenderStep, AppendReturns, WriteLine, WriteLineNoHandle, WriteLineShort,
      WorkerStep, TakeSeq, StartRound, SealEmpty, SealStatFails, SealRecreate,
      SealRenameFails, ReadSealed, SpinOnTornLine, FlushChunk, UpdateMemory, GiveUp, Start,
      ReplayNext, ReplayDone, Crash, Tick, files
<1>3. sealed' = [sealed EXCEPT ![r][clock] = live[r]] /\ live' = [live EXCEPT ![r] = << >>]
  BY <1>2 DEF SealRename
<1>4. r = s /\ t = clock
  BY <1>0, <1>3, FilesTyped
<1>5. sealed'[s][t] = live[s] /\ live'[s] = << >>
  BY <1>3, <1>4, FilesTyped
<1> QED  BY <1>2, <1>4, <1>5

(* A line that is on disk and was not is the one an appender writes.       *)
LEMMA DiskGrows ==
    ASSUME TypeInv, [Next]_vars, NEW k \in Keys, NEW e \in OnDisk(k)', e \notin OnDisk(k)
    PROVE  \E a \in Appenders : WriteLine(a) /\ e = aev[a] /\ aev[a].key = k
<1>1. \/ \E s \in Shards : e \in EventsOf(k, live'[s])
      \/ \E s \in Shards, t \in Stamps : e \in EventsOf(k, sealed'[s][t])
  BY DEF OnDisk, AllFiles
<1>2. /\ \A s \in Shards : e \notin EventsOf(k, live[s])
      /\ \A s \in Shards, t \in Stamps : e \notin EventsOf(k, sealed[s][t])
  BY OnDiskIs
<1>3. \A s \in Shards, t \in Stamps : e \notin EventsOf(k, sealed'[s][t])
  BY <1>2, SealedGrows
<1> QED  BY <1>1, <1>2, <1>3, LiveGrows

(* What a row is changed to is on disk.                                    *)
LEMMA RowIsOnDisk ==
    ASSUME TypeInv, WorkerInv, [Next]_vars, NEW k \in Keys, store'[k] # store[k]
    PROVE  /\ Kept(k, Segment) \in EventsOf(k, Segment) /\ store'[k] = Kept(k, Segment).n
           /\ Kept(k, Segment) \in OnDisk(k)
           /\ FlushChunk /\ k \in left
<1>1. FlushChunk /\ k \in left /\ EventsOf(k, Segment) # {} /\ store'[k] = Kept(k, Segment).n
  BY StoreStep
<1>2. Kept(k, Segment) \in EventsOf(k, Segment)
  BY <1>1, FilesTyped, KeptIsLatest
<1>3. Kept(k, Segment) \in OnDisk(k)
  BY <1>2, FilesTyped, OnDiskIs DEF Segment
<1> QED  BY <1>1, <1>2, <1>3

(* Call numbers are natural numbers.                                       *)
LEMMA NumbersAreNat ==
    ASSUME TypeInv
    PROVE  /\ events \in Nat
           /\ \A k \in Keys : store[k] \in Nat /\ acked[k] \in Nat
           /\ \A k \in Keys : \A e \in OnDisk(k) : e \in Events /\ e.n \in Nat /\ e.seq \in Nat
<1>1. events \in Nat /\ \A k \in Keys : store[k] \in Nat /\ acked[k] \in Nat
  BY FilesTyped, WalAssumption DEF Numbers
<1>2. \A k \in Keys : \A e \in OnDisk(k) : e \in Events
  BY FilesTyped, EventsTyped, OnDiskIs
<1> QED  BY <1>1, <1>2, WalAssumption DEF Events

-----------------------------------------------------------------------------
(* One appender *)

LEMMA OrderInit == Init => OrderInv
<1> SUFFICES ASSUME Init PROVE OrderInv
  OBVIOUS
<1>1. \A s \in Shards : live[s] = << >> /\ \A t \in Stamps : sealed[s][t] = << >>
  BY DEF Init
<1>2. \A k \in Keys, s \in Shards : EventsOf(k, live[s]) = {}
  BY <1>1, EmptyFile
<1>3. \A k \in Keys : OnDisk(k) = {}
  BY <1>1, OnDiskIs, EmptyFile
<1>4. ~ Writing /\ \A a \in Appenders : apc[a] # "write"
  BY DEF Init, Writing
<1> QED  BY <1>2, <1>3, <1>4 DEF Init, OrderInv, HorizonInv, LiveInv, Nothing

(* What a step can do to the counter of events and to the appenders.       *)
LEMMA AppenderSteps ==
    ASSUME TypeInv, OneAppender, [Next]_vars
    PROVE  \/ /\ ~ Writing /\ events' = events + 1 /\ UNCHANGED <<store, live, sealed>>
              /\ \A a \in Appenders : apc'[a] = "write" => aev'[a].n = events'
           \/ UNCHANGED events /\ ~ Writing'
           \/ /\ UNCHANGED <<events, apc, aev>>
              /\ \A a \in Appenders : ~ WriteLine(a)
<1>1. ASSUME NEW a \in Appenders, NEW k \in Keys, TakeSeq(a, k)
      PROVE  /\ ~ Writing /\ events' = events + 1 /\ UNCHANGED <<store, live, sealed>>
             /\ \A b \in Appenders : apc'[b] = "write" => aev'[b].n = events'
  <2>1. \A b \in Appenders : b = a
    BY DEF OneAppender
  <2>2. ~ Writing
    BY <1>1, <2>1 DEF TakeSeq, Writing
  <2>3. aev'[a].n = events'
    BY <1>1 DEF TakeSeq, TypeInv, TypeOK
  <2> QED  BY <1>1, <2>1, <2>2, <2>3 DEF TakeSeq, files
<1>2. ASSUME NEW a \in Appenders, AppenderStep(a)
      PROVE  UNCHANGED events /\ ~ Writing'
  <2>1. apc' = [apc EXCEPT ![a] = "idle"] /\ UNCHANGED events
    BY <1>2
    DEF AppenderStep, WriteLine, WriteLineNoHandle, WriteLineShort, AppendReturns
  <2>2. \A b \in Appenders : b = a
    BY DEF OneAppender
  <2> QED  BY <2>1, <2>2 DEF Writing, TypeInv, TypeOK
<1>3. CASE Crash
  BY <1>3 DEF Crash, Writing
<1>4. CASE WorkerStep \/ Tick \/ UNCHANGED vars
  <2>1. UNCHANGED <<events, apc, aev>>
    BY <1>4
    DEF vars, WorkerStep, StartRound, SealEmpty, SealStatFails, SealRecreate,
        SealRenameFails, SealRename, ReadSealed, SpinOnTornLine, FlushChunk, UpdateMemory,
        Remove, GiveUp, Start, ReplayNext, ReplayDone, Tick, appenderVars, counters
  <2>2. \A a \in Appenders : ~ WriteLine(a)
    <3> SUFFICES ASSUME NEW a \in Appenders, WriteLine(a) PROVE FALSE
      OBVIOUS
    <3>1. apc[a] = "write" /\ apc' = [apc EXCEPT ![a] = "idle"]
      BY DEF WriteLine, AppendReturns
    <3> QED  BY <2>1, <3>1 DEF TypeInv, TypeOK
  <2> QED  BY <2>1, <2>2
<1> QED  BY <1>1, <1>2, <1>3, <1>4 DEF Next

LEMMA HorizonStep ==
    ASSUME TypeInv, TypeInv', WorkerInv, OrderInv, OneAppender, [Next]_vars
    PROVE  HorizonInv'
<1>0. HorizonInv
  BY DEF OrderInv
<1>1. CASE /\ ~ Writing /\ events' = events + 1 /\ UNCHANGED <<store, live, sealed>>
           /\ \A a \in Appenders : apc'[a] = "write" => aev'[a].n = events'
  <2>1. \A k \in Keys : OnDisk(k)' = OnDisk(k)
    BY <1>1 DEF OnDisk, AllFiles
  <2>2. \A k \in Keys : store'[k] < events' /\ store'[k] <= events'
    BY <1>0, <1>1, NumbersAreNat DEF HorizonInv
  <2>3. \A k \in Keys : \A e \in OnDisk(k)' : e.n < events' /\ e.n <= events'
    BY <1>0, <1>1, <2>1, NumbersAreNat DEF HorizonInv
  <2> QED  BY <1>1, <2>2, <2>3 DEF HorizonInv
<1>2. ASSUME UNCHANGED events, NEW k \in Keys
      PROVE  /\ store'[k] <= events'
             /\ \A e \in OnDisk(k)' : e.n <= events'
  <2>1. store'[k] <= events'
    <3>1. CASE store'[k] = store[k]
      BY <1>0, <1>2, <3>1 DEF HorizonInv
    <3>2. CASE store'[k] # store[k]
      BY <1>0, <1>2, <3>2, RowIsOnDisk DEF HorizonInv
    <3> QED  BY <3>1, <3>2
  <2>2. ASSUME NEW e \in OnDisk(k)' PROVE e.n <= events'
    <3>1. CASE e \in OnDisk(k)
      BY <1>0, <1>2, <3>1 DEF HorizonInv
    <3>2. CASE e \notin OnDisk(k)
      <4>1. PICK a \in Appenders : WriteLine(a) /\ e = aev[a]
        BY <3>2, DiskGrows
      <4>2. e.n = events
        BY <1>0, <4>1 DEF WriteLine, HorizonInv
      <4> QED  BY <1>2, <4>2, NumbersAreNat
    <3> QED  BY <3>1, <3>2
  <2> QED  BY <2>1, <2>2
<1>3. CASE UNCHANGED events /\ ~ Writing'
  BY <1>2, <1>3 DEF HorizonInv, Writing
<1>4. CASE /\ UNCHANGED <<events, apc, aev>>
           /\ \A a \in Appenders : ~ WriteLine(a)
  <2>1. Writing' => Writing
    BY <1>4 DEF Writing
  <2>2. \A k \in Keys : OnDisk(k)' \subseteq OnDisk(k)
    BY <1>4, DiskGrows
  <2>3. ASSUME Writing', NEW k \in Keys PROVE store'[k] < events'
    <3>1. CASE store'[k] = store[k]
      BY <1>0, <1>4, <2>1, <2>3, <3>1 DEF HorizonInv
    <3>2. CASE store'[k] # store[k]
      BY <1>0, <1>4, <2>1, <2>3, <3>2, RowIsOnDisk DEF HorizonInv
    <3> QED  BY <3>1, <3>2
  <2>4. ASSUME Writing', NEW k \in Keys, NEW e \in OnDisk(k)' PROVE e.n < events'
    BY <1>0, <1>4, <2>1, <2>2, <2>4 DEF HorizonInv
  <2>5. \A a \in Appenders : apc'[a] = "write" => aev'[a].n = events'
    BY <1>0, <1>4 DEF HorizonInv
  <2> QED  BY <1>2, <1>4, <2>3, <2>4, <2>5 DEF HorizonInv
<1> QED  BY <1>1, <1>3, <1>4, AppenderSteps

LEMMA LiveStep ==
    ASSUME TypeInv, TypeInv', WorkerInv, OrderInv, OneAppender, [Next]_vars
    PROVE  LiveInv'
<1> SUFFICES ASSUME NEW k \in Keys, NEW s \in Shards, NEW e \in EventsOf(k, live'[s])
             PROVE  /\ s = ShardOf[k]
                    /\ store'[k] < e.n
                    /\ \A r \in Shards, t \in Stamps :
                          \A o \in EventsOf(k, sealed'[r][t]) : o.n < e.n
  BY DEF LiveInv
<1>0. HorizonInv /\ LiveInv
  BY DEF OrderInv
<1>1. CASE e \in EventsOf(k, live[s])
  <2>1. s = ShardOf[k] /\ store[k] < e.n
    BY <1>0, <1>1 DEF LiveInv
  <2>2. \A r \in Shards, t \in Stamps : \A o \in EventsOf(k, sealed[r][t]) : o.n < e.n
    BY <1>0, <1>1 DEF LiveInv
  <2>3. store'[k] < e.n
    <3>1. CASE store'[k] # store[k]
      BY <2>2, <3>1, RowIsOnDisk, FilesTyped DEF Segment
    <3> QED  BY <2>1, <3>1
  <2>4. ASSUME NEW r \in Shards, NEW t \in Stamps, NEW o \in EventsOf(k, sealed'[r][t])
        PROVE  o.n < e.n
    <3>1. CASE o \notin EventsOf(k, sealed[r][t])
      <4>1. o \in EventsOf(k, live[r]) /\ live'[r] = << >>
        BY <3>1, SealedGrows
      <4>2. r = s
        BY <1>0, <2>1, <4>1 DEF LiveInv
      <4> QED  BY <4>1, <4>2, EmptyFile
    <3> QED  BY <2>2, <3>1
  <2> QED  BY <2>1, <2>3, <2>4
<1>2. CASE e \notin EventsOf(k, live[s])
  <2>1. PICK a \in Appenders : WriteLine(a) /\ e = aev[a] /\ s = ShardOf[k]
    BY <1>2, LiveGrows
  <2>2. e.n = events /\ Writing
    BY <1>0, <2>1 DEF WriteLine, HorizonInv, Writing
  <2>3. UNCHANGED <<store, sealed>>
    BY <2>1 DEF WriteLine, AppendReturns
  <2>4. store'[k] < e.n
    BY <1>0, <2>2, <2>3 DEF HorizonInv
  <2>5. \A r \in Shards, t \in Stamps : \A o \in EventsOf(k, sealed[r][t]) : o.n < e.n
    BY <1>0, <2>2, OnDiskIs DEF HorizonInv
  <2> QED  BY <2>1, <2>3, <2>4, <2>5
<1> QED  BY <1>1, <1>2

LEMMA OrderStep ==
    ASSUME TypeInv, TypeInv', WorkerInv, OrderInv, OneAppender, [Next]_vars
    PROVE  OrderInv'
BY HorizonStep, LiveStep DEF OrderInv

-----------------------------------------------------------------------------
(* Until the process restarts *)

LEMMA FirstLifeInit == Init => FirstLifeInv
<1> SUFFICES ASSUME Init PROVE FirstLifeInv
  OBVIOUS
<1>1. \A s \in Shards : live[s] = << >> /\ \A t \in Stamps : sealed[s][t] = << >>
  BY DEF Init
<1>2. \A k \in Keys : OnDisk(k) = {}
  BY <1>1, OnDiskIs, EmptyFile
<1>3. SealedFiles = {}
  BY <1>1 DEF SealedFiles
<1> QED  BY <1>2, <1>3 DEF Init, FirstLifeInv, Busy

(* The counter of crashes never goes back.                                 *)
LEMMA CrashesCount ==
    ASSUME TypeInv, [Next]_vars, crashes' = 0
    PROVE  ~ Crash /\ crashes = 0
<1>1. ~ Crash
  BY WalAssumption DEF Crash, TypeInv, TypeOK
<1> QED
  BY <1>1
  DEF Next, vars, AppenderStep, AppendReturns, WriteLine, WriteLineNoHandle, WriteLineShort,
      WorkerStep, TakeSeq, StartRound, SealEmpty, SealStatFails, SealRecreate,
      SealRenameFails, SealRename, ReadSealed, SpinOnTornLine, FlushChunk, UpdateMemory,
      Remove, GiveUp, Start, ReplayNext, ReplayDone, Tick, counters

LEMMA FirstLifeStep ==
    ASSUME TypeInv, WorkerInv, FirstLifeInv, [Next]_vars
    PROVE  FirstLifeInv'
<1> SUFFICES ASSUME crashes' = 0
             PROVE  /\ mode' # "run" => /\ events' = 0 /\ SealedFiles' = {} /\ todo' = {}
                                        /\ ~ Busy'
                    /\ seqCounter' = events'
                    /\ \A a \in Appenders : apc'[a] = "write" => aev'[a].seq = aev'[a].n
                    /\ \A k \in Keys : \A e \in OnDisk(k)' : e.seq = e.n
  BY DEF FirstLifeInv
<1>0. ~ Crash /\ crashes = 0
  BY CrashesCount
<1>1. /\ mode # "run" => events = 0 /\ SealedFiles = {} /\ todo = {} /\ ~ Busy
      /\ seqCounter = events
      /\ \A a \in Appenders : apc[a] = "write" => aev[a].seq = aev[a].n
      /\ \A k \in Keys : \A e \in OnDisk(k) : e.seq = e.n
  BY <1>0 DEF FirstLifeInv
<1>2. \A k \in Keys : \A e \in OnDisk(k)' : e.seq = e.n
  <2> SUFFICES ASSUME NEW k \in Keys, NEW e \in OnDisk(k)', e \notin OnDisk(k)
               PROVE  e.seq = e.n
    BY <1>1
  <2>1. PICK a \in Appenders : WriteLine(a) /\ e = aev[a]
    BY DiskGrows
  <2> QED  BY <1>1, <2>1 DEF WriteLine
<1>3. CASE mode = "run"
  <2>1. mode' = "run"
    BY <1>0, <1>3
    DEF Next, vars, AppenderStep, AppendReturns, WriteLine, WriteLineNoHandle, WriteLineShort,
        WorkerStep, TakeSeq, StartRound, SealEmpty, SealStatFails, SealRecreate,
        SealRenameFails, SealRename, ReadSealed, SpinOnTornLine, FlushChunk, UpdateMemory,
        Remove, GiveUp, Start, ReplayNext, ReplayDone, Tick
  <2>2. CASE \E a \in Appenders, k \in Keys : TakeSeq(a, k)
    <3>1. PICK a \in Appenders, k \in Keys : TakeSeq(a, k)
      BY <2>2
    <3>2. seqCounter' = events'
      BY <1>1, <3>1 DEF TakeSeq
    <3>3. \A b \in Appenders : apc'[b] = "write" => aev'[b].seq = aev'[b].n
      BY <1>1, <3>1, <3>2 DEF TakeSeq, TypeInv, TypeOK
    <3> QED  BY <1>2, <2>1, <3>2, <3>3
  <2>3. CASE ~ \E a \in Appenders, k \in Keys : TakeSeq(a, k)
    <3>1. UNCHANGED <<seqCounter, events>>
      BY <1>0, <1>3, <2>3
      DEF Next, vars, AppenderStep, AppendReturns, WriteLine, WriteLineNoHandle, WriteLineShort,
          WorkerStep, StartRound, SealEmpty, SealStatFails, SealRecreate,
          SealRenameFails, SealRename, ReadSealed, SpinOnTornLine, FlushChunk, UpdateMemory,
          Remove, GiveUp, Start, ReplayNext, ReplayDone, Tick, counters
    <3>2. \/ UNCHANGED <<apc, aev>>
          \/ \E a \in Appenders : apc' = [apc EXCEPT ![a] = "idle"]
                                  /\ aev' = [aev EXCEPT ![a] = NoEvent]
      BY <1>0, <2>3
      DEF Next, vars, AppenderStep, AppendReturns, WriteLine, WriteLineNoHandle, WriteLineShort,
          WorkerStep, StartRound, SealEmpty, SealStatFails, SealRecreate,
          SealRenameFails, SealRename, ReadSealed, SpinOnTornLine, FlushChunk, UpdateMemory,
          Remove, GiveUp, Start, ReplayNext, ReplayDone, Tick, appenderVars
    <3>3. \A b \in Appenders : apc'[b] = "write" => aev'[b].seq = aev'[b].n
      BY <1>1, <3>2 DEF TypeInv, TypeOK
    <3> QED  BY <1>1, <1>2, <2>1, <3>1, <3>3
  <2> QED  BY <2>2, <2>3
<1>4. CASE mode # "run"
  <2>1. events = 0 /\ SealedFiles = {} /\ todo = {} /\ ~ Busy /\ seqCounter = 0
    BY <1>1, <1>4
  <2>2. \A a \in Appenders : apc[a] # "write"
    BY <1>4 DEF TypeInv, TypeOK
  <2>3. Start \/ ReplayDone \/ UNCHANGED <<seqCounter, events, sealed, todo, wpc, apc, aev>>
    BY <1>0, <1>4, <2>1, <2>2
    DEF Next, vars, AppenderStep, WriteLine, WriteLineNoHandle, WriteLineShort,
        WorkerStep, TakeSeq, StartRound, SealEmpty, SealStatFails, SealRecreate,
        SealRenameFails, SealRename, Sealing, ReadSealed, SpinOnTornLine, FlushChunk,
        UpdateMemory, Remove, GiveUp, ReplayNext, Tick, files, appenderVars, workerVars, Busy
  <2>4. events' = 0 /\ seqCounter' = 0 /\ \A a \in Appenders : apc'[a] # "write"
    BY <2>1, <2>2, <2>3 DEF Start, ReplayDone, counters, appenderVars
  <2>5. SealedFiles' = {} /\ todo' = {} /\ ~ Busy'
    <3>1. UNCHANGED sealed
      BY <2>3 DEF Start, ReplayDone, files
    <3>2. SealedFiles' = {}
      BY <2>1, <3>1 DEF SealedFiles
    <3> QED  BY <2>1, <2>3, <3>2 DEF Start, ReplayDone, Busy
  <2> QED  BY <1>2, <2>4, <2>5
<1> QED  BY <1>3, <1>4

(* With Seq the order of the Append calls, what is kept of a player of a   *)
(* segment is its newest event.                                            *)
LEMMA KeptIsNewest ==
    ASSUME TypeInv, FirstLifeInv, crashes = 0, NEW k \in Keys, EventsOf(k, Segment) # {}
    PROVE  \A e \in EventsOf(k, Segment) : e.n <= Kept(k, Segment).n
<1>1. EventsOf(k, Segment) \subseteq OnDisk(k)
  BY FilesTyped, OnDiskIs DEF Segment
<1>2. Kept(k, Segment) \in EventsOf(k, Segment)
  BY FilesTyped, KeptIsLatest
<1>3. \A e \in EventsOf(k, Segment) : e.seq = e.n /\ e.n \in Nat
  BY <1>1, NumbersAreNat DEF FirstLifeInv
<1> QED  BY <1>2, <1>3, FilesTyped, KeptIsLatest

(* The batch holds what is kept of each player of its segment.             *)
LEMMA FlushedNewest ==
    ASSUME TypeInv, WorkerInv, FirstLifeInv, crashes = 0
    PROVE  BatchIsNewest
<1> SUFFICES ASSUME wpc = "flush", NEW k \in Keys, NEW e \in EventsOf(k, Segment)
             PROVE  e.n <= batch[k]
  BY DEF BatchIsNewest
<1>1. batch[k] = Kept(k, Segment).n
  BY FilesTyped, DedupeTyped DEF WorkerInv, BatchInv
<1> QED  BY <1>1, KeptIsNewest

(* Until the process restarts, what is flushed for a player is the newest  *)
(* of its events in the segment, whatever fails and however many appenders *)
(* there are.                                                              *)
THEOREM FlushedIsNewest == Spec => [](crashes = 0 => BatchIsNewest)
<1>1. TypeInv /\ WorkerInv /\ FirstLifeInv /\ [Next]_vars => FirstLifeInv'
  BY FirstLifeStep
<1>2. TypeInv /\ WorkerInv /\ FirstLifeInv => (crashes = 0 => BatchIsNewest)
  BY FlushedNewest
<1> QED  BY <1>1, <1>2, FirstLifeInit, WorkerHolds, PTL DEF Spec

-----------------------------------------------------------------------------
(* One appender, until the process restarts *)

(* Only SealRename and ReplayNext take a segment in hand.                  *)
LEMMA InHandStep ==
    ASSUME TypeInv, WorkerInv, OrderInv, FirstLifeInv, InHandInv, crashes' = 0 => crashes = 0,
           [Next]_vars
    PROVE  InHandInv'
<1> SUFFICES ASSUME crashes' = 0, crashes = 0, NEW k \in Keys,
                    wpc' = "read" \/ (wpc' = "flush" /\ k \in left'),
                    NEW e \in EventsOf(k, Segment')
             PROVE  store'[k] <= e.n
  BY DEF InHandInv
<1>1. CASE /\ wpc = "read" \/ (wpc = "flush" /\ k \in left)
           /\ Segment' = Segment /\ store'[k] = store[k]
  BY <1>1 DEF InHandInv
<1>2. ASSUME NEW s \in Shards, SealRename(s)
      PROVE  store'[k] <= e.n
  <2>1. cur' = [shard |-> s, stamp |-> clock]
    BY <1>2, ProceedTyped DEF SealRename
  <2>2. Segment' = live[s]
    BY <1>2, <2>1, FilesTyped DEF SealRename, Segment
  <2>3. store[k] < e.n
    BY <2>2 DEF OrderInv, LiveInv
  <2>4. e.n \in Nat
    BY <2>2, FilesTyped, EventsTyped, WalAssumption DEF Events
  <2> QED  BY <1>2, <2>3, <2>4, NumbersAreNat DEF SealRename
<1>3. CASE FlushChunk
  <2>1. left' \subseteq left /\ wpc = "flush" /\ wpc' = "flush" /\ Segment' = Segment
    BY <1>3 DEF FlushChunk, Segment, files
  <2>2. PICK chunk \in SUBSET left :
               /\ store' = [x \in Keys |-> IF x \in chunk THEN batch[x] ELSE store[x]]
               /\ left' = left \ chunk
    BY <1>3 DEF FlushChunk
  <2>3. k \in left /\ store'[k] = store[k]
    BY <2>1, <2>2
  <2> QED  BY <1>1, <2>1, <2>3
<1>4. CASE ReadSealed
  BY <1>1, <1>4 DEF ReadSealed, Segment, files
<1>5. ~ ReplayNext
  BY DEF ReplayNext, FirstLifeInv
<1>6. ~ (Proceed /\ wpc' = "read") /\ ~ (Proceed /\ wpc' = "flush")
  BY DEF Proceed
<1>7. CASE UNCHANGED <<wpc, cur, left, store>> /\ Segment' = Segment
  BY <1>1, <1>7
<1>8. \/ \E s \in Shards : SealRename(s)
      \/ FlushChunk \/ ReadSealed \/ ReplayNext \/ Proceed
      \/ wpc' \notin {"read", "flush"}
      \/ UNCHANGED <<wpc, cur, left, store, sealed>>
  BY DEF Next, vars, AppenderStep, AppendReturns, WriteLine, WriteLineNoHandle, WriteLineShort,
        WorkerStep, TakeSeq, StartRound, SealEmpty, SealStatFails, SealRecreate,
        SealRenameFails, SpinOnTornLine, UpdateMemory, Remove, GiveUp, Start,
        ReplayDone, Crash, Tick, files, workerVars
<1> QED  BY <1>2, <1>3, <1>4, <1>5, <1>6, <1>7, <1>8 DEF Segment

LEMMA NewestStep ==
    ASSUME TypeInv, TypeInv', WorkerInv, OrderInv, FirstLifeInv, InHandInv, NewestInv,
           crashes' = 0 => crashes = 0, FreshStamps \/ NothingKept, [Next]_vars
    PROVE  NewestInv'
<1> SUFFICES ASSUME crashes' = 0, crashes = 0, NEW k \in Keys, acked'[k] # 0
             PROVE  \/ store'[k] >= acked'[k]
                    \/ \E e \in OnDisk(k)' : e.n >= acked'[k]
  BY DEF NewestInv, NewestNeverLost
<1>0. acked'[k] \in Nat /\ store'[k] \in Nat /\ acked[k] \in Nat /\ store[k] \in Nat
  BY NumbersAreNat, FilesTyped, WalAssumption DEF TypeInv, TypeOK, Numbers
<1>1. CASE acked'[k] # acked[k]
  <2>1. PICK a \in Appenders : WriteLine(a) /\ acked'[k] = aev[a].n /\ aev[a].key = k
    <3>1. PICK a \in Appenders : WriteLine(a)
      BY <1>1
      DEF Next, vars, AppenderStep, AppendReturns, WriteLineNoHandle, WriteLineShort,
          WorkerStep, TakeSeq, StartRound, SealEmpty, SealStatFails, SealRecreate,
          SealRenameFails, SealRename, ReadSealed, SpinOnTornLine, FlushChunk, UpdateMemory,
          Remove, GiveUp, Start, ReplayNext, ReplayDone, Crash, Tick
    <3>2. acked'[k] = aev[a].n /\ aev[a].key = k
      BY <1>1, <3>1, FilesTyped DEF WriteLine
    <3> QED  BY <3>1, <3>2
  <2>2. aev[a] \in Events /\ aev[a] # Torn /\ ShardOf[k] \in Shards
    <3>1. aev[a] \in Events /\ ShardOf[k] \in Shards
      BY <2>1, WalAssumption DEF WriteLine, TypeInv, TypeOK
    <3> QED  BY <3>1, WalAssumption DEF Events, Torn
  <2>3. live'[ShardOf[k]] = Append(live[ShardOf[k]], aev[a])
    BY <2>1, <2>2, FilesTyped DEF WriteLine
  <2>4. aev[a] \in EventsOf(k, live'[ShardOf[k]])
    BY <2>1, <2>2, <2>3, FilesTyped, EventsOfAppend
  <2>5. aev[a] \in OnDisk(k)'
    BY <2>2, <2>4 DEF OnDisk, AllFiles
  <2> QED  BY <1>0, <2>1, <2>5
<1>2. CASE acked'[k] = acked[k]
  <2>1. store[k] >= acked[k] \/ \E e \in OnDisk(k) : e.n >= acked[k]
    BY <1>2 DEF NewestInv, NewestNeverLost
  <2>2. CASE store[k] >= acked[k]
    <3>1. CASE store'[k] = store[k]
      BY <1>2, <2>2, <3>1
    <3>2. CASE store'[k] # store[k]
      <4>1. /\ Kept(k, Segment) \in EventsOf(k, Segment) /\ store'[k] = Kept(k, Segment).n
            /\ wpc = "flush" /\ k \in left
        BY <3>2, RowIsOnDisk DEF FlushChunk
      <4>2. store[k] <= store'[k]
        BY <4>1 DEF InHandInv
      <4> QED  BY <1>0, <1>2, <2>2, <4>2
    <3> QED  BY <3>1, <3>2
  <2>3. ASSUME NEW e \in OnDisk(k), e.n >= acked[k], e \notin OnDisk(k)'
        PROVE  store'[k] >= acked'[k]
    <3>1. Remove /\ e \in EventsOf(k, Segment)
      BY <2>3, DiskStep
    <3>2. store'[k] = store[k] /\ store[k] = Kept(k, Segment).n
      BY <3>1, RemovedIsStored DEF Remove
    <3>3. e.n <= store'[k] /\ e.n \in Nat
      BY <2>3, <3>1, <3>2, KeptIsNewest, NumbersAreNat
    <3> QED  BY <1>0, <1>2, <2>3, <3>3
  <2> QED  BY <1>2, <2>1, <2>2, <2>3
<1> QED  BY <1>1, <1>2

(* One appender at a time, whatever fails: until the process restarts, and *)
(* with it the counter behind Seq, what is flushed is the newest event and *)
(* the newest event is never lost.                                         *)
THEOREM NewestIsKept ==
    OneAppender /\ NeverOverwritten => (Spec => []NewestUntilRestart)
<1> SUFFICES ASSUME OneAppender, NeverOverwritten PROVE Spec => []NewestUntilRestart
  OBVIOUS
<1> DEFINE All == OrderInv /\ FirstLifeInv /\ InHandInv /\ NewestInv
<1>1. FreshStamps \/ NothingKept
  BY DEF NeverOverwritten, NothingKept
<1>2. Init => All
  <2>1. Init => InHandInv /\ NewestInv
    BY DEF Init, InHandInv, NewestInv, NewestNeverLost, Nothing
  <2> QED  BY <2>1, OrderInit, FirstLifeInit
<1>3. TypeInv /\ [Next]_vars => (crashes' = 0 => ~ Crash /\ crashes = 0)
  BY CrashesCount
<1>4. TypeInv /\ TypeInv' /\ WorkerInv /\ All /\ [Next]_vars => All'
  BY <1>1, <1>3, OrderStep, FirstLifeStep, InHandStep, NewestStep
<1>5. TypeInv /\ WorkerInv /\ All => NewestUntilRestart
  BY FlushedNewest DEF NewestInv, NewestUntilRestart
<1> QED  BY <1>2, <1>4, <1>5, WorkerHolds, PTL DEF Spec

-----------------------------------------------------------------------------
(* One appender, until something fails *)

LEMMA OneSegmentStep ==
    ASSUME TypeInv, TypeInv', WorkerInv, OrderInv, OneSegmentInv, [Next]_vars
    PROVE  OneSegmentInv'
<1> SUFFICES ASSUME faults' = 0
             PROVE  /\ \A f, g \in SealedFiles' : f = g
                    /\ \A k \in Keys, s \in Shards, t \in Stamps :
                          EventsOf(k, sealed'[s][t]) # {} =>
                              store'[k] <= Kept(k, sealed'[s][t]).n
  BY DEF OneSegmentInv
<1>0. faults = 0 /\ NothingKept
  <2>1. \A what : ~ Fails(what)
    BY WalAssumption DEF Fails, TypeInv, TypeOK
  <2>2. faults = 0
    BY <2>1
    DEF Next, vars, AppenderStep, AppendReturns, WriteLine, WriteLineNoHandle, WriteLineShort,
        WorkerStep, TakeSeq, StartRound, SealEmpty, SealStatFails, SealRecreate,
        SealRenameFails, SealRename, ReadSealed, SpinOnTornLine, FlushChunk, UpdateMemory,
        Remove, GiveUp, Start, ReplayNext, ReplayDone, Crash, Tick, counters
  <2> QED  BY <2>2 DEF NothingKept
<1>1. /\ \A f, g \in SealedFiles : f = g
      /\ \A k \in Keys, s \in Shards, t \in Stamps :
            EventsOf(k, sealed[s][t]) # {} => store[k] <= Kept(k, sealed[s][t]).n
  BY <1>0 DEF OneSegmentInv
<1>2. ASSUME NEW s \in Shards, SealRename(s)
      PROVE  /\ \A f \in SealedFiles' : f.shard = s /\ f.stamp = clock
             /\ sealed'[s][clock] = live[s]
             /\ \A r \in Shards, t \in Stamps : ~ (r = s /\ t = clock) => sealed'[r][t] = << >>
  <2>1. SealedFiles = {}
    BY <1>0, <1>2 DEF SealRename, Sealing, WorkerInv, ModeInv, KeptInv, Busy
  <2>2. \A r \in Shards, t \in Stamps : sealed[r][t] = << >>
    <3> SUFFICES ASSUME NEW r \in Shards, NEW t \in Stamps, sealed[r][t] # << >> PROVE FALSE
      OBVIOUS
    <3>1. [shard |-> r, stamp |-> t] \in SealedFiles
      BY DEF SealedFiles
    <3> QED  BY <2>1, <3>1
  <2>3. sealed' = [sealed EXCEPT ![s][clock] = live[s]]
    BY <1>2 DEF SealRename
  <2>4. \A r \in Shards, t \in Stamps : ~ (r = s /\ t = clock) => sealed'[r][t] = << >>
    BY <2>2, <2>3, FilesTyped
  <2>5. sealed'[s][clock] = live[s]
    BY <2>3, FilesTyped
  <2>6. ASSUME NEW f \in SealedFiles' PROVE f.shard = s /\ f.stamp = clock
    <3>1. f.shard \in Shards /\ f.stamp \in Stamps /\ sealed'[f.shard][f.stamp] # << >>
      BY DEF SealedFiles
    <3> QED  BY <2>4, <3>1
  <2> QED  BY <2>4, <2>5, <2>6
<1>3. ASSUME ~ \E s \in Shards : SealRename(s)
      PROVE  \A r \in Shards, t \in Stamps :
                sealed'[r][t] = sealed[r][t] \/ sealed'[r][t] = << >>
  <2>1. CASE Remove
    BY <2>1, FilesTyped DEF Remove
  <2>2. CASE ~ Remove
    BY <1>3, <2>2
    DEF Next, vars, AppenderStep, AppendReturns, WriteLine, WriteLineNoHandle, WriteLineShort,
        WorkerStep, TakeSeq, StartRound, SealEmpty, SealStatFails, SealRecreate,
        SealRenameFails, ReadSealed, SpinOnTornLine, FlushChunk, UpdateMemory,
        GiveUp, Start, ReplayNext, ReplayDone, Crash, Tick, files
  <2> QED  BY <2>1, <2>2
<1>4. ASSUME NEW f \in SealedFiles', NEW g \in SealedFiles'
      PROVE  f = g
  <2>0. f \in [shard : Shards, stamp : Stamps] /\ g \in [shard : Shards, stamp : Stamps]
        /\ sealed'[f.shard][f.stamp] # << >> /\ sealed'[g.shard][g.stamp] # << >>
    BY DEF SealedFiles
  <2>1. CASE \E s \in Shards : SealRename(s)
    <3>1. f.shard = g.shard /\ f.stamp = g.stamp
      BY <1>2, <2>1
    <3> QED  BY <2>0, <3>1
  <2>2. CASE ~ \E s \in Shards : SealRename(s)
    <3>1. f \in SealedFiles /\ g \in SealedFiles
      BY <1>3, <2>0, <2>2 DEF SealedFiles
    <3> QED  BY <1>1, <3>1
  <2> QED  BY <2>1, <2>2
<1>5. ASSUME NEW k \in Keys, NEW s \in Shards, NEW t \in Stamps, EventsOf(k, sealed'[s][t]) # {}
      PROVE  store'[k] <= Kept(k, sealed'[s][t]).n
  <2>0. sealed'[s][t] # << >>
    BY <1>5, EmptyFile
  <2>1. CASE \E r \in Shards : SealRename(r)
    <3>1. PICK r \in Shards : SealRename(r)
      BY <2>1
    <3>2. sealed'[s][t] = live[s] /\ UNCHANGED store
      BY <1>2, <2>0, <3>1 DEF SealRename
    <3>3. Kept(k, live[s]) \in EventsOf(k, live[s])
      BY <1>5, <3>2, FilesTyped, KeptIsLatest
    <3>4. store[k] < Kept(k, live[s]).n
      BY <3>3 DEF OrderInv, LiveInv
    <3>5. Kept(k, live[s]).n \in Nat
      BY <3>3, FilesTyped, EventsTyped, WalAssumption DEF Events
    <3> QED  BY <3>2, <3>4, <3>5, NumbersAreNat
  <2>2. CASE ~ \E r \in Shards : SealRename(r)
    <3>1. sealed'[s][t] = sealed[s][t]
      BY <1>3, <2>0, <2>2
    <3>2. CASE store'[k] = store[k]
      BY <1>1, <1>5, <3>1, <3>2
    <3>3. CASE store'[k] # store[k]
      <4>1. Kept(k, Segment) \in EventsOf(k, Segment) /\ store'[k] = Kept(k, Segment).n
        BY <3>3, RowIsOnDisk
      <4>2. Segment # << >> /\ cur \in [shard : Shards, stamp : Stamps]
        BY <4>1, EmptyFile DEF TypeInv, TypeOK
      <4>3. cur \in SealedFiles
        BY <4>2 DEF SealedFiles, Segment
      <4>4. [shard |-> s, stamp |-> t] \in SealedFiles
        BY <2>0, <3>1 DEF SealedFiles
      <4>5. cur = [shard |-> s, stamp |-> t]
        BY <1>1, <4>3, <4>4
      <4>6. Segment = sealed'[s][t]
        BY <3>1, <4>5 DEF Segment
      <4>7. Kept(k, Segment).n \in Nat
        BY <4>1, FilesTyped, EventsTyped, WalAssumption DEF Events
      <4> QED  BY <4>1, <4>6, <4>7
    <3> QED  BY <3>2, <3>3
  <2> QED  BY <2>1, <2>2
<1> QED  BY <1>4, <1>5

(* SPEC 13.7.1, one appender at a time: as long as no operation has        *)
(* failed, crashes and replays never put an older event over a newer one.  *)
THEOREM StoreMovesForward == OneAppender => (Spec => MonotoneUntilFailure)
<1> SUFFICES ASSUME OneAppender PROVE Spec => MonotoneUntilFailure
  OBVIOUS
<1> DEFINE Forward == faults = 0 => \A k \in Keys : ~ Regresses(k)
<1>1. Init => OneSegmentInv
  <2> SUFFICES ASSUME Init PROVE OneSegmentInv
    OBVIOUS
  <2>1. \A s \in Shards, t \in Stamps : sealed[s][t] = << >>
    BY DEF Init
  <2>2. SealedFiles = {}
    BY <2>1 DEF SealedFiles
  <2> QED  BY <2>1, <2>2, EmptyFile DEF OneSegmentInv
<1>2. TypeInv /\ TypeInv' /\ WorkerInv /\ OrderInv /\ [Next]_vars => OrderInv'
  BY OrderStep
<1>3. TypeInv /\ TypeInv' /\ WorkerInv /\ OrderInv /\ OneSegmentInv /\ [Next]_vars
         => OneSegmentInv'
  BY OneSegmentStep
<1>4. ASSUME TypeInv, WorkerInv, OneSegmentInv, [Next]_vars PROVE Forward
  <2> SUFFICES ASSUME faults = 0, NEW k \in Keys, store'[k] < store[k] PROVE FALSE
    BY DEF Regresses
  <2>0. store[k] \in Nat
    BY <1>4, NumbersAreNat
  <2>1. store'[k] # store[k]
    BY <2>0
  <2>2. Kept(k, Segment) \in EventsOf(k, Segment) /\ store'[k] = Kept(k, Segment).n
    BY <1>4, <2>1, RowIsOnDisk
  <2>3. store[k] <= Kept(k, Segment).n
    BY <1>4, <2>2, FilesTyped DEF OneSegmentInv, Segment
  <2>4. Kept(k, Segment).n \in Nat
    BY <1>4, <2>2, FilesTyped, EventsTyped, WalAssumption DEF Events
  <2> QED  BY <2>0, <2>2, <2>3, <2>4
<1>5. TypeInv /\ WorkerInv /\ OneSegmentInv /\ [Next]_vars => [Forward]_vars
  BY <1>4
<1> QED  BY <1>1, <1>2, <1>3, <1>5, OrderInit, WorkerHolds, PTL DEF Spec, MonotoneUntilFailure

=============================================================================
