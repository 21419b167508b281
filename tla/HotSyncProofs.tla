--------------------------- MODULE HotSyncProofs ---------------------------
(***************************************************************************)
(* Proofs about HotSync.  The record it keeps only watches: what is proved *)
(* of HotPath holds of it as well.  The record tells when the board can be *)
(* behind the table, and when a sync can come too soon, for any number of  *)
(* players, requests, flushes, faults and restarts.                        *)
(***************************************************************************)
EXTENDS HotSync, HotPathProofs, FiniteSetTheorems

(* A step of HotSync is a step of HotPath. *)
LEMMA StepIsHotPath == [NextSync]_<<vars, history>> => [Next]_vars
<1> SUFFICES ASSUME [NextSync]_<<vars, history>>
             PROVE  [Next]_vars
  OBVIOUS
<1>1. CASE UNCHANGED <<vars, history>>
  BY <1>1
<1>2. CASE NextSync
  BY <1>2 DEF NextSync, Next, RequestStep
<1> QED
  BY <1>1, <1>2

(* With the record every behaviour is still one of the hot path: requests, *)
(* flushes, failed statements and restarts are neither added nor changed.  *)
THEOREM OnlyWatches == SpecSync => Spec
BY StepIsHotPath, PTL DEF SpecSync, InitSync, Spec

-----------------------------------------------------------------------------
(* The board behind the table: the inductive invariant *)

(* What sync x is about to put on the board for k is what the table holds. *)
Fresh(x, k) ==
    IF x \in Requests
    THEN row[x].n = store[k].n
    ELSE /\ store[k].n = MaxPsn + flushes
         /\ k \notin pending => rows[k].n = store[k].n

(* Syncs that are in progress together have all met; one that is alone and *)
(* has met none carries what the table holds, since it wrote it.           *)
CrossInv ==
    \A k \in Keys :
        /\ crossed[k] \subseteq Syncs(k)
        /\ \A x, y \in Syncs(k) : x # y => crossed[k] = Syncs(k)
        /\ \A x \in Syncs(k) \ crossed[k] : Fresh(x, k)

SyncInv == IInv /\ CrossInv /\ StaleOnlyAfterCrossing

-----------------------------------------------------------------------------
(* Lemmas: what a step is to the syncs of one player *)

(* The player's rows stay, and who was fresh stays so. *)
Quiet(k) ==
    /\ Syncs(k)' = Syncs(k)
    /\ store'[k] = store[k] /\ mem'[k] = mem[k] /\ restarts' = restarts
    /\ \A x \in Syncs(k) : Fresh(x, k) => Fresh(x, k)'

(* A sync has written the table. *)
Enters(k, x) ==
    /\ x \notin Syncs(k)
    /\ Syncs(k)' = Syncs(k) \cup {x}
    /\ restarts' = restarts
    /\ Fresh(x, k)'

(* A sync has written the board. *)
Leaves(k, x) ==
    /\ x \in Syncs(k)
    /\ Syncs(k)' = Syncs(k) \ {x}
    /\ store'[k] = store[k] /\ restarts' = restarts
    /\ Fresh(x, k) => mem'[k].n = store[k].n

(* Who is a sync of k. *)
LEMMA SyncsOf ==
    ASSUME NEW k \in Keys, NEW x
    PROVE  x \in Syncs(k) <=> \/ x \in Requests /\ rkey[x] = k /\ rpc[x] \in {"readback", "board"}
                              \/ x = k /\ k \in batch
BY DEF Syncs

(* A step in which the request keeps out of the syncs of k. *)
LEMMA OutsideIsQuiet ==
    ASSUME NEW k \in Keys, NEW r \in Requests, TypeOK,
           r \notin Syncs(k), r \notin Syncs(k)',
           \A q \in Requests \ {r} : rpc'[q] = rpc[q] /\ rkey'[q] = rkey[q] /\ row'[q] = row[q],
           store'[k] = store[k], mem'[k] = mem[k],
           UNCHANGED <<workerVars, flushes, restarts>>
    PROVE  Quiet(k)
<1>1. UNCHANGED <<batch, pending, rows, flushes, restarts>>
  BY DEF workerVars
<1>2. ASSUME NEW x
      PROVE  x \in Syncs(k)' <=> x \in Syncs(k)
  BY <1>1, HotSyncAssumption DEF Syncs
<1>3. ASSUME NEW x \in Syncs(k), Fresh(x, k)
      PROVE  Fresh(x, k)'
  BY <1>1, <1>3 DEF Fresh
<1> QED
  BY <1>1, <1>2, <1>3 DEF Quiet

(* Every step is one of the four to player k. *)
LEMMA SyncCases ==
    ASSUME IInv, [Next]_vars, NEW k \in Keys
    PROVE  \/ Quiet(k)
           \/ \E x : Enters(k, x) \/ Leaves(k, x)
           \/ Restart
<1>0. /\ TypeOK /\ rpc \in [Requests -> {"idle", "lookup", "select", "insert", "readback", "board"}]
      /\ rkey \in [Requests -> JoinKeys] /\ store[k] \in StoreRows \cup {NoRow}
      /\ row \in [Requests -> BoardRows \cup {NoRow}] /\ batch \subseteq Keys /\ pending \subseteq batch
      /\ store \in [Keys -> StoreRows \cup {NoRow}] /\ mem \in [Keys -> BoardRows \cup {NoRow}]
      /\ rows \in [Keys -> BoardRows \cup {NoRow}]
  BY DEF IInv, TypeOK
<1>1. ASSUME NEW r \in Requests, NEW l \in JoinKeys, Join(r, l) \/ JoinUnchecked(r, l) \/ Refresh(r, l)
      PROVE  Quiet(k)
  <2>1. r \notin Syncs(k) /\ r \notin Syncs(k)'
    BY <1>0, <1>1, HotSyncAssumption DEF Join, JoinUnchecked, Refresh, Admit, Goto, Syncs
  <2> QED
    BY <1>0, <1>1, <2>1, OutsideIsQuiet DEF Join, JoinUnchecked, Refresh, Admit, Goto
<1>2. ASSUME NEW r \in Requests, Lookup(r) \/ SelectJoined(r)
      PROVE  Quiet(k)
  <2>1. r \notin Syncs(k) /\ r \notin Syncs(k)'
    BY <1>0, <1>2, HotSyncAssumption DEF Lookup, SelectJoined, Answered, Goto, Syncs
  <2> QED
    BY <1>0, <1>2, <2>1, OutsideIsQuiet DEF Lookup, SelectJoined, Answered, Goto
<1>3. ASSUME NEW r \in Requests, Insert(r)
      PROVE  Quiet(k) \/ Enters(k, r)
  <2>1. r \notin Syncs(k)
    BY <1>0, <1>3, HotSyncAssumption DEF Insert, Syncs
  <2>2. CASE rpc'[r] = "readback" /\ rkey[r] = k
    <3>1. /\ store'[k] = InsertOnConflict(store[k], row[r]) /\ rpc' = [rpc EXCEPT ![r] = "readback"]
          /\ UNCHANGED <<rkey, row, batch, restarts>>
      BY <1>0, <1>3, <2>2 DEF Insert, Answered, Goto, workerVars
    <3>2. row[r] \in StoreRows
      BY <1>3 DEF Insert, IInv, RequestInv
    <3>3. Fresh(r, k)'
      <4>1. InsertOnConflict(store[k], row[r]).n = row[r].n
        BY <1>0, <3>2, ConflictRow
      <4> QED
        BY <3>1, <4>1 DEF Fresh
    <3>4. ASSUME NEW x
          PROVE  x \in Syncs(k)' <=> x \in Syncs(k) \cup {r}
      BY <1>0, <2>2, <3>1 DEF Syncs
    <3> QED
      BY <2>1, <3>1, <3>3, <3>4 DEF Enters
  <2>3. CASE ~(rpc'[r] = "readback" /\ rkey[r] = k)
    <3>1. r \notin Syncs(k)' /\ store'[k] = store[k]
      BY <1>0, <1>3, <2>3, HotSyncAssumption DEF Insert, Answered, Goto, Syncs
    <3> QED
      BY <1>0, <1>3, <2>1, <3>1, OutsideIsQuiet DEF Insert, Answered, Goto
  <2> QED
    BY <2>2, <2>3
<1>4. ASSUME NEW r \in Requests, ReadBack(r)
      PROVE  Quiet(k)
  <2>1. /\ rpc[r] = "readback" /\ rpc' = [rpc EXCEPT ![r] = "board"]
        /\ UNCHANGED <<rkey, store, mem, batch, pending, rows, flushes, restarts>>
        /\ \A q \in Requests \ {r} : row'[q] = row[q]
    BY <1>0, <1>4 DEF ReadBack, Goto, workerVars
  <2>2. \A x : x \in Syncs(k)' <=> x \in Syncs(k)
    BY <1>0, <2>1 DEF Syncs
  <2>3. store[rkey[r]] # NoRow /\ row[r] \in StoreRows /\ rkey[r] \in Keys
    BY <1>4, HotPathAssumption DEF ReadBack, IInv, RequestInv, TypeOK
  <2>4. row'[r].n \in {row[r].n, store[rkey[r]].n}
    BY <1>0, <1>4, <2>3 DEF ReadBack, Own, StoreRows
  <2>5. ASSUME NEW x \in Syncs(k), Fresh(x, k)
        PROVE  Fresh(x, k)'
    <3>1. x = r => rkey[r] = k
      BY HotSyncAssumption DEF Syncs
    <3> QED
      BY <2>1, <2>4, <2>5, <3>1 DEF Fresh
  <2> QED
    BY <2>1, <2>2, <2>5 DEF Quiet
<1>5. ASSUME NEW r \in Requests, UpdateBoard(r)
      PROVE  Quiet(k) \/ Leaves(k, r)
  <2>1. /\ rpc[r] = "board" /\ rpc' = [rpc EXCEPT ![r] = "idle"]
        /\ mem' = [mem EXCEPT ![rkey[r]] = row[r]]
        /\ UNCHANGED <<rkey, store, workerVars, flushes, restarts>>
        /\ \A q \in Requests \ {r} : row'[q] = row[q]
    BY <1>0, <1>5 DEF UpdateBoard, Answered
  <2>2. r \notin Syncs(k)'
    BY <1>0, <2>1, HotSyncAssumption DEF Syncs
  <2>3. CASE rkey[r] = k
    <3>1. \A x : x \in Syncs(k)' <=> x \in Syncs(k) \ {r}
      BY <1>0, <2>1, <2>2 DEF Syncs, workerVars
    <3> QED
      BY <1>0, <2>1, <2>3, <3>1 DEF Leaves, Fresh, Syncs
  <2>4. CASE rkey[r] # k
    <3>1. r \notin Syncs(k) /\ mem'[k] = mem[k]
      BY <1>0, <2>1, <2>4, HotSyncAssumption DEF Syncs
    <3> QED
      BY <1>0, <2>1, <2>2, <3>1, OutsideIsQuiet
  <2> QED
    BY <2>3, <2>4
<1>6. ASSUME NEW b \in SUBSET SeedKeys, FlushCommit(b)
      PROVE  Quiet(k) \/ Enters(k, k)
  <2> DEFINE new == [n |-> MaxPsn + flushes', joined |-> clock, synced |-> clock]
  <2>1. /\ batch = {} /\ batch' = b /\ pending' = b
        /\ UNCHANGED <<rpc, rkey, row, mem, restarts>>
        /\ store'[k] = IF k \in b THEN InsertOnConflict(store[k], new) ELSE store[k]
    BY <1>6 DEF FlushCommit, IInv, FlushInv, requestVars
  <2>2. new \in StoreRows /\ new.n = MaxPsn + flushes'
    BY <1>0, <1>6, FlushedRow
  <2> HIDE DEF new
  <2>3. CASE k \in b
    <3>1. \A x : x \in Syncs(k)' <=> x \in Syncs(k) \cup {k}
      BY <2>1, <2>3 DEF Syncs
    <3>2. store'[k].n = MaxPsn + flushes'
      BY <1>0, <2>1, <2>2, <2>3, ConflictRow
    <3> QED
      BY <2>1, <2>3, <3>1, <3>2, HotSyncAssumption DEF Enters, Fresh, Syncs
  <2>4. CASE k \notin b
    <3>1. \A x : x \in Syncs(k)' <=> x \in Syncs(k)
      BY <2>1, <2>4 DEF Syncs
    <3> QED
      BY <2>1, <2>4, <3>1, HotSyncAssumption DEF Quiet, Fresh, Syncs
  <2> QED
    BY <2>3, <2>4
<1>7. ASSUME NEW l \in Keys, FlushReadBack(l)
      PROVE  Quiet(k)
  <2>1. /\ UNCHANGED <<rpc, rkey, row, store, mem, batch, flushes, restarts>>
        /\ pending' = pending \ {l}
        /\ \A j \in Keys \ {l} : rows'[j] = rows[j]
        /\ rows'[l].n \in {store[l].n, MaxPsn + flushes}
    BY <1>0, <1>7 DEF FlushReadBack, FlushRow, requestVars
  <2>2. \A x : x \in Syncs(k)' <=> x \in Syncs(k)
    BY <2>1 DEF Syncs
  <2> QED
    BY <2>1, <2>2 DEF Quiet, Fresh
<1>8. ASSUME FlushBoard
      PROVE  Quiet(k) \/ Leaves(k, k)
  <2>1. /\ UNCHANGED <<rpc, rkey, row, store, pending, flushes, restarts>>
        /\ pending = {} /\ batch' = {}
        /\ mem'[k] = IF k \in batch THEN rows[k] ELSE mem[k]
    BY <1>8 DEF FlushBoard, requestVars
  <2>2. CASE k \in batch
    <3>1. \A x : x \in Syncs(k)' <=> x \in Syncs(k) \ {k}
      BY <2>1, HotSyncAssumption DEF Syncs
    <3> QED
      BY <2>1, <2>2, <3>1, HotSyncAssumption DEF Leaves, Fresh, Syncs
  <2>3. CASE k \notin batch
    <3>1. \A x : x \in Syncs(k)' <=> x \in Syncs(k)
      BY <2>1, <2>3 DEF Syncs
    <3> QED
      BY <2>1, <2>3, <3>1, HotSyncAssumption DEF Quiet, Fresh, Syncs
  <2> QED
    BY <2>2, <2>3
<1>9. ASSUME (\E l \in JoinKeys : AccountChanges(l)) \/ Tick \/ UNCHANGED vars
      PROVE  Quiet(k)
  BY <1>9 DEF AccountChanges, Tick, vars, requestVars, workerVars, Quiet, Fresh, Syncs
<1> QED
  BY <1>1, <1>2, <1>3, <1>4, <1>5, <1>6, <1>7, <1>8, <1>9, NextCases DEF RequestStep

(* Only sets with two members count more than one. *)
LEMMA MoreThanOne ==
    ASSUME NEW S, IsFiniteSet(S)
    PROVE  Cardinality(S) > 1 <=> \E x, y \in S : x # y
<1>1. Cardinality(S) \in Nat
  BY FS_CardinalityType
<1>2. ASSUME NEW x \in S, NEW y \in S, x # y
      PROVE  Cardinality(S) > 1
  <2>1. IsFiniteSet(S \ {x}) /\ Cardinality(S \ {x}) = Cardinality(S) - 1
    BY FS_RemoveElement
  <2>2. S \ {x} # {}
    BY <1>2
  <2>3. Cardinality(S \ {x}) # 0 /\ Cardinality(S \ {x}) \in Nat
    BY <2>1, <2>2, FS_EmptySet, FS_CardinalityType
  <2> QED
    BY <1>1, <2>1, <2>3
<1>3. ASSUME \A x, y \in S : x = y
      PROVE  ~(Cardinality(S) > 1)
  <2>1. CASE S = {}
    BY <2>1, FS_EmptySet
  <2>2. ASSUME NEW x \in S
        PROVE  ~(Cardinality(S) > 1)
    <3>1. S = {x}
      BY <1>3
    <3> QED
      BY <3>1, FS_Singleton
  <2> QED
    BY <2>1, <2>2
<1> QED
  BY <1>2, <1>3

(* What the record says of one player after a step. *)
LEMMA ObservedAt ==
    ASSUME NEW unchecked, Observe(unchecked), NEW k \in Keys
    PROVE  /\ crossed'[k] = IF \E x, y \in Syncs(k)' : x # y
                            THEN Syncs(k)'
                            ELSE crossed[k] \cap Syncs(k)'
           /\ restarts' = restarts /\ Syncs(k) \ Syncs(k)' = {} => lag'[k] = lag[k]
           /\ restarts' = restarts /\ Syncs(k) \ Syncs(k)' # {} =>
                  lag'[k] = (Syncs(k) \ Syncs(k)' \subseteq crossed[k])
<1>1. IsFiniteSet(Syncs(k)')
  <2>1. {r \in Requests : rkey'[r] = k /\ rpc'[r] \in {"readback", "board"}} \subseteq Requests
    OBVIOUS
  <2>2. IsFiniteSet({r \in Requests : rkey'[r] = k /\ rpc'[r] \in {"readback", "board"}} \cup {k})
    BY <2>1, HotSyncAssumption, FS_Subset, FS_AddElement
  <2>3. Syncs(k)' \subseteq {r \in Requests : rkey'[r] = k /\ rpc'[r] \in {"readback", "board"}} \cup {k}
    BY DEF Syncs
  <2> QED
    BY <2>2, <2>3, FS_Subset
<1>2. crossed'[k] = IF Cardinality(Syncs(k)') > 1 THEN Syncs(k)' ELSE crossed[k] \cap Syncs(k)'
  BY DEF Observe
<1>3. Cardinality(Syncs(k)') > 1 <=> \E x, y \in Syncs(k)' : x # y
  BY <1>1, MoreThanOne
<1>4. lag'[k] = IF restarts' # restarts THEN FALSE
                ELSE IF Syncs(k) \ Syncs(k)' = {} THEN lag[k]
                ELSE Syncs(k) \ Syncs(k)' \subseteq crossed[k]
  BY DEF Observe
<1> QED
  BY <1>2, <1>3, <1>4

(* The invariant of one player, in a step of each of the four kinds. *)
LEMMA CrossStep ==
    ASSUME SyncInv, IInv', [NextSync]_<<vars, history>>, NEW k \in Keys
    PROVE  /\ crossed'[k] \subseteq Syncs(k)'
           /\ \A x, y \in Syncs(k)' : x # y => crossed'[k] = Syncs(k)'
           /\ \A x \in Syncs(k)' \ crossed'[k] : Fresh(x, k)'
           /\ Syncs(k)' = {} /\ ~lag'[k] => mem'[k].n = store'[k].n
<1> DEFINE S == Syncs(k)
           T == Syncs(k)'
           Good == /\ crossed'[k] \subseteq T
                   /\ \A x, y \in T : x # y => crossed'[k] = T
                   /\ \A x \in T \ crossed'[k] : Fresh(x, k)'
                   /\ T = {} /\ ~lag'[k] => mem'[k].n = store'[k].n
<1>0. /\ crossed[k] \subseteq S
      /\ \A x, y \in S : x # y => crossed[k] = S
      /\ \A x \in S \ crossed[k] : Fresh(x, k)
      /\ S = {} /\ ~lag[k] => mem[k].n = store[k].n
  BY DEF SyncInv, CrossInv, StaleOnlyAfterCrossing
<1>1. CASE UNCHANGED <<vars, history>>
  <2>1. T = S /\ crossed' = crossed /\ lag' = lag /\ mem' = mem /\ store' = store
    BY <1>1 DEF vars, history, requestVars, workerVars, Syncs
  <2>2. \A x \in S : Fresh(x, k)' <=> Fresh(x, k)
    BY <1>1 DEF vars, requestVars, workerVars, Fresh
  <2> QED
    BY <1>0, <2>1, <2>2
<1>2. CASE NextSync
  <2>0. PICK unchecked : Observe(unchecked)
    BY <1>2 DEF NextSync
  <2>1. /\ crossed'[k] = IF \E x, y \in T : x # y THEN T ELSE crossed[k] \cap T
        /\ restarts' = restarts /\ S \ T = {} => lag'[k] = lag[k]
        /\ restarts' = restarts /\ S \ T # {} => lag'[k] = (S \ T \subseteq crossed[k])
    BY <2>0, ObservedAt
  <2>2. Quiet(k) \/ (\E x : Enters(k, x) \/ Leaves(k, x)) \/ Restart
    BY <1>2, StepIsHotPath, SyncCases DEF SyncInv
  <2>3. ASSUME Quiet(k)
        PROVE  Good
    <3>1. /\ T = S /\ store'[k] = store[k] /\ mem'[k] = mem[k] /\ restarts' = restarts
          /\ \A x \in S : Fresh(x, k) => Fresh(x, k)'
      BY <2>3 DEF Quiet
    <3> HIDE DEF S, T
    <3>2. crossed'[k] = crossed[k] /\ lag'[k] = lag[k]
      BY <1>0, <2>1, <3>1
    <3> QED
      BY <1>0, <3>1, <3>2
  <2>4. ASSUME NEW x, Enters(k, x)
        PROVE  Good
    <3>1. x \notin S /\ T = S \cup {x} /\ restarts' = restarts /\ Fresh(x, k)'
      BY <2>4 DEF Enters
    <3> HIDE DEF S, T
    <3>2. CASE S = {}
      <4>1. T = {x} /\ crossed'[k] = {}
        BY <1>0, <2>1, <3>1, <3>2
      <4> QED
        BY <3>1, <4>1
    <3>3. CASE S # {}
      <4>1. PICK y : y \in S
        BY <3>3
      <4>2. crossed'[k] = T /\ T # {}
        BY <2>1, <3>1, <4>1
      <4> QED
        BY <4>2
    <3> QED
      BY <3>2, <3>3
  <2>5. ASSUME NEW x, Leaves(k, x)
        PROVE  Good
    <3>1. /\ x \in S /\ T = S \ {x} /\ store'[k] = store[k] /\ restarts' = restarts
          /\ Fresh(x, k) => mem'[k].n = store[k].n
      BY <2>5 DEF Leaves
    <3> HIDE DEF S, T
    <3>2. CASE S = {x}
      <4>1. T = {} /\ crossed'[k] = {} /\ S \ T = {x}
        BY <2>1, <3>1, <3>2
      <4>2. lag'[k] = (x \in crossed[k])
        BY <2>1, <3>1, <4>1
      <4>3. x \notin crossed[k] => mem'[k].n = store'[k].n
        BY <1>0, <3>1
      <4> QED
        BY <4>1, <4>2, <4>3
    <3>3. CASE S # {x}
      <4>1. PICK y \in S : y # x
        BY <3>1, <3>3
      <4>2. crossed[k] = S /\ T # {}
        BY <1>0, <3>1, <4>1
      <4>3. crossed'[k] = T
        BY <2>1, <3>1, <4>2
      <4> QED
        BY <4>2, <4>3
    <3> QED
      BY <3>2, <3>3
  <2>6. ASSUME Restart
        PROVE  Good
    <3>1. T = {} /\ mem' = store' /\ crossed'[k] \subseteq T
      BY <2>1, <2>6 DEF Restart, Syncs
    <3> QED
      BY <3>1
  <2> HIDE DEF Good
  <2>7. Good
    BY <2>2, <2>3, <2>4, <2>5, <2>6
  <2> QED
    BY <2>7 DEF Good
<1> QED
  BY <1>1, <1>2

(* Nothing has been observed yet.                                          *)
LEMMA InitSyncInv == InitSync => SyncInv
<1> SUFFICES ASSUME InitSync
             PROVE  SyncInv
  OBVIOUS
<1>1. IInv
  BY InitIInv DEF InitSync
<1>2. \A k \in Keys : Syncs(k) = {} /\ mem[k] = store[k]
  BY DEF InitSync, Init, Syncs
<1> QED
  BY <1>1, <1>2 DEF InitSync, SyncInv, CrossInv, StaleOnlyAfterCrossing

(* Every observed step preserves the invariant.                            *)
LEMMA StepSyncInv == SyncInv /\ [NextSync]_<<vars, history>> => SyncInv'
<1> SUFFICES ASSUME SyncInv, [NextSync]_<<vars, history>>
             PROVE  SyncInv'
  OBVIOUS
<1>1. IInv'
  BY StepIsHotPath, StepIInv DEF SyncInv
<1>2. CrossInv' /\ StaleOnlyAfterCrossing'
  BY <1>1, CrossStep DEF CrossInv, StaleOnlyAfterCrossing
<1> QED
  BY <1>1, <1>2 DEF SyncInv

(* The invariant of the record and of what it watches.                     *)
LEMMA SyncInvariance == SpecSync => []SyncInv
BY InitSyncInv, StepSyncInv, PTL DEF SpecSync

(* The board is behind the table only for a player whose last sync met     *)
(* another one; the next sync that is alone, or a restart, puts it right.  *)
THEOREM StaleOnlyIfCrossed == SpecSync => []StaleOnlyAfterCrossing
<1>1. SyncInv => StaleOnlyAfterCrossing
  BY DEF SyncInv
<1> QED
  BY <1>1, SyncInvariance, PTL

-----------------------------------------------------------------------------
(* The cooldown *)

(* A request whose check could read the row, and that nobody has got ahead *)
(* of since, still finds the row missing or old enough.                    *)
AdmittedInv ==
    \A r \in Requests \ (overtaken \cup blind) :
        rpc[r] \in BeforeInsert => store[rkey[r]] = NoRow \/ Expired(rkey[r])

(* Time passes and rows stay old until they are written. *)
LEMMA AdmittedStep ==
    ASSUME IInv, AdmittedInv, [NextSync]_<<vars, history>>
    PROVE  AdmittedInv'
<1> SUFFICES ASSUME NEW r \in Requests, r \notin overtaken', r \notin blind', rpc'[r] \in BeforeInsert
             PROVE  store'[rkey'[r]] = NoRow \/ Expired(rkey[r])'
  BY DEF AdmittedInv
<1>0. /\ rpc \in [Requests -> {"idle", "lookup", "select", "insert", "readback", "board"}]
      /\ rkey \in [Requests -> JoinKeys] /\ store \in [Keys -> StoreRows \cup {NoRow}]
      /\ clock \in Nat /\ Cooldown \in Nat /\ JoinKeys \subseteq Keys
  BY HotPathAssumption DEF IInv, TypeOK, Times
<1>1. CASE UNCHANGED <<vars, history>>
  BY <1>1 DEF vars, history, requestVars, AdmittedInv, Expired
<1>2. CASE NextSync
  <2>1. PICK unchecked \in SUBSET Requests : Observe(unchecked)
    BY <1>2 DEF NextSync
  <2>2. (r \notin overtaken /\ r \notin blind) \/ rpc[r] = "idle"
    BY <2>1 DEF Observe
  <2>3. store'[rkey'[r]] = store[rkey'[r]]
    BY <2>1 DEF Observe
  <2>4. clock' \in {clock, clock + 1}
    BY <1>2 DEF NextSync, Join, JoinUnchecked, Refresh, Admit, Lookup, SelectJoined, Insert, ReadBack, UpdateBoard,
                FlushCommit, FlushReadBack, FlushBoard, AccountChanges, Tick, Restart
  <2>5. store[rkey'[r]] = NoRow \/ Expired(rkey'[r])
    <3>1. CASE rpc[r] = "idle"
      <4>1. \E k \in JoinKeys : \/ Join(r, k)
                                \/ JoinUnchecked(r, k) /\ Observe({r})
                                \/ Refresh(r, k)
        BY <1>0, <1>2, <3>1
           DEF NextSync, Join, JoinUnchecked, Refresh, Admit, Lookup, SelectJoined, Insert, ReadBack,
               UpdateBoard, Answered, Goto, FlushCommit, FlushReadBack, FlushBoard, AccountChanges,
               Tick, Restart, requestVars, BeforeInsert
      <4>2. ~Observe({r})
        BY DEF Observe
      <4> QED
        BY <1>0, <4>1, <4>2 DEF Join, Refresh, Admit
    <3>2. CASE rpc[r] # "idle"
      <4>1. rpc[r] \in BeforeInsert /\ rkey'[r] = rkey[r]
        BY <1>0, <1>2, <3>2
           DEF NextSync, Join, JoinUnchecked, Refresh, Admit, Lookup, SelectJoined, Insert, ReadBack, UpdateBoard, Answered,
               Goto, FlushCommit, FlushReadBack, FlushBoard, AccountChanges, Tick, Restart,
               requestVars, BeforeInsert
      <4> QED
        BY <2>2, <3>2, <4>1 DEF AdmittedInv
    <3> QED
      BY <3>1, <3>2
  <2>6. rkey'[r] \in Keys
    BY <1>0, <1>2 DEF NextSync, Join, JoinUnchecked, Refresh, Admit, Lookup, SelectJoined, Insert, ReadBack, UpdateBoard,
                      Answered, Goto, FlushCommit, FlushReadBack, FlushBoard, AccountChanges, Tick,
                      Restart, requestVars
  <2>7. store[rkey'[r]].synced \in Nat
    BY <1>0, <2>6, HotPathAssumption DEF StoreRows, NoRow, Times
  <2> QED
    BY <1>0, <2>3, <2>4, <2>5, <2>7 DEF Expired
<1> QED
  BY <1>1, <1>2

(* A player is synced again within the cooldown only by requests that      *)
(* overlap or whose check could not read the row, restarts included: the   *)
(* check of /join and of /refresh is enough for every other one.           *)
THEOREM CooldownIsKept == SpecSync => CooldownHonoured
<1>1. InitSync => IInv /\ AdmittedInv
  BY InitIInv DEF InitSync, Init, AdmittedInv, BeforeInsert
<1>2. IInv /\ AdmittedInv /\ [NextSync]_<<vars, history>> => (IInv /\ AdmittedInv)'
  BY StepIsHotPath, StepIInv, AdmittedStep
<1>3. IInv /\ AdmittedInv /\ [NextSync]_<<vars, history>> =>
          [\A r \in Requests \ (overtaken \cup blind) :
              /\ rpc[r] = "insert" /\ rpc'[r] = "readback"
              /\ store[rkey[r]] # NoRow
              => clock - store[rkey[r]].synced >= Cooldown]_vars
  BY DEF AdmittedInv, BeforeInsert, Expired
<1> QED
  BY <1>1, <1>2, <1>3, PTL DEF SpecSync, CooldownHonoured

(* What is proved of the hot path holds while it is watched. *)
THEOREM StillHotPath ==
    SpecSync => /\ [](BoardShowsCommitted /\ BoardKeepsJoined /\ AllStoredAreListed)
                /\ JoinedNeverChanges
BY OnlyWatches, ShowsCommitted, KeepsJoined, StoredAreListed, JoinedIsFixed, PTL

=============================================================================
