--------------------------- MODULE HotPathProofs ---------------------------
(***************************************************************************)
(* Proofs, for any number of players, requests, flushes, restarts and      *)
(* failing statements, of the safety properties of HotPath, from the       *)
(* inductive invariant IInv of HotPathInv.                                 *)
(***************************************************************************)
EXTENDS HotPathInv, TLAPS

-----------------------------------------------------------------------------

LEMMA NoRowIsNoRow == NoRow \notin StoreRows /\ NoRow \notin BoardRows
<1>1. 0 \notin Contents
  BY HotPathAssumption DEF Contents
<1> QED
  BY <1>1 DEF NoRow, StoreRows, BoardRows

LEMMA StoredIsBoardRow == StoreRows \subseteq BoardRows
BY DEF StoreRows, BoardRows

(* What INSERT ... ON CONFLICT leaves in the table. *)
LEMMA ConflictRow ==
    ASSUME NEW old \in StoreRows \cup {NoRow}, NEW new \in StoreRows
    PROVE  /\ InsertOnConflict(old, new) \in StoreRows
           /\ InsertOnConflict(old, new) # NoRow
           /\ InsertOnConflict(old, new).n = new.n
           /\ old # NoRow => InsertOnConflict(old, new).joined = old.joined
<1>1. CASE old = NoRow
  BY <1>1, NoRowIsNoRow DEF InsertOnConflict
<1>2. CASE old # NoRow
  BY <1>2, NoRowIsNoRow DEF InsertOnConflict, StoreRows
<1> QED
  BY <1>1, <1>2

(* The step relation, its actions side by side. *)
LEMMA NextCases ==
    ASSUME [Next]_vars
    PROVE  \/ \E r \in Requests, k \in JoinKeys : Join(r, k) \/ JoinUnchecked(r, k) \/ Refresh(r, k)
           \/ \E r \in Requests : RequestStep(r)
           \/ \E b \in SUBSET SeedKeys : FlushCommit(b)
           \/ \E k \in Keys : FlushReadBack(k)
           \/ \E k \in JoinKeys : AccountChanges(k)
           \/ FlushBoard
           \/ Tick
           \/ Restart
           \/ UNCHANGED vars
BY DEF Next

(* The row a flush inserts. *)
LEMMA FlushedRow ==
    ASSUME TypeOK, NEW b, FlushCommit(b)
    PROVE  /\ [n |-> MaxPsn + flushes', joined |-> clock, synced |-> clock] \in StoreRows
           /\ flushes' \in 0 .. MaxFlushes
           /\ MaxPsn + flushes' \in Contents
BY HotPathAssumption DEF TypeOK, FlushCommit, StoreRows, Contents

LEMMA TypeStep == TypeOK /\ RequestInv /\ FlushInv /\ [Next]_vars => TypeOK'
<1> SUFFICES ASSUME TypeOK, RequestInv, FlushInv, [Next]_vars
             PROVE  TypeOK'
  OBVIOUS
<1> USE HotPathAssumption, StoredIsBoardRow DEF TypeOK, Goto, Answered
<1>1. ASSUME NEW r \in Requests, NEW k \in JoinKeys, Join(r, k) \/ JoinUnchecked(r, k) \/ Refresh(r, k)
      PROVE  TypeOK'
  BY <1>1 DEF Join, JoinUnchecked, Refresh, Admit, workerVars
<1>2. ASSUME NEW r \in Requests, Lookup(r)
      PROVE  TypeOK'
  BY <1>2 DEF Lookup, workerVars
<1>3. ASSUME NEW r \in Requests, SelectJoined(r)
      PROVE  TypeOK'
  <2>1. CASE rpc'[r] = "insert"
    <3>1. JoinedAt(rkey[r]) \in Times
      BY DEF JoinedAt, StoreRows
    <3>2. summary[r] \in Contents
      BY <1>3 DEF RequestInv, SelectJoined, Contents
    <3>3. [n |-> summary[r], joined |-> JoinedAt(rkey[r]), synced |-> clock] \in BoardRows
      BY <3>1, <3>2 DEF BoardRows
    <3> QED
      BY <1>3, <2>1, <3>3 DEF SelectJoined, workerVars
  <2>2. CASE rpc'[r] # "insert"
    BY <1>3, <2>2 DEF SelectJoined, workerVars
  <2> QED
    BY <2>1, <2>2
<1>4. ASSUME NEW r \in Requests, Insert(r)
      PROVE  TypeOK'
  <2>1. row[r] \in StoreRows /\ row[r].n \in Contents /\ rkey[r] \in Keys
    BY <1>4 DEF Insert, RequestInv, StoreRows
  <2>2. InsertOnConflict(store[rkey[r]], row[r]) \in StoreRows
    BY <2>1, ConflictRow
  <2>3. store' \in [Keys -> StoreRows \cup {NoRow}] /\ committed' \in [Keys -> SUBSET Contents]
    BY <1>4, <2>1, <2>2 DEF Insert
  <2> QED
    BY <1>4, <2>3 DEF Insert, workerVars
<1>5. ASSUME NEW r \in Requests, ReadBack(r)
      PROVE  TypeOK'
  <2>1. row[r] \in StoreRows /\ rkey[r] \in Keys
    BY <1>5 DEF ReadBack, RequestInv
  <2>2. Own(r) \in BoardRows
    BY <2>1 DEF Own, StoreRows, BoardRows
  <2> QED
    BY <1>5, <2>1, <2>2 DEF ReadBack, workerVars
<1>6. ASSUME NEW r \in Requests, UpdateBoard(r)
      PROVE  TypeOK'
  BY <1>6 DEF UpdateBoard, workerVars
<1>7. ASSUME NEW b \in SUBSET SeedKeys, FlushCommit(b)
      PROVE  TypeOK'
  <2> DEFINE new == [n |-> MaxPsn + flushes', joined |-> clock, synced |-> clock]
  <2>1. new \in StoreRows /\ flushes' \in 0 .. MaxFlushes /\ MaxPsn + flushes' \in Contents
    BY <1>7, FlushedRow
  <2>2. \A k \in Keys : InsertOnConflict(store[k], new) \in StoreRows
    BY <2>1, ConflictRow
  <2>3. store' \in [Keys -> StoreRows \cup {NoRow}]
    <3>1. store' = [k \in Keys |-> IF k \in b THEN InsertOnConflict(store[k], new) ELSE store[k]]
      BY <1>7 DEF FlushCommit
    <3> QED
      BY <2>2, <3>1
  <2>4. committed' \in [Keys -> SUBSET Contents]
    BY <1>7, <2>1 DEF FlushCommit
  <2> QED
    BY <1>7, <2>1, <2>3, <2>4 DEF FlushCommit, requestVars
<1>8. ASSUME NEW k \in Keys, FlushReadBack(k)
      PROVE  TypeOK'
  <2>1. flushes # 0
    BY <1>8 DEF FlushReadBack, FlushInv
  <2>2. FlushRow \in BoardRows
    BY <2>1 DEF FlushRow, BoardRows, Contents
  <2> QED
    BY <1>8, <2>2 DEF FlushReadBack, requestVars
<1>9. ASSUME FlushBoard
      PROVE  TypeOK'
  BY <1>9 DEF FlushBoard, requestVars, NoRows
<1>10. ASSUME NEW k \in JoinKeys, AccountChanges(k)
       PROVE  TypeOK'
  BY <1>10 DEF AccountChanges, requestVars, workerVars
<1>11. ASSUME Tick
       PROVE  TypeOK'
  BY <1>11 DEF Tick, Times, requestVars, workerVars
<1>12. ASSUME Restart
       PROVE  TypeOK'
  BY <1>12 DEF Restart, NoRows
<1>13. CASE UNCHANGED vars
  BY <1>13 DEF vars, requestVars, workerVars
<1> QED
  BY <1>1, <1>2, <1>3, <1>4, <1>5, <1>6, <1>7, <1>8, <1>9, <1>10, <1>11, <1>12, <1>13,
     NextCases DEF RequestStep

(* How a step changes the table: rows stay, with their joined_at, and the  *)
(* history only grows and has every new content.                           *)
LEMMA TableStep ==
    ASSUME TypeOK, RequestInv, [Next]_vars, NEW k \in Keys
    PROVE  /\ store[k] # NoRow => store'[k] # NoRow /\ store'[k].joined = store[k].joined
           /\ committed[k] \subseteq committed'[k]
           /\ store'[k] # store[k] => store'[k].n \in committed'[k]
<1> DEFINE Good == /\ store[k] # NoRow => store'[k] # NoRow /\ store'[k].joined = store[k].joined
                   /\ committed[k] \subseteq committed'[k]
                   /\ store'[k] # store[k] => store'[k].n \in committed'[k]
<1> USE DEF TypeOK
<1>1. ASSUME UNCHANGED <<store, committed>>
      PROVE  Good
  BY <1>1
<1>2. ASSUME NEW r \in Requests, Insert(r)
      PROVE  Good
  <2>1. CASE rpc'[r] = "readback" /\ k = rkey[r]
    <3>1. row[r] \in StoreRows
      BY <1>2 DEF Insert, RequestInv
    <3>2. /\ store'[k] = InsertOnConflict(store[k], row[r])
          /\ committed'[k] = committed[k] \cup {row[r].n}
      BY <1>2, <2>1 DEF Insert, Answered
    <3> QED
      BY <3>1, <3>2, ConflictRow
  <2>2. CASE ~(rpc'[r] = "readback" /\ k = rkey[r])
    BY <1>2, <2>2 DEF Insert, Goto
  <2> QED
    BY <2>1, <2>2
<1>3. ASSUME NEW b \in SUBSET SeedKeys, FlushCommit(b)
      PROVE  Good
  <2> DEFINE new == [n |-> MaxPsn + flushes', joined |-> clock, synced |-> clock]
  <2>1. /\ store'[k] = IF k \in b THEN InsertOnConflict(store[k], new) ELSE store[k]
        /\ committed'[k] = IF k \in b THEN committed[k] \cup {MaxPsn + flushes'} ELSE committed[k]
    BY <1>3 DEF FlushCommit
  <2>2. new \in StoreRows
    BY <1>3, FlushedRow
  <2>3. new.n = MaxPsn + flushes'
    OBVIOUS
  <2> HIDE DEF new
  <2> QED
    BY <2>1, <2>2, <2>3, ConflictRow
<1> QED
  BY <1>1, <1>2, <1>3, NextCases
     DEF RequestStep, Join, JoinUnchecked, Refresh, Admit, Lookup, SelectJoined, ReadBack, UpdateBoard, FlushReadBack,
         AccountChanges, FlushBoard, Tick, Restart, vars

(* A row that may go to the board stays one. *)
LEMMA GenuineStays ==
    ASSUME TypeOK, RequestInv, [Next]_vars, NEW k \in Keys, NEW p, Genuine(k, p)
    PROVE  /\ store'[k] # NoRow
           /\ p.n \in committed'[k]
           /\ p.joined \in {0, store'[k].joined}
BY TableStep DEF Genuine

LEMMA StoreStep == TypeOK /\ RequestInv /\ StoreInv /\ [Next]_vars => StoreInv'
BY TableStep DEF StoreInv

(* What the read-back puts in a request's row. *)
LEMMA StoredIsGenuine ==
    ASSUME TypeOK, StoreInv, NEW k \in Keys, store[k] # NoRow
    PROVE  store[k] \in BoardRows /\ Genuine(k, store[k])
BY StoredIsBoardRow DEF TypeOK, StoreInv, Genuine

LEMMA RequestInvStep ==
    TypeOK /\ StoreInv /\ RequestInv /\ [Next]_vars => RequestInv'
<1> SUFFICES ASSUME TypeOK, StoreInv, RequestInv, [Next]_vars, NEW q \in Requests
             PROVE  /\ rpc'[q] = "select" => summary'[q] # 0
                    /\ rpc'[q] \in {"insert", "readback"} => row'[q] \in StoreRows
                    /\ rpc'[q] = "readback" => /\ store'[rkey'[q]] # NoRow
                                               /\ row'[q].n \in committed'[rkey'[q]]
                    /\ rpc'[q] = "board" => row'[q] \in BoardRows /\ Genuine(rkey[q], row[q])'
  BY DEF RequestInv
<1> DEFINE Good == /\ rpc'[q] = "select" => summary'[q] # 0
                   /\ rpc'[q] \in {"insert", "readback"} => row'[q] \in StoreRows
                   /\ rpc'[q] = "readback" => /\ store'[rkey'[q]] # NoRow
                                              /\ row'[q].n \in committed'[rkey'[q]]
                   /\ rpc'[q] = "board" => row'[q] \in BoardRows /\ Genuine(rkey[q], row[q])'
<1>0. rkey[q] \in Keys
  BY HotPathAssumption DEF TypeOK
<1>1. ASSUME rpc'[q] = rpc[q], rkey'[q] = rkey[q], summary'[q] = summary[q], row'[q] = row[q]
      PROVE  Good
  <2>1. rpc[q] = "board" => Genuine(rkey[q], row[q])'
    BY <1>0, <1>1, GenuineStays DEF RequestInv, Genuine
  <2> QED
    BY <1>0, <1>1, <2>1, TableStep DEF RequestInv
<1>2. ASSUME rpc'[q] \in {"idle", "lookup"}
      PROVE  Good
  BY <1>2
<1>3. CASE Lookup(q)
  BY <1>2, <1>3 DEF Lookup, Answered, Goto, TypeOK
<1>4. CASE SelectJoined(q)
  <2>1. CASE rpc'[q] = "insert"
    <3>1. JoinedAt(rkey[q]) \in Times
      BY <1>0 DEF JoinedAt, StoreRows, TypeOK
    <3>2. summary[q] \in Contents
      BY <1>4, HotPathAssumption DEF RequestInv, SelectJoined, Contents, TypeOK
    <3>3. [n |-> summary[q], joined |-> JoinedAt(rkey[q]), synced |-> clock] \in StoreRows
      BY <3>1, <3>2 DEF StoreRows, TypeOK
    <3> QED
      BY <1>4, <2>1, <3>3 DEF SelectJoined, Answered, TypeOK
  <2>2. CASE rpc'[q] # "insert"
    BY <1>2, <1>4, <2>2 DEF SelectJoined, Answered, Goto, TypeOK
  <2> QED
    BY <2>1, <2>2
<1>5. CASE Insert(q)
  <2>1. CASE rpc'[q] = "readback"
    <3>1. row[q] \in StoreRows
      BY <1>5 DEF Insert, RequestInv
    <3>2. InsertOnConflict(store[rkey[q]], row[q]) # NoRow
      BY <1>0, <3>1, ConflictRow DEF TypeOK
    <3>3. /\ row'[q] = row[q] /\ rkey'[q] = rkey[q]
          /\ store'[rkey[q]] = InsertOnConflict(store[rkey[q]], row[q])
          /\ row[q].n \in committed'[rkey[q]]
      BY <1>0, <1>5, <2>1 DEF Insert, Answered, TypeOK
    <3> QED
      BY <2>1, <3>1, <3>2, <3>3
  <2>2. CASE rpc'[q] # "readback"
    BY <1>2, <1>5, <2>2 DEF Insert, Answered, Goto, TypeOK
  <2> QED
    BY <2>1, <2>2
<1>6. CASE ReadBack(q)
  <2>1. /\ row[q] \in StoreRows /\ store[rkey[q]] # NoRow
        /\ row[q].n \in committed[rkey[q]]
    BY <1>6 DEF ReadBack, RequestInv
  <2>2. Own(q) \in BoardRows /\ Genuine(rkey[q], Own(q))
    BY <2>1 DEF Own, StoreRows, BoardRows, Genuine
  <2>3. store[rkey[q]] \in BoardRows /\ Genuine(rkey[q], store[rkey[q]])
    BY <1>0, <2>1, StoredIsGenuine
  <2>4. /\ row'[q] \in {Own(q), store[rkey[q]]}
        /\ rpc'[q] = "board" /\ rkey' = rkey /\ store' = store /\ committed' = committed
    BY <1>6 DEF ReadBack, Goto, TypeOK
  <2> QED
    BY <2>2, <2>3, <2>4 DEF Genuine
<1>7. CASE UpdateBoard(q)
  BY <1>2, <1>7 DEF UpdateBoard, Answered, TypeOK
<1>8. CASE \E k \in JoinKeys : Join(q, k) \/ JoinUnchecked(q, k) \/ Refresh(q, k)
  BY <1>2, <1>8 DEF Join, JoinUnchecked, Refresh, Admit, Goto, TypeOK
<1>9. ASSUME NEW r \in Requests, r # q,
             RequestStep(r) \/ \E k \in JoinKeys : Join(r, k) \/ JoinUnchecked(r, k) \/ Refresh(r, k)
      PROVE  Good
  BY <1>1, <1>9 DEF RequestStep, Join, JoinUnchecked, Refresh, Admit, Lookup, SelectJoined, Insert, ReadBack, UpdateBoard,
                    Answered, Goto, TypeOK
<1>10. CASE Restart
  BY <1>2, <1>10 DEF Restart
<1>11. ASSUME UNCHANGED requestVars
       PROVE  Good
  BY <1>1, <1>11 DEF requestVars
<1> QED
  BY <1>1, <1>2, <1>3, <1>4, <1>5, <1>6, <1>7, <1>8, <1>9, <1>10, <1>11, NextCases
     DEF RequestStep, FlushCommit, FlushReadBack, FlushBoard, AccountChanges, Tick, vars

LEMMA FlushInvStep ==
    TypeOK /\ StoreInv /\ RequestInv /\ FlushInv /\ [Next]_vars => FlushInv'
<1> SUFFICES ASSUME TypeOK, StoreInv, RequestInv, FlushInv, [Next]_vars
             PROVE  FlushInv'
  OBVIOUS
<1>1. ASSUME UNCHANGED <<workerVars, flushes>>
      PROVE  FlushInv'
  <2>1. wpc' = wpc /\ batch' = batch /\ pending' = pending /\ rows' = rows /\ flushes' = flushes
    BY <1>1 DEF workerVars
  <2>2. \A k \in batch : k \in Keys
    BY DEF TypeOK
  <2>3. \A k \in batch : k \notin pending => Genuine(k, rows[k])'
    BY <2>1, <2>2, GenuineStays DEF FlushInv, Genuine
  <2> QED
    BY <2>1, <2>2, <2>3, TableStep DEF FlushInv
<1>2. ASSUME NEW b \in SUBSET SeedKeys, FlushCommit(b)
      PROVE  FlushInv'
  <2> DEFINE new == [n |-> MaxPsn + flushes', joined |-> clock, synced |-> clock]
  <2>1. new \in StoreRows /\ b \subseteq Keys
    BY <1>2, FlushedRow, HotPathAssumption
  <2>2. \A k \in b : store'[k] = InsertOnConflict(store[k], new)
    BY <1>2, <2>1 DEF FlushCommit
  <2>3. \A k \in b : MaxPsn + flushes' \in committed'[k]
    BY <1>2, <2>1 DEF FlushCommit
  <2>4. batch' = b /\ pending' = b /\ wpc' = "readback" /\ flushes' # 0
    BY <1>2 DEF FlushCommit, TypeOK
  <2> HIDE DEF new
  <2>5. \A k \in b : store[k] \in StoreRows \cup {NoRow}
    BY <2>1 DEF TypeOK
  <2>6. \A k \in b : store'[k] # NoRow
    BY <2>1, <2>2, <2>5, ConflictRow
  <2> QED
    BY <2>3, <2>4, <2>6 DEF FlushInv
<1>3. ASSUME NEW k \in Keys, FlushReadBack(k)
      PROVE  FlushInv'
  <2>1. k \in batch /\ store[k] # NoRow /\ flushes # 0 /\ MaxPsn + flushes \in committed[k]
    BY <1>3 DEF FlushReadBack, FlushInv, TypeOK
  <2>2. FlushRow \in BoardRows /\ Genuine(k, FlushRow)
    BY <2>1, HotPathAssumption DEF FlushRow, BoardRows, Contents, Genuine, TypeOK
  <2>3. store[k] \in BoardRows /\ Genuine(k, store[k])
    BY <2>1, StoredIsGenuine
  <2>4. rows'[k] \in BoardRows /\ Genuine(k, rows'[k])
    BY <1>3, <2>1, <2>2, <2>3 DEF FlushReadBack, TypeOK
  <2>5. \A l \in batch : l # k => rows'[l] = rows[l]
    BY <1>3 DEF FlushReadBack, TypeOK
  <2>6. UNCHANGED <<store, wpc, batch, flushes, committed>> /\ pending' = pending \ {k}
    BY <1>3 DEF FlushReadBack
  <2> QED
    BY <2>4, <2>5, <2>6 DEF FlushInv, Genuine
<1>4. ASSUME FlushBoard \/ Restart
      PROVE  FlushInv'
  BY <1>4 DEF FlushBoard, Restart, FlushInv
<1> QED
  BY <1>1, <1>2, <1>3, <1>4, NextCases
     DEF RequestStep, Join, JoinUnchecked, Refresh, Admit, Lookup, SelectJoined, Insert, ReadBack, UpdateBoard,
         AccountChanges, Tick, vars

(* One step of the board: its rows are genuine in the new state. *)
LEMMA BoardRowStep ==
    ASSUME IInv, [Next]_vars, NEW k \in Keys, mem'[k] # NoRow
    PROVE  Genuine(k, mem[k])'
<1> USE DEF IInv
<1>1. ASSUME mem'[k] = mem[k]
      PROVE  Genuine(k, mem[k])'
  BY <1>1, GenuineStays DEF BoardInv, Genuine
<1>2. ASSUME NEW r \in Requests, UpdateBoard(r)
      PROVE  Genuine(k, mem[k])'
  <2>1. CASE k = rkey[r]
    <3>1. mem'[k] = row[r] /\ store' = store /\ committed' = committed
      BY <1>2, <2>1 DEF UpdateBoard, TypeOK
    <3> QED
      BY <1>2, <2>1, <3>1 DEF UpdateBoard, RequestInv, Genuine
  <2>2. CASE k # rkey[r]
    BY <1>1, <1>2, <2>2 DEF UpdateBoard, TypeOK
  <2> QED
    BY <2>1, <2>2
<1>3. ASSUME FlushBoard
      PROVE  Genuine(k, mem[k])'
  <2>1. CASE k \in batch
    <3>1. mem'[k] = rows[k] /\ store' = store /\ committed' = committed
      BY <1>3, <2>1 DEF FlushBoard
    <3> QED
      BY <1>3, <2>1, <3>1 DEF FlushBoard, FlushInv, Genuine
  <2>2. CASE k \notin batch
    BY <1>1, <1>3, <2>2 DEF FlushBoard
  <2> QED
    BY <2>1, <2>2
<1>4. ASSUME Restart
      PROVE  Genuine(k, mem[k])'
  <2>1. mem' = store /\ store' = store /\ committed' = committed
    BY <1>4 DEF Restart
  <2> QED
    BY <2>1, StoredIsGenuine DEF Genuine
<1> QED
  BY <1>1, <1>2, <1>3, <1>4, NextCases
     DEF RequestStep, Join, JoinUnchecked, Refresh, Admit, Lookup, SelectJoined, Insert, ReadBack, FlushCommit,
         FlushReadBack, AccountChanges, Tick, vars

(* Nobody falls off the board, and what is coming comes. *)
LEMMA ListedStep ==
    ASSUME IInv, [Next]_vars, NEW k \in Keys, store'[k] # NoRow
    PROVE  mem'[k] # NoRow \/ Coming(k)'
<1> DEFINE Good == mem'[k] # NoRow \/ Coming(k)'
<1> USE DEF IInv
<1>0. store[k] # NoRow => mem[k] # NoRow \/ Coming(k)
  BY DEF BoardInv
<1>1. ASSUME store'[k] = store[k], mem'[k] = mem[k], batch' = batch, rpc' = rpc, rkey' = rkey
      PROVE  Good
  BY <1>0, <1>1 DEF Coming
<1>2. ASSUME NEW r \in Requests, NEW l \in JoinKeys, Join(r, l) \/ JoinUnchecked(r, l) \/ Refresh(r, l)
      PROVE  Good
  BY <1>0, <1>2 DEF Join, JoinUnchecked, Refresh, Admit, Goto, Coming, workerVars, TypeOK
<1>3. ASSUME NEW r \in Requests, Lookup(r) \/ SelectJoined(r)
      PROVE  Good
  BY <1>0, <1>3 DEF Lookup, SelectJoined, Goto, Answered, Coming, workerVars, TypeOK
<1>4. ASSUME NEW r \in Requests, Insert(r)
      PROVE  Good
  BY <1>0, <1>4 DEF Insert, Goto, Answered, Coming, workerVars, TypeOK
<1>5. ASSUME NEW r \in Requests, ReadBack(r)
      PROVE  Good
  BY <1>0, <1>5 DEF ReadBack, Goto, Coming, workerVars, TypeOK
<1>6. ASSUME NEW r \in Requests, UpdateBoard(r)
      PROVE  Good
  <2>1. row[r] \in BoardRows
    BY <1>6 DEF UpdateBoard, RequestInv
  <2> QED
    BY <1>0, <1>6, <2>1, NoRowIsNoRow DEF UpdateBoard, Answered, Coming, workerVars, TypeOK
<1>7. ASSUME NEW b \in SUBSET SeedKeys, FlushCommit(b)
      PROVE  Good
  BY <1>0, <1>7 DEF FlushCommit, Coming, requestVars, FlushInv
<1>8. ASSUME NEW l \in Keys, FlushReadBack(l)
      PROVE  Good
  BY <1>1, <1>8 DEF FlushReadBack, requestVars
<1>9. ASSUME FlushBoard
      PROVE  Good
  <2>1. k \in batch => rows[k] \in BoardRows
    BY <1>9 DEF FlushBoard, FlushInv
  <2> QED
    BY <1>0, <1>9, <2>1, NoRowIsNoRow DEF FlushBoard, Coming, requestVars
<1>10. ASSUME Restart
       PROVE  Good
  BY <1>10 DEF Restart
<1>11. ASSUME (\E l \in JoinKeys : AccountChanges(l)) \/ Tick \/ UNCHANGED vars
       PROVE  Good
  BY <1>1, <1>11 DEF AccountChanges, Tick, vars, requestVars, workerVars
<1> QED
  BY <1>2, <1>3, <1>4, <1>5, <1>6, <1>7, <1>8, <1>9, <1>10, <1>11, NextCases DEF RequestStep

LEMMA InitIInv == Init => IInv
<1> SUFFICES ASSUME Init
             PROVE  IInv
  OBVIOUS
<1> USE HotPathAssumption DEF Init, NoRows
<1>1. TypeOK
  BY DEF TypeOK, Times
<1>2. StoreInv /\ RequestInv /\ FlushInv /\ BoardInv
  BY DEF StoreInv, RequestInv, FlushInv, BoardInv
<1> QED
  BY <1>1, <1>2 DEF IInv

LEMMA StepIInv == IInv /\ [Next]_vars => IInv'
<1> SUFFICES ASSUME IInv, [Next]_vars
             PROVE  IInv'
  OBVIOUS
<1>1. BoardInv'
  BY BoardRowStep, ListedStep DEF BoardInv
<1> QED
  BY <1>1, TypeStep, StoreStep, RequestInvStep, FlushInvStep DEF IInv

LEMMA Invariance == Spec => []IInv
<1> QED
  BY InitIInv, StepIInv, PTL DEF Spec

-----------------------------------------------------------------------------
(* Every state of the hot path is well typed; in particular every row of   *)
(* the table has a joined_at.                                              *)
THEOREM TypeCorrect == Spec => []TypeOK
<1>1. IInv => TypeOK
  BY DEF IInv
<1> QED
  BY <1>1, Invariance, PTL

(* The board shows only contents the table has held for that player.       *)
THEOREM ShowsCommitted == Spec => []BoardShowsCommitted
<1>1. IInv => BoardShowsCommitted
  BY DEF IInv, BoardInv, Genuine, BoardShowsCommitted
<1> QED
  BY <1>1, Invariance, PTL

(* A joined_at on the board is the one in the table.                       *)
THEOREM KeepsJoined == Spec => []BoardKeepsJoined
<1>1. IInv => BoardKeepsJoined
  <2>1. NoRow.joined = 0
    BY DEF NoRow
  <2> QED
    BY <2>1 DEF IInv, BoardInv, Genuine, BoardKeepsJoined
<1> QED
  BY <1>1, Invariance, PTL

(* With nothing in progress, the players of the table are the ones on the  *)
(* board.                                                                  *)
THEOREM StoredAreListed == Spec => []AllStoredAreListed
<1>1. IInv => AllStoredAreListed
  <2> SUFFICES ASSUME IInv, AtRest, NEW k \in Keys
               PROVE  mem[k] # NoRow <=> store[k] # NoRow
    BY DEF AllStoredAreListed
  <2>1. ~Coming(k)
    BY DEF AtRest, IInv, FlushInv, Coming
  <2> QED
    BY <2>1 DEF IInv, BoardInv, Genuine
<1> QED
  BY <1>1, Invariance, PTL

(* joined_at is written once, whoever creates the row.                     *)
THEOREM JoinedIsFixed == Spec => JoinedNeverChanges
<1>1. IInv /\ [Next]_vars => [\A k \in Keys : store[k] # NoRow => store'[k].joined = store[k].joined]_vars
  BY TableStep DEF IInv
<1> QED
  BY <1>1, Invariance, PTL DEF Spec, JoinedNeverChanges

=============================================================================
