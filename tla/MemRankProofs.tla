--------------------------- MODULE MemRankProofs ---------------------------
(***************************************************************************)
(* Proofs, for any number of writers, readers, keys, values and writes,    *)
(* of the safety properties of MemRank and of its refinement of            *)
(* AtomicBoard, from the inductive invariant IInv of MemRankInv.           *)
(***************************************************************************)
EXTENDS MemRankInv, TLAPS

-----------------------------------------------------------------------------

LEMMA OverlayType ==
    ASSUME NEW old \in Boards, NEW batch \in Boards
    PROVE  Overlay(old, batch) \in Boards
BY DEF Overlay, Boards

LEMMA EmptyBoardType == EmptyBoard \in Boards
BY DEF EmptyBoard, Boards

(* The three write calls are one action with different arguments. *)
BeginStep(w, op, a, f) ==
    /\ w \in Writers
    /\ a \in Boards
    /\ \/ op = "load" /\ f = 0
       \/ op \in {"upsert", "batch"} /\ f = OtherFace(read)
    /\ Begin(w, op, a, f)

LEMMA NextCases ==
    ASSUME Next
    PROVE  \/ \E w, op, a, f : BeginStep(w, op, a, f)
           \/ \E w \in Writers : WriterStep(w)
           \/ \E r \in Readers : LoadPtr(r) \/ ReaderStep(r)
<1>1. ASSUME NEW w \in Writers, Load(w)
      PROVE  \E op, a, f : BeginStep(w, op, a, f)
  BY <1>1 DEF Load, BeginStep
<1>2. ASSUME NEW w \in Writers, Upsert(w)
      PROVE  \E op, a, f : BeginStep(w, op, a, f)
  BY <1>2 DEF Upsert, BeginStep, Singletons, Batches
<1>3. ASSUME NEW w \in Writers, UpsertBatch(w)
      PROVE  \E op, a, f : BeginStep(w, op, a, f)
  BY <1>3 DEF UpsertBatch, BeginStep, Batches
<1> QED
  BY <1>1, <1>2, <1>3 DEF Next

LEMMA TypeStep == TypeOK /\ [Next]_vars => TypeOK'
<1> SUFFICES ASSUME TypeOK, [Next]_vars
             PROVE  TypeOK'
  OBVIOUS
<1> USE ConstantsAssumption, EmptyBoardType DEF TypeOK, Faces, Kinds
<1>1. ASSUME NEW w, NEW op, NEW a, NEW f, BeginStep(w, op, a, f)
      PROVE  TypeOK'
  <2>1. players' \in Boards
    BY <1>1, OverlayType DEF BeginStep, Begin
  <2> QED
    BY <1>1, <2>1 DEF BeginStep, Begin, OtherFace
<1>2. ASSUME NEW w \in Writers, LockFace(w)
      PROVE  TypeOK'
  BY <1>2 DEF LockFace
<1>3. ASSUME NEW w \in Writers, FillRanked(w)
      PROVE  TypeOK'
  <2>1. Overlay(ranked[tgt[w]], arg[w]) \in Boards
    BY OverlayType
  <2> QED
    BY <1>3, <2>1 DEF FillRanked
<1>4. ASSUME NEW w \in Writers, FillIndex(w)
      PROVE  TypeOK'
  <2>1. AfterFill(w) \in {"lock", "publish", "return"}
    BY DEF AfterFill
  <2>2. index' \in [Faces -> Boards]
    BY <1>4 DEF FillIndex
  <2> QED
    BY <1>4, <2>1, <2>2 DEF FillIndex
<1>5. ASSUME NEW w \in Writers, Swap(w)
      PROVE  TypeOK'
  BY <1>5 DEF Swap
<1>6. ASSUME NEW w \in Writers, StoreRead(w)
      PROVE  TypeOK'
  BY <1>6 DEF StoreRead
<1>7. ASSUME NEW w \in Writers, Return(w)
      PROVE  TypeOK'
  BY <1>7 DEF Return
<1>8. ASSUME NEW r \in Readers, LoadPtr(r)
      PROVE  TypeOK'
  BY <1>8 DEF LoadPtr, writerVars
<1>9. ASSUME NEW r \in Readers, RLock(r)
      PROVE  TypeOK'
  <2>1. UNCHANGED <<writerVars, ptr, start>>
    BY <1>9 DEF RLock
  <2>2. /\ rpc' \in [Readers -> {"idle", "loaded", "waiting", "locked"}]
        /\ got' \in [Readers -> Boards]
    <3>1. ptr[r] \in Faces /\ index[ptr[r]] \in Boards
      OBVIOUS
    <3> QED
      BY <1>9, <3>1 DEF RLock
  <2> QED
    BY <2>1, <2>2 DEF writerVars
<1>10. ASSUME NEW r \in Readers, RUnlock(r)
       PROVE  TypeOK'
  BY <1>10 DEF RUnlock, writerVars
<1>11. CASE UNCHANGED vars
  BY <1>11 DEF vars
<1> QED
  BY <1>1, <1>2, <1>3, <1>4, <1>5, <1>6, <1>7, <1>8, <1>9, <1>10, <1>11, NextCases
     DEF WriterStep, ReaderStep

LEMMA MutexStep == TypeOK /\ MutexInv /\ [Next]_vars => MutexInv'
<1> SUFFICES ASSUME TypeOK, MutexInv, [Next]_vars
             PROVE  MutexInv'
  OBVIOUS
<1> USE ConstantsAssumption DEF TypeOK, MutexInv, Faces
<1>1. ASSUME NEW w, NEW op, NEW a, NEW f, BeginStep(w, op, a, f)
      PROVE  MutexInv'
  BY <1>1 DEF BeginStep, Begin
<1>2. ASSUME NEW w \in Writers, LockFace(w)
      PROVE  MutexInv'
  BY <1>2 DEF LockFace
<1>3. ASSUME NEW w \in Writers, FillRanked(w)
      PROVE  MutexInv'
  BY <1>3 DEF FillRanked
<1>4. ASSUME NEW w \in Writers, FillIndex(w)
      PROVE  MutexInv'
  <2>1. AfterFill(w) \in {"lock", "publish", "return"}
    BY DEF AfterFill
  <2> QED
    BY <1>4, <2>1 DEF FillIndex
<1>5. ASSUME NEW w \in Writers, Swap(w)
      PROVE  MutexInv'
  <2>1. \A v \in Writers : wpc'[v] # "idle" <=> writerMu' = v
    BY <1>5 DEF Swap
  <2>2. \A v \in Writers, f \in Faces :
           wlock'[f] = v <=> wpc'[v] \in {"fill", "index"} /\ tgt'[v] = f
    <3> SUFFICES ASSUME NEW v \in Writers, NEW f \in Faces
                 PROVE  wlock'[f] = v <=> wpc'[v] \in {"fill", "index"} /\ tgt'[v] = f
      OBVIOUS
    <3>1. CASE v = w
      BY <1>5, <3>1 DEF Swap
    <3>2. CASE v # w
      BY <1>5, <3>2 DEF Swap
    <3> QED
      BY <3>1, <3>2
  <2> QED
    BY <2>1, <2>2
<1>6. ASSUME NEW w \in Writers, StoreRead(w)
      PROVE  MutexInv'
  BY <1>6 DEF StoreRead
<1>7. ASSUME NEW w \in Writers, Return(w)
      PROVE  MutexInv'
  <2>1. \A v \in Writers : wpc'[v] # "idle" <=> writerMu' = v
    BY <1>7 DEF Return
  <2>2. \A v \in Writers, f \in Faces :
           wlock'[f] = v <=> wpc'[v] \in {"fill", "index"} /\ tgt'[v] = f
    <3> SUFFICES ASSUME NEW v \in Writers, NEW f \in Faces
                 PROVE  wlock'[f] = v <=> wpc'[v] \in {"fill", "index"} /\ tgt'[v] = f
      OBVIOUS
    <3>1. CASE v = w
      BY <1>7, <3>1 DEF Return
    <3>2. CASE v # w
      BY <1>7, <3>2 DEF Return
    <3> QED
      BY <3>1, <3>2
  <2> QED
    BY <2>1, <2>2
<1>8. ASSUME NEW r \in Readers, LoadPtr(r) \/ ReaderStep(r)
      PROVE  MutexInv'
  BY <1>8 DEF LoadPtr, ReaderStep, RLock, RUnlock, writerVars
<1>9. CASE UNCHANGED vars
  BY <1>9 DEF vars
<1> QED
  BY <1>1, <1>2, <1>3, <1>4, <1>5, <1>6, <1>7, <1>8, <1>9, NextCases DEF WriterStep

LEMMA RoundStep == TypeOK /\ MutexInv /\ RoundInv /\ [Next]_vars => RoundInv'
<1> SUFFICES ASSUME TypeOK, MutexInv, RoundInv, [Next]_vars
             PROVE  RoundInv'
  OBVIOUS
<1> USE ConstantsAssumption DEF TypeOK, MutexInv, RoundInv, Faces, Kinds
<1>1. ASSUME NEW w, NEW op, NEW a, NEW f, BeginStep(w, op, a, f)
      PROVE  RoundInv'
  BY <1>1 DEF BeginStep, Begin, OtherFace
<1>2. ASSUME NEW w \in Writers, LockFace(w)
      PROVE  RoundInv'
  BY <1>2 DEF LockFace
<1>3. ASSUME NEW w \in Writers, FillRanked(w)
      PROVE  RoundInv'
  BY <1>3 DEF FillRanked
<1>4. ASSUME NEW w \in Writers, FillIndex(w)
      PROVE  RoundInv'
  BY <1>4 DEF FillIndex, AfterFill
<1>5. ASSUME NEW w \in Writers, Swap(w)
      PROVE  RoundInv'
  <2>1. \A v \in Writers : wpc[v] # "idle" => v = w
    BY <1>5 DEF Swap
  <2>2. \A v \in Writers : wpc'[v] # "idle" => v = w
    BY <1>5, <2>1 DEF Swap
  <2>3. tgt'[w] # read'
    BY <1>5 DEF Swap
  <2> QED
    BY <1>5, <2>2, <2>3 DEF Swap
<1>6. ASSUME NEW w \in Writers, StoreRead(w)
      PROVE  RoundInv'
  BY <1>6 DEF StoreRead
<1>7. ASSUME NEW w \in Writers, Return(w)
      PROVE  RoundInv'
  BY <1>7 DEF Return
<1>8. ASSUME NEW r \in Readers, LoadPtr(r) \/ ReaderStep(r)
      PROVE  RoundInv'
  BY <1>8 DEF LoadPtr, ReaderStep, RLock, RUnlock, writerVars
<1>9. CASE UNCHANGED vars
  BY <1>9 DEF vars
<1> QED
  BY <1>1, <1>2, <1>3, <1>4, <1>5, <1>6, <1>7, <1>8, <1>9, NextCases DEF WriterStep

LEMMA IndexStep == TypeOK /\ MutexInv /\ IndexInv /\ [Next]_vars => IndexInv'
<1> SUFFICES ASSUME TypeOK, MutexInv, IndexInv, [Next]_vars
             PROVE  IndexInv'
  OBVIOUS
<1> USE ConstantsAssumption DEF TypeOK, MutexInv, IndexInv, Faces
<1>1. ASSUME NEW w, NEW op, NEW a, NEW f, BeginStep(w, op, a, f)
      PROVE  IndexInv'
  BY <1>1 DEF BeginStep, Begin
<1>2. ASSUME NEW w \in Writers, LockFace(w)
      PROVE  IndexInv'
  BY <1>2 DEF LockFace
<1>3. ASSUME NEW w \in Writers, FillRanked(w)
      PROVE  IndexInv'
  BY <1>3 DEF FillRanked
<1>4. ASSUME NEW w \in Writers, FillIndex(w)
      PROVE  IndexInv'
  BY <1>4 DEF FillIndex
<1>5. ASSUME NEW w \in Writers, Swap(w)
      PROVE  IndexInv'
  BY <1>5 DEF Swap
<1>6. ASSUME NEW w \in Writers, StoreRead(w)
      PROVE  IndexInv'
  BY <1>6 DEF StoreRead
<1>7. ASSUME NEW w \in Writers, Return(w)
      PROVE  IndexInv'
  BY <1>7 DEF Return
<1>8. ASSUME NEW r \in Readers, LoadPtr(r) \/ ReaderStep(r)
      PROVE  IndexInv'
  BY <1>8 DEF LoadPtr, ReaderStep, RLock, RUnlock, writerVars
<1>9. CASE UNCHANGED vars
  BY <1>9 DEF vars
<1> QED
  BY <1>1, <1>2, <1>3, <1>4, <1>5, <1>6, <1>7, <1>8, <1>9, NextCases DEF WriterStep

LEMMA ReaderInvStep ==
    TypeOK /\ MutexInv /\ IndexInv /\ ReaderInv /\ [Next]_vars => ReaderInv'
<1> SUFFICES ASSUME TypeOK, MutexInv, IndexInv, ReaderInv, [Next]_vars
             PROVE  ReaderInv'
  OBVIOUS
<1> USE ConstantsAssumption
    DEF TypeOK, MutexInv, IndexInv, ReaderInv, CoherentReads, Faces
<1>1. ASSUME NEW w, NEW op, NEW a, NEW f, BeginStep(w, op, a, f)
      PROVE  ReaderInv'
  BY <1>1 DEF BeginStep, Begin
<1>2. ASSUME NEW w \in Writers, LockFace(w)
      PROVE  ReaderInv'
  BY <1>2 DEF LockFace
<1>3. ASSUME NEW w \in Writers, FillRanked(w)
      PROVE  ReaderInv'
  BY <1>3 DEF FillRanked, ReadersOf
<1>4. ASSUME NEW w \in Writers, FillIndex(w)
      PROVE  ReaderInv'
  BY <1>4 DEF FillIndex, AfterFill
<1>5. ASSUME NEW w \in Writers, Swap(w)
      PROVE  ReaderInv'
  BY <1>5 DEF Swap
<1>6. ASSUME NEW w \in Writers, StoreRead(w)
      PROVE  ReaderInv'
  BY <1>6 DEF StoreRead
<1>7. ASSUME NEW w \in Writers, Return(w)
      PROVE  ReaderInv'
  BY <1>7 DEF Return
<1>8. ASSUME NEW r \in Readers, LoadPtr(r)
      PROVE  ReaderInv'
  BY <1>8 DEF LoadPtr, writerVars
<1>9. ASSUME NEW r \in Readers, RLock(r)
      PROVE  ReaderInv'
  <2>1. CASE wlock[ptr[r]] = None
    <3>1. \A w \in Writers : wpc[w] = "index" => tgt[w] # ptr[r]
      BY <2>1
    <3>2. index[ptr[r]] = ranked[ptr[r]]
      BY <3>1
    <3>3. /\ rpc' = [rpc EXCEPT ![r] = "locked"]
          /\ got' = [got EXCEPT ![r] = index[ptr[r]]]
          /\ UNCHANGED <<writerVars, ptr>>
      BY <1>9, <2>1 DEF RLock
    <3> QED
      BY <3>1, <3>2, <3>3 DEF writerVars
  <2>2. CASE wlock[ptr[r]] # None
    BY <1>9, <2>2 DEF RLock, writerVars
  <2> QED
    BY <2>1, <2>2
<1>10. ASSUME NEW r \in Readers, RUnlock(r)
       PROVE  ReaderInv'
  BY <1>10 DEF RUnlock, writerVars
<1>11. CASE UNCHANGED vars
  BY <1>11 DEF vars
<1> QED
  BY <1>1, <1>2, <1>3, <1>4, <1>5, <1>6, <1>7, <1>8, <1>9, <1>10, <1>11, NextCases
     DEF WriterStep, ReaderStep

LEMMA OnlyOneWriter ==
    ASSUME MutexInv, NEW w \in Writers, wpc[w] # "idle"
    PROVE  \A v \in Writers : wpc[v] # "idle" => v = w
BY DEF MutexInv

(* What a step does to the faces a call has filled. *)
LEMMA FilledStep ==
    ASSUME TypeOK, MutexInv, RoundInv, NEW w \in Writers, NEW f \in Faces
    PROVE  /\ LockFace(w) => Filled(w, f)' = Filled(w, f)
           /\ FillRanked(w) => Filled(w, f)' = (f = tgt[w] \/ Filled(w, f))
           /\ FillIndex(w) => Filled(w, f)' = Filled(w, f)
           /\ Swap(w) => Filled(w, f)' = Filled(w, f)
           /\ StoreRead(w) => Filled(w, f)' = Filled(w, f)
<1> USE DEF TypeOK, RoundInv, Filled, Faces, Kinds
<1>1. ASSUME LockFace(w) PROVE Filled(w, f)' = Filled(w, f)
  BY <1>1 DEF LockFace
<1>2. ASSUME FillRanked(w) PROVE Filled(w, f)' = (f = tgt[w] \/ Filled(w, f))
  BY <1>2 DEF FillRanked
<1>3. ASSUME FillIndex(w) PROVE Filled(w, f)' = Filled(w, f)
  <2>1. /\ wpc[w] = "index"
        /\ wpc'[w] = AfterFill(w)
        /\ tgt'[w] = IF AfterFill(w) = "lock" THEN 1 ELSE tgt[w]
        /\ round'[w] = IF AfterFill(w) = "lock" THEN 2 ELSE round[w]
    BY <1>3 DEF FillIndex
  <2> QED
    BY <2>1 DEF AfterFill
<1>4. ASSUME Swap(w) PROVE Filled(w, f)' = Filled(w, f)
  BY <1>4 DEF Swap
<1>5. ASSUME StoreRead(w) PROVE Filled(w, f)' = Filled(w, f)
  BY <1>5 DEF StoreRead
<1> QED
  BY <1>1, <1>2, <1>3, <1>4, <1>5

(* ContentInv only speaks of the writer that holds writerMu. *)
LEMMA ContentOf ==
    ASSUME TypeOK', MutexInv', NEW w \in Writers,
           writerMu' = w,
           Len(hist') >= 2,
           players' = Last',
           \A f \in Faces : ranked'[f] = IF Filled(w, f)' THEN Last' ELSE Previous',
           Last' = IF kind'[w] = "load" THEN arg'[w] ELSE Overlay(Previous', arg'[w])
    PROVE  ContentInv'
<1>1. \A v \in Writers : wpc'[v] # "idle" => v = w
  BY DEF MutexInv
<1>2. writerMu' # None
  BY ConstantsAssumption
<1>3. Len(hist') >= 1
  BY DEF TypeOK
<1> QED
  BY <1>1, <1>2, <1>3, Zenon DEF ContentInv

LEMMA ContentStep ==
    /\ TypeOK /\ MutexInv /\ RoundInv /\ ContentInv
    /\ TypeOK' /\ MutexInv' /\ [Next]_vars
    => ContentInv'
<1> SUFFICES ASSUME TypeOK, MutexInv, RoundInv, ContentInv, TypeOK', MutexInv', [Next]_vars
             PROVE  ContentInv'
  OBVIOUS
<1>0. ASSUME NEW w \in Writers, wpc[w] # "idle"
      PROVE  /\ writerMu = w
             /\ Len(hist) >= 2
             /\ players = Last
             /\ \A f \in Faces : ranked[f] = IF Filled(w, f) THEN Last ELSE Previous
             /\ Last = IF kind[w] = "load" THEN arg[w] ELSE Overlay(Previous, arg[w])
  BY <1>0 DEF MutexInv, ContentInv
<1>1. ASSUME NEW w, NEW op, NEW a, NEW f, BeginStep(w, op, a, f)
      PROVE  ContentInv'
  <2>1. /\ w \in Writers
        /\ writerMu = None
        /\ writerMu' = w
        /\ wpc'[w] = "lock"
        /\ round'[w] = 1
        /\ kind'[w] = op
        /\ arg'[w] = a
        /\ ranked' = ranked
        /\ players' = IF op = "load" THEN a ELSE Overlay(players, a)
        /\ hist' = Append(hist, players')
    BY <1>1 DEF BeginStep, Begin, TypeOK
  <2>2. players' \in Boards /\ hist \in Seq(Boards)
    BY DEF TypeOK
  <2>3. Len(hist) >= 1 /\ players = Last /\ \A g \in Faces : ranked[g] = Last
    BY <2>1 DEF ContentInv
  <2>4. Len(hist') = Len(hist) + 1 /\ Last' = players' /\ Previous' = Last
    BY <2>1, <2>2, <2>3 DEF Last, Previous
  <2>5. \A g \in Faces : ~Filled(w, g)'
    BY <2>1 DEF Filled
  <2>6. Len(hist') >= 2
    BY <2>2, <2>3, <2>4
  <2> QED
    BY <2>1, <2>3, <2>4, <2>5, <2>6, ContentOf
<1>2. ASSUME NEW w \in Writers, LockFace(w)
      PROVE  ContentInv'
  <2>1. wpc[w] # "idle" /\ UNCHANGED <<writerMu, players, ranked, hist, kind, arg>>
    BY <1>2 DEF LockFace
  <2>2. Last' = Last /\ Previous' = Previous
    BY <2>1 DEF Last, Previous
  <2> QED
    BY <1>0, <1>2, <2>1, <2>2, FilledStep, ContentOf
<1>3. ASSUME NEW w \in Writers, FillRanked(w)
      PROVE  ContentInv'
  <2>1. wpc[w] = "fill" /\ UNCHANGED <<writerMu, players, hist, kind, arg, tgt>>
    BY <1>3 DEF FillRanked
  <2>2. Last' = Last /\ Previous' = Previous
    BY <2>1 DEF Last, Previous
  <2>3. tgt[w] \in Faces /\ ~Filled(w, tgt[w])
    BY <2>1 DEF TypeOK, Filled
  <2>4. ranked[tgt[w]] = Previous
    BY <1>0, <2>1, <2>3
  <2>5. (IF kind[w] = "batch" THEN Overlay(ranked[tgt[w]], arg[w]) ELSE players) = Last
    BY <1>0, <2>1, <2>4
  <2>6. ranked' = [ranked EXCEPT ![tgt[w]] = Last]
    BY <1>3, <2>5 DEF FillRanked
  <2>7. \A g \in Faces : ranked'[g] = IF Filled(w, g)' THEN Last' ELSE Previous'
    BY <1>0, <1>3, <2>1, <2>2, <2>3, <2>6, FilledStep DEF TypeOK
  <2> QED
    BY <1>0, <2>1, <2>2, <2>7, ContentOf
<1>4. ASSUME NEW w \in Writers, FillIndex(w)
      PROVE  ContentInv'
  <2>1. wpc[w] # "idle" /\ UNCHANGED <<writerMu, players, ranked, hist, kind, arg>>
    BY <1>4 DEF FillIndex
  <2>2. Last' = Last /\ Previous' = Previous
    BY <2>1 DEF Last, Previous
  <2> QED
    BY <1>0, <1>4, <2>1, <2>2, FilledStep, ContentOf
<1>5. ASSUME NEW w \in Writers, Swap(w)
      PROVE  ContentInv'
  <2>1. wpc[w] # "idle" /\ UNCHANGED <<writerMu, players, ranked, hist, kind, arg>>
    BY <1>5 DEF Swap, MutexInv
  <2>2. Last' = Last /\ Previous' = Previous
    BY <2>1 DEF Last, Previous
  <2> QED
    BY <1>0, <1>5, <2>1, <2>2, FilledStep, ContentOf
<1>6. ASSUME NEW w \in Writers, StoreRead(w)
      PROVE  ContentInv'
  <2>1. wpc[w] # "idle" /\ UNCHANGED <<writerMu, players, ranked, hist, kind, arg>>
    BY <1>6 DEF StoreRead, MutexInv
  <2>2. Last' = Last /\ Previous' = Previous
    BY <2>1 DEF Last, Previous
  <2> QED
    BY <1>0, <1>6, <2>1, <2>2, FilledStep, ContentOf
<1>7. ASSUME NEW w \in Writers, Return(w)
      PROVE  ContentInv'
  <2>1. /\ wpc[w] = "return"
        /\ writerMu' = None
        /\ UNCHANGED <<players, ranked, hist>>
    BY <1>7 DEF Return
  <2>2. \A f \in Faces : ranked[f] = Last
    BY <1>0, <2>1 DEF Filled
  <2>3. \A v \in Writers : wpc'[v] = "idle"
    BY <2>1, ConstantsAssumption DEF MutexInv
  <2> QED
    BY <2>1, <2>2, <2>3 DEF ContentInv, Last
<1>8. ASSUME NEW r \in Readers, LoadPtr(r) \/ ReaderStep(r)
      PROVE  ContentInv'
  BY <1>8 DEF LoadPtr, ReaderStep, RLock, RUnlock, writerVars, ContentInv, Filled, Last,
              Previous
<1>9. CASE UNCHANGED vars
  BY <1>9 DEF vars, ContentInv, Filled, Last, Previous
<1> QED
  BY <1>1, <1>2, <1>3, <1>4, <1>5, <1>6, <1>7, <1>8, <1>9, NextCases DEF WriterStep

(* PromiseInv only speaks of the writer that holds writerMu.  Part of it   *)
(* is named here: the write of w has not been switched in yet.             *)
NotSwitched(w) == IF kind[w] = "load" THEN wpc[w] # "return" ELSE round[w] = 1

LEMMA PromiseStep ==
    /\ TypeOK /\ MutexInv /\ RoundInv /\ ContentInv /\ PromiseInv
    /\ TypeOK' /\ MutexInv' /\ [Next]_vars
    => PromiseInv'
<1> SUFFICES ASSUME TypeOK, MutexInv, RoundInv, ContentInv, PromiseInv, TypeOK', MutexInv',
                    [Next]_vars
             PROVE  PromiseInv'
  OBVIOUS
<1>a. /\ Len(hist) \in Nat
      /\ visible \in 1 .. Len(hist)
      /\ \A r \in Readers : start[r] \in 1 .. visible
  BY DEF TypeOK, PromiseInv
<1>b. ASSUME NEW w \in Writers, writerMu' = w,
             Len(hist') \in Nat,
             visible' \in 1 .. Len(hist'),
             \A r \in Readers : start'[r] \in 1 .. visible',
             NotSwitched(w)' => visible' < Len(hist'),
             \A r \in Readers :
                ~Filled(w, ptr[r])' /\ rpc'[r] # "idle" => start'[r] < Len(hist')
      PROVE  PromiseInv'
  <2>1. \A v \in Writers : wpc'[v] # "idle" => v = w
    BY <1>b DEF MutexInv
  <2> QED
    BY <1>b, <2>1 DEF PromiseInv, NotSwitched, Filled
<1>c. ASSUME NEW w \in Writers, wpc[w] # "idle"
      PROVE  /\ writerMu = w
             /\ NotSwitched(w) => visible < Len(hist)
             /\ \A r \in Readers :
                   ~Filled(w, ptr[r]) /\ rpc[r] # "idle" => start[r] < Len(hist)
  BY <1>c DEF MutexInv, PromiseInv, NotSwitched
<1>1. ASSUME NEW w, NEW op, NEW a, NEW f, BeginStep(w, op, a, f)
      PROVE  PromiseInv'
  <2>1. /\ w \in Writers
        /\ writerMu' = w
        /\ UNCHANGED <<visible, start>>
        /\ hist' = Append(hist, players')
    BY <1>1 DEF BeginStep, Begin
  <2>2. Len(hist') = Len(hist) + 1
    BY <2>1 DEF TypeOK
  <2> QED
    BY <1>a, <1>b, <2>1, <2>2
<1>2. ASSUME NEW w \in Writers, LockFace(w)
      PROVE  PromiseInv'
  <2>1. /\ wpc[w] # "idle"
        /\ UNCHANGED <<writerMu, visible, start, hist, rpc, ptr>>
        /\ NotSwitched(w)' = NotSwitched(w)
    BY <1>2 DEF LockFace, NotSwitched, TypeOK
  <2>2. \A r \in Readers : Filled(w, ptr[r])' = Filled(w, ptr[r])
    BY <1>2, <2>1, FilledStep DEF TypeOK, Filled
  <2> QED
    BY <1>a, <1>b, <1>c, <2>1, <2>2
<1>3. ASSUME NEW w \in Writers, FillRanked(w)
      PROVE  PromiseInv'
  <2>1. /\ wpc[w] # "idle"
        /\ UNCHANGED <<writerMu, visible, start, hist, rpc, ptr>>
        /\ NotSwitched(w)' = NotSwitched(w)
    BY <1>3 DEF FillRanked, NotSwitched, TypeOK
  <2>2. \A r \in Readers : Filled(w, ptr[r]) => Filled(w, ptr[r])'
    BY <1>3, <2>1, FilledStep DEF TypeOK, Filled
  <2> QED
    BY <1>a, <1>b, <1>c, <2>1, <2>2
<1>4. ASSUME NEW w \in Writers, FillIndex(w)
      PROVE  PromiseInv'
  <2>1. /\ wpc[w] = "index"
        /\ UNCHANGED <<writerMu, visible, start, hist, ptr, kind>>
        /\ wpc'[w] = AfterFill(w)
        /\ round'[w] = IF AfterFill(w) = "lock" THEN 2 ELSE round[w]
    BY <1>4 DEF FillIndex, TypeOK
  <2>2. NotSwitched(w)' => NotSwitched(w)
    BY <2>1 DEF NotSwitched, AfterFill
  <2>3. \A r \in Readers : Filled(w, ptr[r])' = Filled(w, ptr[r])
    <3> SUFFICES ASSUME NEW r \in Readers
                 PROVE  Filled(w, ptr[r])' = Filled(w, ptr[r])
      OBVIOUS
    <3>1. ptr[r] \in Faces /\ ptr'[r] = ptr[r]
      BY <2>1 DEF TypeOK
    <3>2. \A f \in Faces : Filled(w, f)' = Filled(w, f)
      BY <1>4, FilledStep
    <3> QED
      BY <3>1, <3>2 DEF Filled
  <2>4. \A r \in Readers : rpc'[r] # "idle" => rpc[r] # "idle"
    BY <1>4 DEF FillIndex
  <2> QED
    BY <1>a, <1>b, <1>c, <2>1, <2>2, <2>3, <2>4
<1>5. ASSUME NEW w \in Writers, Swap(w)
      PROVE  PromiseInv'
  <2>1. /\ wpc[w] = "publish"
        /\ UNCHANGED <<writerMu, start, hist, rpc, ptr, kind>>
        /\ visible' = Len(hist)
        /\ round'[w] = 2
        /\ kind[w] # "load"
    BY <1>5 DEF Swap, TypeOK
  <2>2. ~NotSwitched(w)'
    BY <2>1 DEF NotSwitched
  <2>3. \A r \in Readers : Filled(w, ptr[r])' = Filled(w, ptr[r])
    <3> SUFFICES ASSUME NEW r \in Readers
                 PROVE  Filled(w, ptr[r])' = Filled(w, ptr[r])
      OBVIOUS
    <3>1. ptr[r] \in Faces /\ ptr'[r] = ptr[r]
      BY <2>1 DEF TypeOK
    <3>2. \A f \in Faces : Filled(w, f)' = Filled(w, f)
      BY <1>5, FilledStep
    <3> QED
      BY <3>1, <3>2 DEF Filled
  <2> QED
    BY <1>a, <1>b, <1>c, <2>1, <2>2, <2>3
<1>6. ASSUME NEW w \in Writers, StoreRead(w)
      PROVE  PromiseInv'
  <2>1. /\ wpc[w] = "publish"
        /\ UNCHANGED <<writerMu, start, hist, rpc, ptr, kind>>
        /\ visible' = Len(hist)
        /\ wpc'[w] = "return"
        /\ kind[w] = "load"
    BY <1>6 DEF StoreRead, TypeOK
  <2>2. ~NotSwitched(w)'
    BY <2>1 DEF NotSwitched
  <2>3. \A r \in Readers : Filled(w, ptr[r])'
    BY <2>1 DEF Filled
  <2> QED
    BY <1>a, <1>b, <1>c, <2>1, <2>2, <2>3
<1>7. ASSUME NEW w \in Writers, Return(w)
      PROVE  PromiseInv'
  <2>1. writerMu' = None /\ UNCHANGED <<visible, start, hist>>
    BY <1>7 DEF Return
  <2>2. \A v \in Writers : wpc'[v] = "idle"
    BY <2>1, ConstantsAssumption DEF MutexInv
  <2> QED
    BY <1>a, <2>1, <2>2 DEF PromiseInv
<1>8. ASSUME NEW r \in Readers, LoadPtr(r)
      PROVE  PromiseInv'
  <2>1. /\ UNCHANGED writerVars
        /\ rpc[r] = "idle"
        /\ start' = [start EXCEPT ![r] = visible]
        /\ ptr' = [ptr EXCEPT ![r] = read]
        /\ \A q \in Readers : q # r => rpc'[q] = rpc[q]
    BY <1>8 DEF LoadPtr
  <2>2. \A q \in Readers : start'[q] \in 1 .. visible
    BY <1>a, <2>1 DEF TypeOK
  <2>3. ASSUME NEW w \in Writers, wpc[w] # "idle"
        PROVE  ~Filled(w, read) => NotSwitched(w)
    BY <2>3 DEF Filled, NotSwitched, RoundInv
  <2>4. ASSUME NEW w \in Writers, wpc[w] # "idle", NEW q \in Readers,
               ~Filled(w, ptr[q])', rpc'[q] # "idle"
        PROVE  start'[q] < Len(hist)
    <3>1. CASE q = r
      <4>1. ptr'[q] = read /\ start'[q] = visible
        BY <2>1, <3>1 DEF TypeOK
      <4>2. ~Filled(w, read)
        BY <2>1, <2>4, <4>1 DEF Filled, writerVars
      <4> QED
        BY <1>c, <2>3, <2>4, <4>1, <4>2
    <3>2. CASE q # r
      <4>1. ptr'[q] = ptr[q] /\ start'[q] = start[q] /\ rpc'[q] = rpc[q]
        BY <2>1, <3>2 DEF TypeOK
      <4>2. ~Filled(w, ptr[q])
        BY <2>1, <2>4, <4>1 DEF Filled, writerVars
      <4> QED
        BY <1>c, <2>4, <4>1, <4>2
    <3> QED
      BY <3>1, <3>2
  <2>5. visible' = visible /\ hist' = hist /\ wpc' = wpc /\ kind' = kind /\ round' = round
    BY <2>1 DEF writerVars
  <2> QED
    BY <1>a, <1>c, <2>2, <2>4, <2>5 DEF PromiseInv, NotSwitched
<1>9. ASSUME NEW r \in Readers, RLock(r)
      PROVE  PromiseInv'
  <2>1. UNCHANGED <<writerVars, ptr, start>> /\ rpc[r] # "idle"
        /\ \A q \in Readers : q # r => rpc'[q] = rpc[q]
    BY <1>9 DEF RLock, TypeOK
  <2> QED
    BY <2>1 DEF PromiseInv, Filled, writerVars
<1>10. ASSUME NEW r \in Readers, RUnlock(r)
       PROVE  PromiseInv'
  <2>1. /\ UNCHANGED writerVars
        /\ rpc'[r] = "idle"
        /\ \A q \in Readers : q # r => /\ rpc'[q] = rpc[q]
                                       /\ ptr'[q] = ptr[q]
                                       /\ start'[q] = start[q]
        /\ start'[r] = 1
    BY <1>10 DEF RUnlock, TypeOK
  <2>2. \A q \in Readers : start'[q] \in 1 .. visible
    BY <1>a, <2>1
  <2> QED
    BY <2>1, <2>2 DEF PromiseInv, Filled, writerVars
<1>11. CASE UNCHANGED vars
  BY <1>11 DEF vars, PromiseInv, Filled
<1> QED
  BY <1>1, <1>2, <1>3, <1>4, <1>5, <1>6, <1>7, <1>8, <1>9, <1>10, <1>11, NextCases
     DEF WriterStep, ReaderStep

(* A switch brings in a version that was promised to nobody before, and a  *)
(* reader that loads the pointer afterwards gets the other face's.         *)
LEMMA StaleStep ==
    TypeOK /\ PromiseInv /\ RoundInv /\ StaleInv /\ [Next]_vars => StaleInv'
<1> SUFFICES ASSUME TypeOK, PromiseInv, RoundInv, StaleInv, [Next]_vars
             PROVE  StaleInv'
  OBVIOUS
<1>a. visible \in Nat /\ \A r \in Readers : start[r] \in Nat /\ start[r] <= visible
  BY DEF TypeOK, PromiseInv
<1>1. ASSUME NEW w, NEW op, NEW a, NEW f, BeginStep(w, op, a, f)
      PROVE  StaleInv'
  BY <1>1 DEF BeginStep, Begin, StaleInv
<1>2. ASSUME NEW w \in Writers, LockFace(w) \/ FillRanked(w) \/ Return(w)
      PROVE  StaleInv'
  BY <1>2 DEF LockFace, FillRanked, Return, StaleInv
<1>3. ASSUME NEW w \in Writers, FillIndex(w)
      PROVE  StaleInv'
  <2>1. \A r \in Readers : rpc'[r] # "idle" => rpc[r] # "idle"
    BY <1>3 DEF FillIndex
  <2>2. UNCHANGED <<read, visible, ptr, start>>
    BY <1>3 DEF FillIndex
  <2> QED
    BY <2>1, <2>2 DEF StaleInv
<1>4. ASSUME NEW w \in Writers, Swap(w) \/ StoreRead(w)
      PROVE  StaleInv'
  <2>1. visible' = Len(hist) /\ start' = start
    BY <1>4 DEF Swap, StoreRead
  <2>2. wpc[w] = "publish" /\ (kind[w] # "load" => round[w] = 1)
    BY <1>4 DEF Swap, StoreRead, RoundInv
  <2>3. visible < Len(hist) /\ Len(hist) \in Nat
    BY <2>2 DEF PromiseInv, TypeOK
  <2> QED
    BY <1>a, <2>1, <2>3 DEF StaleInv
<1>5. ASSUME NEW r \in Readers, LoadPtr(r)
      PROVE  StaleInv'
  <2>1. /\ UNCHANGED writerVars
        /\ ptr'[r] = read
        /\ \A q \in Readers : q # r => /\ rpc'[q] = rpc[q]
                                       /\ ptr'[q] = ptr[q]
                                       /\ start'[q] = start[q]
    BY <1>5 DEF LoadPtr, TypeOK
  <2> QED
    BY <2>1 DEF StaleInv, writerVars
<1>6. ASSUME NEW r \in Readers, RLock(r)
      PROVE  StaleInv'
  <2>1. /\ UNCHANGED <<writerVars, ptr, start>>
        /\ rpc[r] # "idle"
        /\ \A q \in Readers : q # r => rpc'[q] = rpc[q]
    BY <1>6 DEF RLock, TypeOK
  <2> QED
    BY <2>1 DEF StaleInv, writerVars
<1>7. ASSUME NEW r \in Readers, RUnlock(r)
      PROVE  StaleInv'
  <2>1. /\ UNCHANGED writerVars
        /\ rpc'[r] = "idle"
        /\ \A q \in Readers : q # r => /\ rpc'[q] = rpc[q]
                                       /\ ptr'[q] = ptr[q]
                                       /\ start'[q] = start[q]
    BY <1>7 DEF RUnlock, TypeOK
  <2> QED
    BY <2>1 DEF StaleInv, writerVars
<1>8. CASE UNCHANGED vars
  BY <1>8 DEF vars, StaleInv
<1> QED
  BY <1>1, <1>2, <1>3, <1>4, <1>5, <1>6, <1>7, <1>8, NextCases DEF WriterStep, ReaderStep

LEMMA InitIInv == Init => IInv
<1> SUFFICES ASSUME Init
             PROVE  IInv
  OBVIOUS
<1> USE EmptyBoardType, ConstantsAssumption DEF Init, Faces
<1>1. TypeOK
  BY DEF TypeOK, Kinds
<1>2. MutexInv /\ RoundInv
  BY DEF MutexInv, RoundInv
<1>3. IndexInv /\ ReaderInv
  BY DEF IndexInv, ReaderInv, CoherentReads
<1>4. ContentInv /\ PromiseInv /\ StaleInv
  BY DEF ContentInv, PromiseInv, StaleInv, Last
<1> QED
  BY <1>1, <1>2, <1>3, <1>4 DEF IInv

LEMMA StepIInv == IInv /\ [Next]_vars => IInv'
BY TypeStep, MutexStep, RoundStep, IndexStep, ReaderInvStep, ContentStep, PromiseStep, StaleStep
   DEF IInv

(* The invariant holds in every reachable state. *)
LEMMA Invariance == Spec => []IInv
BY InitIInv, StepIInv, PTL DEF Spec

-----------------------------------------------------------------------------

(* Every variable keeps its type. *)
THEOREM TypeCorrect == Spec => []TypeOK
<1>1. IInv => TypeOK
  BY DEF IInv
<1> QED
  BY <1>1, Invariance, PTL

(* Between write calls the two faces and the authoritative map agree,      *)
(* however many writers there are and whatever mix of calls they made.     *)
THEOREM Convergence == Spec => []FacesConverge
<1>1. IInv => FacesConverge
  <2> SUFFICES ASSUME IInv, writerMu = None
               PROVE  \A f \in Faces : ranked[f] = players /\ index[f] = players
    BY DEF FacesConverge
  <2>1. \A f \in Faces : ranked[f] = players
    BY DEF IInv, ContentInv
  <2>2. \A w \in Writers : wpc[w] = "idle"
    BY ConstantsAssumption DEF IInv, MutexInv
  <2>3. \A f \in Faces : index[f] = ranked[f]
    BY <2>2 DEF IInv, IndexInv
  <2> QED
    BY <2>1, <2>3
<1> QED
  BY <1>1, Invariance, PTL

(* No reader ever sees the index of one version with the slice of another. *)
THEOREM Coherence == Spec => []CoherentReads
<1>1. IInv => CoherentReads
  BY DEF IInv, ReaderInv
<1> QED
  BY <1>1, Invariance, PTL

(* Upsert and UpsertBatch work on a face nobody is directed to: a reader   *)
(* they hold up loaded its pointer before the last switch, in the first    *)
(* round of a call as in the second, however many readers and calls.       *)
THEOREM ReadersPassWriters == Spec => []HeldUpOnlyIfOvertaken
<1>1. IInv => HeldUpOnlyIfOvertaken
  <2> SUFFICES ASSUME IInv, NEW r \in Readers, NEW w \in Writers,
                      rpc[r] = "waiting", wlock[ptr[r]] = w, kind[w] # "load"
               PROVE  start[r] < visible
    BY DEF HeldUpOnlyIfOvertaken
  <2>1. ptr[r] \in Faces
    BY DEF IInv, TypeOK
  <2>2. wpc[w] \in {"fill", "index"} /\ tgt[w] = ptr[r]
    BY <2>1 DEF IInv, MutexInv
  <2>3. tgt[w] # read
    BY <2>2 DEF IInv, RoundInv
  <2> QED
    BY <2>2, <2>3 DEF IInv, StaleInv
<1> QED
  BY <1>1, Invariance, PTL

(* What a reader has looked up is a whole version of the board, and none   *)
(* older than what was switched in when it loaded the pointer.             *)
LEMMA InvImpliesVisible == IInv => VisibleAfterSwitch
<1> SUFFICES ASSUME IInv, NEW r \in Readers, rpc[r] = "locked"
             PROVE  \E n \in start[r] .. Len(hist) : got[r] = hist[n]
  BY DEF VisibleAfterSwitch
<1>1. /\ Len(hist) \in Nat /\ ptr[r] \in Faces
      /\ start[r] \in 1 .. Len(hist)
  BY DEF IInv, TypeOK, PromiseInv
<1>2. got[r] = ranked[ptr[r]]
  BY DEF IInv, ReaderInv, CoherentReads
<1>3. CASE writerMu = None
  <2>1. got[r] = Last
    BY <1>1, <1>2, <1>3 DEF IInv, ContentInv
  <2> QED
    BY <1>1, <2>1 DEF Last
<1>4. CASE writerMu # None
  <2> DEFINE w == writerMu
  <2>1. w \in Writers /\ wpc[w] # "idle"
    BY <1>4 DEF IInv, TypeOK, MutexInv
  <2> HIDE DEF w
  <2>2. CASE Filled(w, ptr[r])
    <3>1. got[r] = Last
      BY <1>1, <1>2, <2>1, <2>2 DEF IInv, ContentInv
    <3> QED
      BY <1>1, <3>1 DEF Last
  <2>3. CASE ~Filled(w, ptr[r])
    <3>1. got[r] = Previous
      BY <1>1, <1>2, <2>1, <2>3 DEF IInv, ContentInv
    <3>2. start[r] < Len(hist)
      BY <2>1, <2>3 DEF IInv, PromiseInv
    <3>3. Len(hist) - 1 \in start[r] .. Len(hist)
      BY <1>1, <3>2
    <3> QED
      BY <3>1, <3>3 DEF Previous
  <2> QED
    BY <2>2, <2>3
<1> QED
  BY <1>3, <1>4

(* Every read returns one whole version of the board, never one older than *)
(* the last version switched in when the read began.                       *)
THEOREM Visibility == Spec => []VisibleAfterSwitch
BY InvImpliesVisible, Invariance, PTL

-----------------------------------------------------------------------------
(* The refinement of AtomicBoard, step by step. *)

LEMMA InitRefines == Init => AB!Init
BY DEF Init, AB!Init, AB!EmptyBoard, EmptyBoard, Phase, Faces

(* A step that leaves the published slice, the phases and the arguments    *)
(* alone is a stuttering step of AtomicBoard.                              *)
LEMMA Stutters ==
    ASSUME ranked'[read'] = ranked[read],
           \A w \in Writers : Phase(w)' = Phase(w),
           UNCHANGED <<kind, arg>>
    PROVE  UNCHANGED AB!vars
BY DEF AB!vars

(* A step of writer w that publishes its write is the abstract Apply.      *)
LEMMA Applies ==
    ASSUME TypeOK, NEW w \in Writers,
           Phase(w) = "called", Phase(w)' = "applied",
           \A v \in Writers : v # w => Phase(v)' = Phase(v),
           ranked'[read'] = AB!Effect(ranked[read], kind[w], arg[w]),
           UNCHANGED <<kind, arg>>
    PROVE  AB!Next
<1>1. [v \in Writers |-> Phase(v)]' = [[v \in Writers |-> Phase(v)] EXCEPT ![w] = "applied"]
  OBVIOUS
<1>2. [v \in Writers |-> Phase(v)][w] = "called"
  OBVIOUS
<1> QED
  BY <1>1, <1>2 DEF AB!Next, AB!Apply

LEMMA StepRefines == IInv /\ IInv' /\ [Next]_vars => [AB!Next]_AB!vars
<1> SUFFICES ASSUME IInv, IInv', [Next]_vars
             PROVE  AB!Next \/ UNCHANGED AB!vars
  OBVIOUS
<1>a. TypeOK /\ MutexInv /\ RoundInv /\ ContentInv /\ TypeOK' /\ MutexInv'
  BY DEF IInv
<1>b. ASSUME NEW w \in Writers, wpc[w] # "idle"
      PROVE  /\ \A f \in Faces : ranked[f] = IF Filled(w, f) THEN Last ELSE Previous
             /\ Last = IF kind[w] = "load" THEN arg[w] ELSE Overlay(Previous, arg[w])
             /\ players = Last
             /\ \A v \in Writers : v # w => wpc[v] = "idle"
             /\ kind[w] # "load" => tgt[w] # read
             /\ kind[w] = "load" => tgt[w] = round[w] - 1
             /\ round[w] \in {1, 2}
  BY <1>a, <1>b DEF ContentInv, MutexInv, RoundInv
<1>c. read \in Faces /\ \A w \in Writers : tgt[w] \in Faces
  BY <1>a DEF TypeOK
<1>d. \A w \in Writers : wpc[w] = "idle" => Phase(w) = "idle"
  BY DEF Phase
<1>e. \A w \in Writers : wpc'[w] = "idle" => Phase(w)' = "idle"
  BY DEF Phase
<1>1. ASSUME NEW w, NEW op, NEW a, NEW f, BeginStep(w, op, a, f)
      PROVE  AB!Next
  <2>1. /\ w \in Writers /\ a \in Boards /\ op \in Kinds \ {"none"}
        /\ writerMu = None
        /\ wpc' = [wpc EXCEPT ![w] = "lock"]
        /\ kind' = [kind EXCEPT ![w] = op]
        /\ arg' = [arg EXCEPT ![w] = a]
        /\ round'[w] = 1
        /\ UNCHANGED <<ranked, read>>
    BY <1>1, <1>a DEF BeginStep, Begin, Kinds, TypeOK
  <2>2. \A v \in Writers : wpc[v] = "idle" /\ Phase(v) = "idle"
    BY <1>a, <1>d, <2>1, ConstantsAssumption DEF MutexInv
  <2>3. wpc'[w] = "lock" /\ \A v \in Writers : v # w => wpc'[v] = "idle"
    BY <1>a, <2>1, <2>2 DEF TypeOK
  <2>4. Phase(w)' = "called"
    BY <2>1, <2>3 DEF Phase, Published
  <2>5. [v \in Writers |-> Phase(v)]' = [[v \in Writers |-> Phase(v)] EXCEPT ![w] = "called"]
    BY <1>e, <2>2, <2>3, <2>4
  <2>6. AB!Call(w, op, a)
    BY <2>1, <2>2, <2>5 DEF AB!Call
  <2> QED
    BY <2>1, <2>6 DEF AB!Next, AB!Boards, AB!Kinds, Boards, Kinds
<1>2. ASSUME NEW w \in Writers, LockFace(w)
      PROVE  UNCHANGED AB!vars
  <2>1. \A v \in Writers : Phase(v)' = Phase(v)
    BY <1>2, <1>a DEF LockFace, Phase, Published, TypeOK
  <2> QED
    BY <1>2, <2>1, Stutters DEF LockFace
<1>3. ASSUME NEW w \in Writers, FillRanked(w)
      PROVE  AB!Next \/ UNCHANGED AB!vars
  <2>1. /\ wpc[w] = "fill" /\ wpc'[w] = "index"
        /\ UNCHANGED <<read, kind, arg, tgt, round>>
        /\ \A v \in Writers : v # w => wpc'[v] = wpc[v]
    BY <1>3, <1>a DEF FillRanked, TypeOK
  <2>2. \A v \in Writers : v # w => Phase(v)' = Phase(v)
    BY <2>1 DEF Phase, Published
  <2>3. CASE tgt[w] # read
    <3>1. ranked'[read] = ranked[read]
      BY <1>3, <1>a, <1>c, <2>3 DEF FillRanked, TypeOK
    <3>2. Phase(w)' = Phase(w)
      BY <1>b, <1>c, <2>1, <2>3 DEF Phase, Published, Faces
    <3> QED
      BY <2>1, <2>2, <3>1, <3>2, Stutters
  <2>4. CASE tgt[w] = read
    <3>1. kind[w] = "load" /\ tgt[w] = round[w] - 1 /\ round[w] \in {1, 2}
      BY <1>b, <2>1, <2>4
    <3>2. Phase(w) = "called" /\ Phase(w)' = "applied"
      BY <2>1, <2>4, <3>1 DEF Phase, Published
    <3>3. ranked'[read] = arg[w]
      BY <1>3, <1>a, <1>b, <1>c, <2>1, <2>4, <3>1 DEF FillRanked, TypeOK
    <3> QED
      BY <1>a, <2>1, <2>2, <3>1, <3>2, <3>3, Applies DEF AB!Effect
  <2> QED
    BY <2>3, <2>4
<1>4. ASSUME NEW w \in Writers, FillIndex(w)
      PROVE  UNCHANGED AB!vars
  <2>1. /\ wpc[w] = "index" /\ wpc'[w] = AfterFill(w)
        /\ round'[w] = IF AfterFill(w) = "lock" THEN 2 ELSE round[w]
        /\ UNCHANGED <<ranked, read, kind, arg>>
        /\ \A v \in Writers : v # w => wpc'[v] = wpc[v] /\ round'[v] = round[v]
    BY <1>4, <1>a DEF FillIndex, TypeOK
  <2>2. \A v \in Writers : v # w => Phase(v)' = Phase(v)
    BY <2>1 DEF Phase, Published
  <2>3. Phase(w)' = Phase(w)
    BY <1>b, <1>c, <2>1 DEF Phase, Published, AfterFill, Faces
  <2> QED
    BY <2>1, <2>2, <2>3, Stutters
<1>5. ASSUME NEW w \in Writers, Swap(w)
      PROVE  AB!Next
  <2>1. /\ wpc[w] = "publish" /\ wpc'[w] = "lock"
        /\ kind[w] # "load"
        /\ round'[w] = 2
        /\ read' = tgt[w]
        /\ UNCHANGED <<ranked, kind, arg>>
        /\ \A v \in Writers : v # w => wpc'[v] = wpc[v]
    BY <1>5, <1>a DEF Swap, TypeOK
  <2>2. \A v \in Writers : v # w => Phase(v)' = Phase(v)
    BY <1>b, <1>d, <1>e, <2>1
  <2>3. round[w] = 1 /\ tgt[w] # read
    BY <1>a, <2>1 DEF RoundInv
  <2>4. Phase(w) = "called" /\ Phase(w)' = "applied"
    BY <2>1, <2>3 DEF Phase, Published
  <2>5. Filled(w, tgt[w]) /\ ~Filled(w, read)
    BY <2>1, <2>3 DEF Filled
  <2>6. ranked[tgt[w]] = Overlay(ranked[read], arg[w])
    BY <1>b, <1>c, <2>1, <2>5
  <2> QED
    BY <1>a, <2>1, <2>2, <2>4, <2>6, Applies DEF AB!Effect, AB!Overlay, Overlay
<1>6. ASSUME NEW w \in Writers, StoreRead(w)
      PROVE  UNCHANGED AB!vars
  <2>1. /\ wpc[w] = "publish" /\ wpc'[w] = "return"
        /\ kind[w] = "load"
        /\ read' = 0
        /\ UNCHANGED <<ranked, kind, arg, round>>
    BY <1>6, <1>a DEF StoreRead, TypeOK
  <2>2. round[w] = 2 /\ tgt[w] = 1
    BY <1>a, <1>b, <2>1 DEF RoundInv
  <2>3. \A v \in Writers : Phase(v)' = Phase(v)
    <3>1. Phase(w)' = Phase(w)
      BY <2>1, <2>2 DEF Phase, Published
    <3>2. \A v \in Writers : v # w => wpc[v] = "idle" /\ wpc'[v] = "idle"
      BY <1>6, <1>a, <1>b, <2>1 DEF StoreRead, TypeOK
    <3> QED
      BY <1>d, <1>e, <3>1, <3>2
  <2>4. \A f \in Faces : Filled(w, f)
    BY <2>1, <2>2 DEF Filled, Faces
  <2>5. ranked[0] = ranked[read]
    BY <1>b, <1>c, <2>1, <2>4 DEF Faces
  <2> QED
    BY <2>1, <2>3, <2>5, Stutters
<1>7. ASSUME NEW w \in Writers, Return(w)
      PROVE  AB!Next
  <2>1. /\ wpc[w] = "return" /\ wpc'[w] = "idle"
        /\ kind' = [kind EXCEPT ![w] = "none"]
        /\ arg' = [arg EXCEPT ![w] = EmptyBoard]
        /\ UNCHANGED <<ranked, read>>
    BY <1>7, <1>a DEF Return, TypeOK
  <2>2. \A v \in Writers : v # w => wpc[v] = "idle" /\ wpc'[v] = "idle"
    BY <1>7, <1>a, <1>b, <2>1 DEF Return, TypeOK
  <2>3. Phase(w) = "applied" /\ Phase(w)' = "idle"
    BY <1>a, <2>1 DEF Phase, Published, RoundInv
  <2>4. [v \in Writers |-> Phase(v)]' = [[v \in Writers |-> Phase(v)] EXCEPT ![w] = "idle"]
    BY <1>d, <1>e, <2>2, <2>3
  <2>5. AB!Return(w)
    BY <2>1, <2>3, <2>4 DEF AB!Return, AB!EmptyBoard, EmptyBoard
  <2> QED
    BY <2>5 DEF AB!Next
<1>8. ASSUME NEW r \in Readers, LoadPtr(r) \/ ReaderStep(r)
      PROVE  UNCHANGED AB!vars
  <2>1. UNCHANGED writerVars
    BY <1>8 DEF LoadPtr, ReaderStep, RLock, RUnlock
  <2> QED
    BY <2>1, Stutters DEF writerVars, Phase, Published
<1>9. CASE UNCHANGED vars
  BY <1>9, Stutters DEF vars, Phase, Published
<1> QED
  BY <1>1, <1>2, <1>3, <1>4, <1>5, <1>6, <1>7, <1>8, <1>9, NextCases DEF WriterStep

(* Load, Upsert and UpsertBatch implement the one-step writes of           *)
(* AtomicBoard: the slice behind the read pointer changes once per call,   *)
(* by the whole effect of the call.                                        *)
THEOREM Refinement == Spec => AtomicWrites
<1>1. Init => AB!Init
  BY InitRefines
<1>2. IInv /\ IInv' /\ [Next]_vars => [AB!Next]_AB!vars
  BY StepRefines
<1> QED
  BY <1>1, <1>2, Invariance, PTL DEF Spec, AtomicWrites, AB!Spec

=============================================================================
