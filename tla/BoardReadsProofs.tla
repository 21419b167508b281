-------------------------- MODULE BoardReadsProofs --------------------------
(***************************************************************************)
(* Proofs, for any number of requests, workers, players and writes, that   *)
(* the queries of one answer fit together.  The memory board underneath is *)
(* the one of MemRank, whose inductive invariant is used as it stands.     *)
(***************************************************************************)
EXTENDS BoardReads, MemRankProofs, FiniteSetTheorems

-----------------------------------------------------------------------------
(* The inductive invariant *)

(* Board c shows every player that board b shows. *)
Covers(b, c) == \A k \in Keys : b[k] # None => c[k] # None

(* While the server serves nobody calls Load: players are never removed.   *)
GrowInv ==
    /\ \A w \in Writers : kind[w] # "load"
    /\ \A i, j \in 1 .. Len(hist) : i <= j => Covers(hist[i], hist[j])

(* At most the last version is not switched in, and that only during the   *)
(* first half of the write that made it.                                   *)
SwitchInv ==
    /\ visible >= Len(hist) - 1
    /\ writerMu = None => visible = Len(hist)
    /\ \A w \in Writers : wpc[w] # "idle" /\ round[w] = 2 => visible = Len(hist)

(* What a request is after, by the query it is at; a goroutine of /join    *)
(* writes only for its request, and then its player is on the last board.  *)
RequestInv ==
    \A r \in Readers :
        /\ op[r] \in {"count", "pages", "page"} => req[r].kind \in {"home", "api"}
        /\ op[r] = "get" => req[r].kind = "search"
        /\ op[r] = "index" => req[r].kind \in {"search", "join"}
        /\ op[r] = "upsert" => req[r].kind = "join" /\ r \in Joiners
        /\ r \in Joiners /\ wpc[r] # "idle" => op[r] = "upsert" /\ Last[req[r].key] # None

(* The version that the next answer to r is sure to cover. *)
Floor(r) == IF rpc[r] = "idle" THEN visible ELSE start[r]

(* A query that is served by this board fits the answers before it. *)
Fits(r, board) ==
    /\ op[r] = "index" /\ (req[r].kind = "join" \/ ~peeked[r]) => board[req[r].key] # None
    /\ op[r] = "pages" /\ req[r].kind = "home" /\ ~peeked[r] => Total(board) > 0
    /\ op[r] = "page" /\ ~peeked[r] => RowsOnPage(board, req[r].page) # {}

FitInv == \A r \in Readers : Fits(r, hist[Floor(r)])

ReadsInv == /\ IInv
            /\ ReadsTypeOK
            /\ GrowInv
            /\ SwitchInv
            /\ RequestInv
            /\ FitInv

-----------------------------------------------------------------------------
(* Lemmas: boards and pages *)

(* The number of players, and what a page shows of them, is a number. *)
LEMMA TotalType ==
    ASSUME NEW b
    PROVE  /\ IsFiniteSet({k \in Keys : b[k] # None})
           /\ Total(b) \in Nat /\ Total(b) <= Cardinality(Keys)
           /\ Cardinality(Keys) \in Nat
<1>1. {k \in Keys : b[k] # None} \subseteq Keys /\ IsFiniteSet(Keys)
  BY BoardReadsAssumption
<1> QED
  BY <1>1, FS_Subset, FS_CardinalityType DEF Total

(* Pages: none without players, and no more pages than players. *)
LEMMA PagesType ==
    ASSUME NEW b
    PROVE  TotalPages(b) \in 0 .. Cardinality(Keys) /\ (Total(b) > 0 => TotalPages(b) > 0)
<1> DEFINE t == Total(b)
           p == PageSize
           q == (t + p - 1) \div p
<1>1. t \in Nat /\ t <= Cardinality(Keys) /\ Cardinality(Keys) \in Nat /\ p \in Nat /\ p > 0
  <2>1. Total(b) \in Nat /\ Total(b) <= Cardinality(Keys) /\ Cardinality(Keys) \in Nat
    BY TotalType
  <2>2. PageSize \in Nat /\ PageSize > 0
    BY BoardReadsAssumption
  <2> QED
    BY <2>1, <2>2
<1>2. TotalPages(b) = q
  BY DEF TotalPages
<1> HIDE DEF t, p
<1>3. q \in Int /\ q >= 0 /\ p * q <= t + p - 1
  BY <1>1
<1>4. q <= t
  BY <1>1, <1>3
<1>5. t > 0 => q > 0
  BY <1>1
<1> QED
  BY <1>1, <1>2, <1>3, <1>4, <1>5 DEF t

(* A page within the number of pages has a row. *)
LEMMA PageHasRows ==
    ASSUME NEW b, NEW page \in Pages, page <= TotalPages(b)
    PROVE  RowsOnPage(b, page) # {}
<1> DEFINE t == Total(b)
           p == PageSize
           q == (t + p - 1) \div p
<1>1. t \in Nat /\ p \in Nat /\ p > 0 /\ page \in Nat /\ page <= q
  <2>1. Total(b) \in Nat
    BY TotalType
  <2>2. PageSize \in Nat /\ PageSize > 0 /\ page \in Nat
    BY BoardReadsAssumption DEF Pages
  <2> QED
    BY <2>1, <2>2 DEF TotalPages
<1> HIDE DEF t, p
<1>2. q \in Int /\ p * q <= t + p - 1
  BY <1>1
<1>3. p * page <= p * q
  BY <1>1, <1>2
<1>4. (page - 1) * p = p * page - p
  BY <1>1
<1>5. (page - 1) * p + 1 <= t
  BY <1>1, <1>2, <1>3, <1>4
<1>6. 1 \in 1 .. PageSize
  BY BoardReadsAssumption
<1> QED
  BY <1>5, <1>6 DEF RowsOnPage, t, p

(* More players, more rows on every page. *)
LEMMA CoversMore ==
    ASSUME NEW b, NEW c, Covers(b, c)
    PROVE  /\ Total(b) <= Total(c)
           /\ \A page \in Pages : RowsOnPage(b, page) \subseteq RowsOnPage(c, page)
<1>1. {k \in Keys : b[k] # None} \subseteq {k \in Keys : c[k] # None}
  BY DEF Covers
<1>2. Total(b) <= Total(c) /\ Total(b) \in Nat /\ Total(c) \in Nat
  BY <1>1, TotalType, FS_Subset DEF Total
<1>3. ASSUME NEW page \in Pages, NEW n \in RowsOnPage(b, page)
      PROVE  n \in RowsOnPage(c, page)
  <2> DEFINE o == (page - 1) * PageSize
  <2>1. o \in Int /\ n \in 1 .. PageSize /\ o + n <= Total(b)
    BY <1>3, BoardReadsAssumption DEF RowsOnPage, Pages
  <2> HIDE DEF o
  <2>2. o + n <= Total(c)
    BY <2>1, <1>2, BoardReadsAssumption
  <2> QED
    BY <2>1, <2>2 DEF RowsOnPage, o
<1> QED
  BY <1>2, <1>3

(* What fits keeps fitting on a board with more players. *)
LEMMA CoversFits ==
    ASSUME ReadsTypeOK, RequestInv, NEW r \in Readers, NEW b, NEW c, Covers(b, c), Fits(r, b)
    PROVE  Fits(r, c)
<1>1. op[r] = "index" => req[r].key \in Keys
  BY DEF ReadsTypeOK, RequestInv, Requests, NoRequest
<1>2. op[r] = "page" => req[r].page \in Pages
  BY DEF ReadsTypeOK, RequestInv, Requests, NoRequest
<1>3. Total(b) \in Nat /\ Total(c) \in Nat
  BY TotalType
<1> QED
  BY <1>1, <1>2, <1>3, CoversMore DEF Fits, Covers

-----------------------------------------------------------------------------
(* Lemmas: steps *)

(* To the memory board a request is a caller like any other. *)
LEMMA StepIsMemRank == [NextReads]_allVars => [Next]_vars
<1> SUFFICES ASSUME [NextReads]_allVars
             PROVE  [Next]_vars
  OBVIOUS
<1>1. ASSUME NEW r \in Readers, NEW q \in Requests, Arrive(r, q)
      PROVE  UNCHANGED vars
  BY <1>1 DEF Arrive
<1>2. ASSUME NEW r \in Readers, JoinUpsert(r)
      PROVE  Next
  BY <1>2 DEF JoinUpsert, Waiting, Joiners, Next, Upsert
<1>3. ASSUME NEW r \in Readers, StartQuery(r)
      PROVE  Next
  BY <1>3 DEF StartQuery, Next, ReaderStep
<1>4. ASSUME NEW r \in Readers, EndQuery(r)
      PROVE  RUnlock(r) /\ Next
  BY <1>4 DEF EndQuery, Count, CountPages, ReadPage, Get, IndexOf, Answered, Next, ReaderStep
<1>5. ASSUME NEW r \in Readers, r \in Joiners, JoinWritten(r)
      PROVE  Next
  BY <1>5 DEF JoinWritten, Joiners, Next, WriterStep
<1>6. ASSUME NEW w \in Writers, Flush(w) \/ WriteStep(w)
      PROVE  Next
  BY <1>6 DEF Flush, WriteStep, Next, WriterStep
<1>7. CASE UNCHANGED allVars
  BY <1>7 DEF allVars
<1> QED
  BY <1>1, <1>2, <1>3, <1>4, <1>5, <1>6, <1>7 DEF NextReads, RequestStep

(* The only write calls are those of /join and of the sealing worker, and  *)
(* between calls the history stays; the pointer moves on to its end.       *)
LEMMA HistoryCases ==
    ASSUME [NextReads]_allVars
    PROVE  \/ /\ hist' = hist /\ visible' \in {visible, Len(hist)}
              /\ \A w \in Writers : kind'[w] # kind[w] => Return(w)
           \/ \E w \in Writers, o \in {"upsert", "batch"}, a \in Boards :
                 Begin(w, o, a, OtherFace(read))
<1>1. ASSUME NEW r \in Readers, NEW q \in Requests, Arrive(r, q)
      PROVE  hist' = hist /\ visible' = visible /\ kind' = kind
  BY <1>1 DEF Arrive, vars
<1>2. ASSUME NEW r \in Readers, JoinUpsert(r)
      PROVE  \E w \in Writers, a \in Boards : Begin(w, "upsert", a, OtherFace(read))
  BY <1>2 DEF JoinUpsert, Waiting, Joiners, Singletons, Batches
<1>3. ASSUME NEW r \in Readers, StartQuery(r) \/ EndQuery(r)
      PROVE  hist' = hist /\ visible' = visible /\ kind' = kind
  BY <1>3 DEF StartQuery, LoadPtr, RLock, EndQuery, Count, CountPages, ReadPage, Get, IndexOf,
              Answered, RUnlock, writerVars
<1>4. ASSUME NEW r \in Readers, r \in Joiners, JoinWritten(r)
      PROVE  /\ hist' = hist /\ visible' = visible
             /\ \A w \in Writers : kind'[w] # kind[w] => Return(w)
  <2>1. Return(r) /\ hist' = hist /\ visible' = visible
    BY <1>4 DEF JoinWritten, Return
  <2>2. kind' = [kind EXCEPT ![r] = "none"]
    BY <1>4 DEF JoinWritten, Return
  <2> QED
    BY <2>1, <2>2
<1>5. ASSUME NEW w \in Writers, Flush(w)
      PROVE  \E a \in Boards : Begin(w, "batch", a, OtherFace(read))
  BY <1>5 DEF Flush, UpsertBatch, Batches
<1>6. ASSUME NEW w \in Writers, WriteStep(w)
      PROVE  /\ hist' = hist /\ visible' \in {visible, Len(hist)}
             /\ \A v \in Writers : kind'[v] # kind[v] => Return(v)
  <2>1. CASE Return(w)
    <3>1. hist' = hist /\ visible' = visible /\ kind' = [kind EXCEPT ![w] = "none"]
      BY <2>1 DEF Return
    <3> QED
      BY <2>1, <3>1
  <2>2. CASE ~Return(w)
    BY <1>6, <2>2 DEF WriteStep, LockFace, FillRanked, FillIndex, Swap
  <2> QED
    BY <2>1, <2>2
<1>7. CASE UNCHANGED allVars
  BY <1>7 DEF allVars, vars
<1> QED
  BY <1>1, <1>2, <1>3, <1>4, <1>5, <1>6, <1>7 DEF NextReads, RequestStep

(* Every version covers the ones before it, and those do not change. *)
LEMMA GrowStep ==
    ASSUME IInv, IInv', GrowInv, [NextReads]_allVars
    PROVE  /\ GrowInv'
           /\ Len(hist) \in Nat /\ Len(hist) >= 1
           /\ Len(hist') \in Nat /\ Len(hist) <= Len(hist') /\ visible <= visible'
           /\ \A i \in 1 .. Len(hist) : hist'[i] = hist[i]
<1>0. /\ hist \in Seq(Boards) /\ visible \in 1 .. Len(hist) /\ players = hist[Len(hist)]
      /\ Len(hist) \in Nat /\ Len(hist) >= 1 /\ Len(hist') \in Nat
      /\ kind \in [Writers -> Kinds]
  BY DEF IInv, TypeOK, PromiseInv, ContentInv, Last
<1>1. CASE /\ hist' = hist /\ visible' \in {visible, Len(hist)}
           /\ \A w \in Writers : kind'[w] # kind[w] => Return(w)
  <2>1. ASSUME NEW w \in Writers
        PROVE  kind'[w] # "load"
    BY <1>0, <1>1 DEF GrowInv, Return
  <2> QED
    BY <1>0, <1>1, <2>1 DEF GrowInv
<1>2. ASSUME NEW w \in Writers, NEW o \in {"upsert", "batch"}, NEW a \in Boards,
             Begin(w, o, a, OtherFace(read))
      PROVE  /\ GrowInv'
             /\ Len(hist) <= Len(hist') /\ visible <= visible'
             /\ \A i \in 1 .. Len(hist) : hist'[i] = hist[i]
  <2> DEFINE new == Overlay(players, a)
  <2>1. hist' = Append(hist, new) /\ visible' = visible /\ kind' = [kind EXCEPT ![w] = o]
    BY <1>2 DEF Begin
  <2>2. new \in Boards /\ Covers(hist[Len(hist)], new)
    BY <1>0, OverlayType DEF IInv, TypeOK, Overlay, Covers
  <2> HIDE DEF new
  <2>3. Len(hist') = Len(hist) + 1 /\ hist'[Len(hist) + 1] = new
    BY <1>0, <2>1, <2>2
  <2>4. \A i \in 1 .. Len(hist) : hist'[i] = hist[i]
    BY <1>0, <2>1, <2>2
  <2>5. ASSUME NEW i \in 1 .. Len(hist'), NEW j \in 1 .. Len(hist'), i <= j
        PROVE  Covers(hist'[i], hist'[j])
    <3>1. CASE j <= Len(hist)
      BY <1>0, <2>3, <2>4, <2>5, <3>1 DEF GrowInv
    <3>2. CASE j = Len(hist) + 1 /\ i <= Len(hist)
      <4>1. Covers(hist[i], hist[Len(hist)])
        BY <1>0, <3>2 DEF GrowInv
      <4> QED
        BY <1>0, <2>2, <2>3, <2>4, <3>2, <4>1 DEF Covers
    <3>3. CASE i = j
      BY <3>3 DEF Covers
    <3> QED
      BY <1>0, <2>3, <2>5, <3>1, <3>2, <3>3
  <2>6. ASSUME NEW v \in Writers
        PROVE  kind'[v] # "load"
    BY <1>0, <2>1 DEF GrowInv
  <2> QED
    BY <1>0, <2>1, <2>3, <2>4, <2>5, <2>6 DEF GrowInv
<1> QED
  BY <1>0, <1>1, <1>2, HistoryCases

(* The last version becomes visible with the swap, and a call that has     *)
(* swapped has nothing more to publish.                                    *)
LEMMA SwitchStep ==
    ASSUME IInv, GrowInv, SwitchInv, [NextReads]_allVars
    PROVE  SwitchInv'
<1>0. /\ hist \in Seq(Boards) /\ visible \in 1 .. Len(hist) /\ Len(hist) \in Nat
      /\ round \in [Writers -> {0, 1, 2}] /\ writerMu \in Writers \cup {None}
      /\ wpc \in [Writers -> {"idle", "lock", "fill", "index", "publish", "return"}]
      /\ \A w \in Writers : wpc[w] # "idle" <=> writerMu = w
      /\ \A w \in Writers : kind[w] # "load"
      /\ \A w \in Writers : wpc[w] = "return" => round[w] = 2
  BY DEF IInv, TypeOK, PromiseInv, MutexInv, GrowInv, RoundInv
<1>1. ASSUME NEW w \in Writers, NEW o, NEW a \in Boards, Begin(w, o, a, OtherFace(read))
      PROVE  SwitchInv'
  <2>1. Len(hist') = Len(hist) + 1 /\ visible' = visible
    <3>1. players' \in Boards
      BY <1>1, OverlayType DEF Begin, IInv, TypeOK
    <3> QED
      BY <1>0, <1>1, <3>1 DEF Begin
  <2>2. visible = Len(hist) /\ writerMu' = w /\ w # None
    BY <1>1, ConstantsAssumption DEF Begin, SwitchInv
  <2>3. \A v \in Writers : wpc'[v] # "idle" => v = w /\ round'[v] = 1
    BY <1>0, <1>1, ConstantsAssumption DEF Begin
  <2> QED
    BY <1>0, <2>1, <2>2, <2>3 DEF SwitchInv
<1>2. ASSUME NEW w \in Writers, LockFace(w) \/ FillRanked(w) \/ FillIndex(w)
      PROVE  SwitchInv'
  <2>1. UNCHANGED <<hist, visible, writerMu>> /\ wpc[w] # "idle"
    BY <1>2 DEF LockFace, FillRanked, FillIndex
  <2>2. ASSUME NEW v \in Writers, wpc'[v] # "idle", round'[v] = 2
        PROVE  wpc[v] # "idle" /\ round[v] = 2
    BY <1>0, <1>2, <2>2 DEF LockFace, FillRanked, FillIndex, AfterFill
  <2> QED
    BY <2>1, <2>2 DEF SwitchInv
<1>3. ASSUME NEW w \in Writers, Swap(w)
      PROVE  SwitchInv'
  BY <1>0, <1>3 DEF Swap, SwitchInv
<1>4. ASSUME NEW w \in Writers, Return(w)
      PROVE  SwitchInv'
  BY <1>0, <1>4 DEF Return, SwitchInv
<1>5. ASSUME UNCHANGED <<hist, visible, writerMu, wpc, round>>
      PROVE  SwitchInv'
  BY <1>5 DEF SwitchInv
<1>6. ASSUME NEW r \in Readers, StartQuery(r) \/ EndQuery(r)
      PROVE  UNCHANGED <<hist, visible, writerMu, wpc, round>>
  BY <1>6 DEF StartQuery, LoadPtr, RLock, EndQuery, Count, CountPages, ReadPage, Get, IndexOf,
              Answered, RUnlock, writerVars
<1>7. ASSUME NEW r \in Readers, NEW q \in Requests, Arrive(r, q)
      PROVE  UNCHANGED <<hist, visible, writerMu, wpc, round>>
  BY <1>7 DEF Arrive, vars
<1>8. ASSUME NEW r \in Readers, JoinUpsert(r)
      PROVE  SwitchInv'
  BY <1>1, <1>8 DEF JoinUpsert, Waiting, Joiners, Singletons, Batches
<1>9. ASSUME NEW r \in Readers, r \in Joiners, JoinWritten(r)
      PROVE  SwitchInv'
  BY <1>4, <1>9 DEF JoinWritten, Joiners
<1>10. ASSUME NEW w \in Writers, Flush(w)
       PROVE  SwitchInv'
  BY <1>1, <1>10 DEF Flush, UpsertBatch, Batches
<1>11. ASSUME NEW w \in Writers, WriteStep(w)
       PROVE  SwitchInv'
  BY <1>2, <1>3, <1>4, <1>11 DEF WriteStep
<1>12. CASE UNCHANGED allVars
  BY <1>5, <1>12 DEF allVars, vars
<1> QED
  BY <1>5, <1>6, <1>7, <1>8, <1>9, <1>10, <1>11, <1>12 DEF NextReads, RequestStep

(* Where a reader is, relative to the face's lock: only LoadPtr leaves     *)
(* "idle", only RUnlock returns there, a writer lets waiting ones in.      *)
LEMMA WriterKeepsReaders ==
    ASSUME TypeOK, NEW w \in Writers,
           (\E o, a : Begin(w, o, a, OtherFace(read))) \/ WriterStep(w)
    PROVE  /\ UNCHANGED <<ptr, start>>
           /\ \A r \in Readers : rpc'[r] = "idle" <=> rpc[r] = "idle"
           /\ rpc' \in [Readers -> {"idle", "loaded", "waiting", "locked"}]
BY DEF Begin, WriterStep, LockFace, FillRanked, FillIndex, Swap, StoreRead, Return, TypeOK

(* How the requests change in a step, one alternative per action. *)
LEMMA ReadsCases ==
    ASSUME IInv, [NextReads]_allVars
    PROVE  \/ \E r \in Readers, q \in Requests : Arrive(r, q)
           \/ \E r \in Joiners : JoinUpsert(r)
           \/ \E r \in Readers : StartQuery(r) \/ EndQuery(r)
           \/ \E r \in Joiners : JoinWritten(r)
           \/ \E w \in Workers, a \in Boards :
                 Begin(w, "batch", a, OtherFace(read)) /\ UNCHANGED requestVars
           \/ \E w \in Writers : /\ \/ LockFace(w) \/ FillRanked(w) \/ FillIndex(w) \/ Swap(w)
                                    \/ w \in Workers /\ Return(w)
                                 /\ UNCHANGED requestVars
           \/ UNCHANGED allVars
BY DEF NextReads, RequestStep, JoinUpsert, Waiting, Flush, UpsertBatch, Batches, WriteStep, Joiners

(* The handlers' locals keep their type.                                   *)
LEMMA ReadsTypeStep ==
    ASSUME IInv, IInv', ReadsTypeOK, RequestInv, [NextReads]_allVars
    PROVE  ReadsTypeOK'
<1> USE DEF ReadsTypeOK, requestVars
<1>0. /\ rpc \in [Readers -> {"idle", "loaded", "waiting", "locked"}] /\ TypeOK
      /\ NoRequest \notin Requests /\ HomePage \in Requests
      /\ {"none", "upsert"} \cap Queries = {}
  BY BoardReadsAssumption DEF IInv, TypeOK, NoRequest, HomePage, Requests, Pages, Queries
<1>1. ASSUME NEW r \in Readers, NEW q \in Requests, Arrive(r, q)
      PROVE  ReadsTypeOK'
  <2>1. FirstOp[q.kind] \in {"upsert"} \cup Queries
    BY DEF Requests, FirstOp, Queries
  <2>2. op[r] = "none" /\ rpc' = rpc /\ notes' = notes /\ peeked' = peeked
    BY <1>1 DEF Arrive, vars
  <2>3. req' = [req EXCEPT ![r] = q] /\ op' = [op EXCEPT ![r] = FirstOp[q.kind]]
    BY <1>1 DEF Arrive
  <2> QED
    BY <1>0, <2>1, <2>2, <2>3
<1>2. ASSUME NEW w \in Writers, UNCHANGED requestVars,
             (\E o, a : Begin(w, o, a, OtherFace(read))) \/ WriterStep(w)
      PROVE  ReadsTypeOK'
  BY <1>0, <1>2, WriterKeepsReaders
<1>3. ASSUME NEW r \in Readers, StartQuery(r)
      PROVE  ReadsTypeOK'
  BY <1>0, <1>3 DEF StartQuery, LoadPtr, RLock
<1>4. ASSUME NEW r \in Readers, EndQuery(r)
      PROVE  ReadsTypeOK'
  <2>1. ASSUME NEW b
        PROVE  Total(b) \in 0 .. Cardinality(Keys) /\ TotalPages(b) \in 0 .. Cardinality(Keys)
    <3>1. Total(b) \in Nat /\ Total(b) <= Cardinality(Keys) /\ Cardinality(Keys) \in Nat
      BY TotalType
    <3> QED
      BY <3>1, PagesType
  <2>2. NoNotes \in [total : 0 .. Cardinality(Keys), pages : 0 .. Cardinality(Keys)]
    <3>1. Cardinality(Keys) \in Nat
      BY BoardReadsAssumption, FS_CardinalityType
    <3> QED
      BY <3>1 DEF NoNotes
  <2>3. rpc' = [rpc EXCEPT ![r] = "idle"] /\ op[r] \in Queries
    BY <1>4 DEF EndQuery, Count, CountPages, ReadPage, Get, IndexOf, Answered, RUnlock, Queries
  <2>4. ASSUME NEW next \in {"none"} \cup Queries, Answered(r, next), next # "none",
               req' \in [Readers -> Requests \cup {NoRequest}], req'[r] \in Requests,
               \A q \in Readers \ {r} : req'[q] = req[q],
               notes' \in [Readers -> [total : 0 .. Cardinality(Keys), pages : 0 .. Cardinality(Keys)]]
        PROVE  ReadsTypeOK'
    <3>1. op' = [op EXCEPT ![r] = next]
      BY <2>4 DEF Answered
    <3>2. peeked' \in [Readers -> BOOLEAN]
      <4>1. peeked' = [peeked EXCEPT ![r] = @ \/ Unpublished(got[r])]
        BY <2>4 DEF Answered
      <4>2. (peeked[r] \/ Unpublished(got[r])) \in BOOLEAN
        BY DEF Unpublished
      <4> QED
        BY <4>1, <4>2
    <3> QED
      BY <1>0, <2>3, <2>4, <3>1, <3>2
  <2>5. ASSUME Answered(r, "none")
        PROVE  ReadsTypeOK'
    <3>1. /\ op' = [op EXCEPT ![r] = "none"] /\ req' = [req EXCEPT ![r] = NoRequest]
          /\ notes' = [notes EXCEPT ![r] = NoNotes] /\ peeked' = [peeked EXCEPT ![r] = FALSE]
      BY <2>5 DEF Answered
    <3>2. /\ op' \in [Readers -> {"none", "upsert"} \cup Queries]
          /\ req' \in [Readers -> Requests \cup {NoRequest}]
          /\ peeked' \in [Readers -> BOOLEAN]
      BY <3>1
    <3>3. notes' \in [Readers -> [total : 0 .. Cardinality(Keys), pages : 0 .. Cardinality(Keys)]]
      BY <2>2, <3>1
    <3>4. \A q \in Readers : /\ rpc'[q] # "idle" => op'[q] \in Queries
                             /\ op'[q] = "none" <=> req'[q] = NoRequest
      BY <1>0, <2>3, <3>1
    <3> QED
      BY <3>2, <3>3, <3>4
  <2>6. CASE Count(r)
    BY <1>0, <2>1, <2>3, <2>4, <2>5, <2>6 DEF Count, Queries
  <2>7. CASE CountPages(r)
    BY <1>0, <2>1, <2>3, <2>4, <2>5, <2>7 DEF CountPages, Queries
  <2>8. CASE ReadPage(r) \/ IndexOf(r)
    BY <2>5, <2>8 DEF ReadPage, IndexOf
  <2>9. CASE Get(r)
    BY <1>0, <2>3, <2>4, <2>9 DEF Get, Queries
  <2> QED
    BY <1>4, <2>6, <2>7, <2>8, <2>9 DEF EndQuery
<1>5. ASSUME NEW r \in Joiners, JoinWritten(r)
      PROVE  ReadsTypeOK'
  <2>1. /\ op[r] = "upsert" /\ op' = [op EXCEPT ![r] = "index"] /\ UNCHANGED <<req, notes, peeked>>
        /\ \A q \in Readers : rpc'[q] = "idle" <=> rpc[q] = "idle"
    BY <1>0, <1>5, WriterKeepsReaders DEF JoinWritten, WriterStep, Joiners
  <2> QED
    BY <1>0, <2>1 DEF Queries
<1>6. CASE UNCHANGED allVars
  BY <1>6 DEF allVars, vars
<1>7. ASSUME NEW r \in Joiners, JoinUpsert(r)
      PROVE  ReadsTypeOK'
  BY <1>2, <1>7 DEF JoinUpsert, Joiners
<1> QED
  BY <1>1, <1>2, <1>3, <1>4, <1>5, <1>6, <1>7, ReadsCases DEF WriterStep, Workers

(* A goroutine of /join is in a write call only for its own request; from  *)
(* the start of the call its player is on the last version of the board.   *)
LEMMA RequestInvStep ==
    ASSUME IInv, IInv', ReadsTypeOK, GrowInv, RequestInv, [NextReads]_allVars
    PROVE  RequestInv'
<1> USE DEF requestVars
<1>0. /\ wpc \in [Writers -> {"idle", "lock", "fill", "index", "publish", "return"}]
      /\ op \in [Readers -> {"none", "upsert"} \cup Queries]
      /\ req \in [Readers -> Requests \cup {NoRequest}]
      /\ Joiners \subseteq Readers /\ Joiners \subseteq Writers
      /\ \A w \in Writers : wpc[w] # "idle" <=> writerMu = w
      /\ hist \in Seq(Boards) /\ Len(hist) \in Nat /\ Len(hist) >= 1
  BY DEF IInv, TypeOK, MutexInv, ContentInv, ReadsTypeOK, Joiners
<1>1. ASSUME NEW r \in Readers, NEW q \in Requests, Arrive(r, q)
      PROVE  RequestInv'
  <2>1. /\ op[r] = "none" /\ wpc' = wpc /\ hist' = hist
        /\ req' = [req EXCEPT ![r] = q] /\ op' = [op EXCEPT ![r] = FirstOp[q.kind]]
        /\ q.kind = "join" => r \in Joiners
    BY <1>1 DEF Arrive, vars
  <2>2. q.kind \in {"home", "api", "search", "join"}
    BY DEF Requests
  <2>3. r \in Joiners => wpc[r] = "idle"
    BY <2>1 DEF RequestInv
  <2> QED
    BY <1>0, <2>1, <2>2, <2>3 DEF RequestInv, FirstOp, Last
<1>2. ASSUME NEW r \in Joiners, JoinUpsert(r)
      PROVE  RequestInv'
  <2>1. PICK a \in Boards : a[req[r].key] # None /\ Begin(r, "upsert", a, OtherFace(read))
    BY <1>2 DEF JoinUpsert, Singletons, Batches
  <2>2. /\ hist' = Append(hist, Overlay(players, a)) /\ wpc' = [wpc EXCEPT ![r] = "lock"]
        /\ writerMu = None /\ op[r] = "upsert" /\ UNCHANGED <<op, req>>
    BY <1>2, <2>1 DEF Begin, JoinUpsert, Waiting
  <2>3. Overlay(players, a) \in Boards
    BY OverlayType DEF IInv, TypeOK
  <2>4. Len(hist') = Len(hist) + 1 /\ Last' = Overlay(players, a)
    BY <1>0, <2>2, <2>3 DEF Last
  <2>5. req[r].key \in Keys
    BY <1>0, <2>2 DEF RequestInv, Requests, NoRequest
  <2>6. Last'[req[r].key] # None
    BY <2>1, <2>4, <2>5 DEF Overlay
  <2>7. \A v \in Joiners \ {r} : wpc'[v] = "idle"
    BY <1>0, <2>2, ConstantsAssumption
  <2> QED
    BY <1>0, <2>2, <2>6, <2>7 DEF RequestInv
<1>3. ASSUME NEW r \in Readers, StartQuery(r) \/ EndQuery(r)
      PROVE  RequestInv'
  <2>1. wpc' = wpc /\ hist' = hist /\ \A q \in Readers \ {r} : op'[q] = op[q] /\ req'[q] = req[q]
    <3>1. CASE StartQuery(r)
      BY <3>1 DEF StartQuery, LoadPtr, RLock, writerVars
    <3>2. CASE EndQuery(r)
      <4>1. RUnlock(r)
        BY <3>2 DEF EndQuery, Count, CountPages, ReadPage, Get, IndexOf, Answered
      <4>2. \A q \in Readers \ {r} : op'[q] = op[q] /\ req'[q] = req[q]
        BY <1>0, <3>2 DEF EndQuery, Count, CountPages, ReadPage, Get, IndexOf, Answered
      <4> QED
        BY <4>1, <4>2 DEF RUnlock, writerVars
    <3> QED
      BY <1>3, <3>1, <3>2
  <2>2. op[r] \in Queries /\ (r \in Joiners => wpc[r] = "idle")
    BY <1>3 DEF StartQuery, EndQuery, Count, CountPages, ReadPage, Get, IndexOf, Queries, RequestInv
  <2>3. /\ op'[r] \in {"count", "pages", "page"} => req'[r].kind \in {"home", "api"}
        /\ op'[r] = "get" => req'[r].kind = "search"
        /\ op'[r] = "index" => req'[r].kind \in {"search", "join"}
        /\ op'[r] # "upsert"
    <3>1. CASE StartQuery(r)
      BY <2>2, <3>1 DEF StartQuery, RequestInv, Queries
    <3>2. CASE Count(r)
      BY <1>0, <3>2 DEF Count, Answered, RequestInv
    <3>3. CASE CountPages(r)
      BY <1>0, <3>3 DEF CountPages, Answered, RequestInv
    <3>4. CASE ReadPage(r) \/ IndexOf(r)
      BY <1>0, <3>4 DEF ReadPage, IndexOf, Answered
    <3>5. CASE Get(r)
      BY <1>0, <3>5 DEF Get, Answered, HomePage, RequestInv
    <3> QED
      BY <1>3, <3>1, <3>2, <3>3, <3>4, <3>5 DEF EndQuery
  <2> QED
    BY <1>0, <2>1, <2>2, <2>3 DEF RequestInv, Last
<1>4. ASSUME NEW r \in Joiners, JoinWritten(r)
      PROVE  RequestInv'
  <2>1. /\ op[r] = "upsert" /\ op' = [op EXCEPT ![r] = "index"] /\ req' = req
        /\ wpc' = [wpc EXCEPT ![r] = "idle"] /\ hist' = hist
    BY <1>4 DEF JoinWritten, Return
  <2> QED
    BY <1>0, <2>1 DEF RequestInv, Last
<1>5. ASSUME NEW w \in Workers, NEW a \in Boards, Begin(w, "batch", a, OtherFace(read)),
             UNCHANGED requestVars
      PROVE  RequestInv'
  <2>1. \A v \in Joiners : wpc'[v] = "idle"
    BY <1>0, <1>5, ConstantsAssumption DEF Begin, Workers, Joiners
  <2> QED
    BY <1>0, <1>5, <2>1 DEF RequestInv
<1>6. ASSUME NEW w \in Writers, UNCHANGED requestVars,
             LockFace(w) \/ FillRanked(w) \/ FillIndex(w) \/ Swap(w) \/ (w \in Workers /\ Return(w))
      PROVE  RequestInv'
  <2>1. hist' = hist /\ \A v \in Joiners : wpc'[v] # "idle" => wpc[v] # "idle"
    BY <1>0, <1>6 DEF LockFace, FillRanked, FillIndex, Swap, Return
  <2> QED
    BY <1>6, <2>1 DEF RequestInv, Last
<1>7. CASE UNCHANGED allVars
  BY <1>7 DEF allVars, vars, RequestInv, Last
<1> QED
  BY <1>1, <1>2, <1>3, <1>4, <1>5, <1>6, <1>7, ReadsCases

(* An answer that is served by a published face covers no player that the  *)
(* version switched in lacks.                                              *)
LEMMA ServedIsPublished ==
    ASSUME IInv, GrowInv, SwitchInv, NEW r \in Readers, rpc[r] = "locked"
    PROVE  /\ got[r] = ranked[ptr[r]]
           /\ Covers(hist[start[r]], got[r])
           /\ ~Unpublished(got[r]) => Covers(got[r], hist[visible])
<1>1. /\ visible \in 1 .. Len(hist) /\ start[r] \in 1 .. visible /\ Len(hist) \in Nat
      /\ visible >= Len(hist) - 1
  BY DEF IInv, TypeOK, PromiseInv, SwitchInv
<1>2. got[r] = ranked[ptr[r]]
  BY DEF IInv, ReaderInv, CoherentReads
<1>3. PICK n \in start[r] .. Len(hist) : got[r] = hist[n]
  <2>1. VisibleAfterSwitch
    BY InvImpliesVisible
  <2> QED
    BY <2>1 DEF VisibleAfterSwitch
<1>4. Covers(hist[start[r]], got[r])
  BY <1>1, <1>3 DEF GrowInv
<1>5. CASE n <= visible
  BY <1>1, <1>2, <1>3, <1>4, <1>5 DEF GrowInv
<1>6. CASE n > visible
  <2>1. n = Len(hist) /\ visible < Len(hist)
    BY <1>1, <1>3, <1>6
  <2>2. ~Unpublished(got[r]) => got[r] = hist[visible]
    BY <1>3, <2>1 DEF Unpublished
  <2> QED
    BY <1>2, <1>4, <2>2 DEF Covers
<1> QED
  BY <1>1, <1>3, <1>5, <1>6

(* A reader's version only moves when it loads the pointer or answers. *)
LEMMA ReaderMoves ==
    ASSUME IInv, [NextReads]_allVars, NEW r \in Readers
    PROVE  \/ (rpc'[r] = "idle" <=> rpc[r] = "idle") /\ start'[r] = start[r]
           \/ rpc[r] = "idle" /\ rpc'[r] # "idle" /\ start'[r] = visible
           \/ RUnlock(r) /\ EndQuery(r)
<1>0. /\ rpc \in [Readers -> {"idle", "loaded", "waiting", "locked"}]
      /\ start \in [Readers -> Nat] /\ TypeOK
  BY DEF IInv, TypeOK
<1>1. ASSUME NEW q \in Readers, StartQuery(q)
      PROVE  \/ (rpc'[r] = "idle" <=> rpc[r] = "idle") /\ start'[r] = start[r]
             \/ rpc[r] = "idle" /\ rpc'[r] # "idle" /\ start'[r] = visible
  BY <1>0, <1>1 DEF StartQuery, LoadPtr, RLock
<1>2. ASSUME NEW q \in Readers, EndQuery(q)
      PROVE  \/ (rpc'[r] = "idle" <=> rpc[r] = "idle") /\ start'[r] = start[r]
             \/ RUnlock(r) /\ EndQuery(r)
  <2>1. RUnlock(q)
    BY <1>2 DEF EndQuery, Count, CountPages, ReadPage, Get, IndexOf, Answered
  <2> QED
    BY <1>0, <1>2, <2>1 DEF RUnlock
<1>3. ASSUME NEW w \in Writers, (\E o, a : Begin(w, o, a, OtherFace(read))) \/ WriterStep(w)
      PROVE  (rpc'[r] = "idle" <=> rpc[r] = "idle") /\ start'[r] = start[r]
  BY <1>0, <1>3, WriterKeepsReaders
<1>4. ASSUME NEW q \in Readers, NEW a \in Requests, Arrive(q, a)
      PROVE  rpc' = rpc /\ start' = start
  BY <1>4 DEF Arrive, vars
<1>5. ASSUME NEW q \in Joiners, JoinUpsert(q) \/ JoinWritten(q)
      PROVE  (rpc'[r] = "idle" <=> rpc[r] = "idle") /\ start'[r] = start[r]
  BY <1>3, <1>5 DEF JoinUpsert, JoinWritten, WriterStep, Joiners
<1>6. CASE UNCHANGED allVars
  BY <1>6 DEF allVars, vars
<1> QED
  BY <1>1, <1>2, <1>3, <1>4, <1>5, <1>6, ReadsCases DEF WriterStep, Workers

(* The version that is sure to be covered only grows. *)
LEMMA FloorStep ==
    ASSUME IInv, IInv', GrowInv, [NextReads]_allVars, NEW r \in Readers,
           ~(RUnlock(r) /\ EndQuery(r))
    PROVE  Covers(hist[Floor(r)], hist'[Floor(r)'])
<1>0. /\ visible \in 1 .. Len(hist) /\ start[r] \in 1 .. visible
      /\ visible' \in 1 .. Len(hist') /\ start'[r] \in 1 .. visible'
  BY DEF IInv, PromiseInv
<1>1. /\ Len(hist) \in Nat /\ Len(hist') \in Nat /\ Len(hist) <= Len(hist') /\ visible <= visible'
      /\ \A i \in 1 .. Len(hist) : hist'[i] = hist[i]
      /\ \A i, j \in 1 .. Len(hist') : i <= j => Covers(hist'[i], hist'[j])
  BY GrowStep DEF GrowInv
<1>2. Floor(r) \in 1 .. Len(hist) /\ Floor(r)' \in 1 .. Len(hist') /\ Floor(r) <= Floor(r)'
  BY <1>0, <1>1, ReaderMoves DEF Floor
<1> QED
  BY <1>1, <1>2

(* What a request has been told so far still holds of the versions its     *)
(* next query may be served.                                               *)
LEMMA FitStep ==
    ASSUME ReadsInv, IInv', ReadsTypeOK', RequestInv', [NextReads]_allVars
    PROVE  FitInv'
<1>0. /\ op \in [Readers -> {"none", "upsert"} \cup Queries]
      /\ req \in [Readers -> Requests \cup {NoRequest}]
      /\ peeked \in [Readers -> BOOLEAN] /\ notes \in [Readers -> [total : 0 .. Cardinality(Keys), pages : 0 .. Cardinality(Keys)]]
      /\ IInv /\ GrowInv /\ SwitchInv /\ RequestInv /\ FitInv /\ ReadsTypeOK
  BY DEF ReadsInv, ReadsTypeOK
<1>1. ASSUME NEW r \in Readers, ~(RUnlock(r) /\ EndQuery(r)),
             op'[r] = op[r], req'[r] = req[r], peeked'[r] = peeked[r]
      PROVE  Fits(r, hist[Floor(r)])'
  <2>1. Fits(r, hist'[Floor(r)'])
    BY <1>0, <1>1, FloorStep, CoversFits DEF FitInv
  <2> QED
    BY <1>1, <2>1 DEF Fits, Total, RowsOnPage
<1>2. ASSUME NEW r \in Readers, op'[r] \in {"none", "count", "get", "upsert"}
      PROVE  Fits(r, hist[Floor(r)])'
  BY <1>2 DEF Fits
<1>3. ASSUME NEW r \in Readers, NEW a \in Requests, Arrive(r, a)
      PROVE  FitInv'
  <2>1. op' = [op EXCEPT ![r] = FirstOp[a.kind]] /\ req' = [req EXCEPT ![r] = a] /\ peeked' = peeked
    BY <1>3 DEF Arrive
  <2>2. op'[r] \in {"none", "count", "get", "upsert"}
    BY <1>0, <2>1 DEF Requests, FirstOp
  <2>3. ASSUME NEW q \in Readers
        PROVE  ~(RUnlock(q) /\ EndQuery(q))
    BY <1>0, <1>3 DEF Arrive, RUnlock, vars, IInv, TypeOK
  <2> QED
    BY <1>0, <1>1, <1>2, <2>1, <2>2, <2>3 DEF FitInv
<1>4. ASSUME NEW r \in Joiners, JoinWritten(r)
      PROVE  Fits(r, hist[Floor(r)])'
  <2>1. /\ op[r] = "upsert" /\ op'[r] = "index" /\ req' = req /\ r \in Readers /\ r \in Writers
        /\ wpc[r] = "return" /\ hist' = hist /\ visible' = visible /\ rpc' = rpc
    BY <1>0, <1>4 DEF JoinWritten, Return, Joiners
  <2>2. rpc[r] = "idle" /\ Floor(r)' = visible
    BY <2>1 DEF Floor, ReadsInv, ReadsTypeOK, Queries
  <2>3. visible = Len(hist)
    <3>1. round[r] = 2 /\ wpc[r] # "idle"
      BY <1>0, <2>1 DEF IInv, RoundInv, GrowInv
    <3> QED
      BY <1>0, <2>1, <3>1 DEF SwitchInv
  <2>4. Last[req[r].key] # None
    BY <1>0, <1>4, <2>1 DEF RequestInv
  <2> QED
    BY <2>1, <2>2, <2>3, <2>4 DEF Fits, Last
<1>5. ASSUME NEW r \in Readers, EndQuery(r)
      PROVE  Fits(r, hist[Floor(r)])'
  <2>1. /\ rpc[r] = "locked" /\ rpc'[r] = "idle" /\ hist' = hist /\ visible' = visible
    <3>1. RUnlock(r)
      BY <1>5 DEF EndQuery, Count, CountPages, ReadPage, Get, IndexOf, Answered
    <3> QED
      BY <3>1, <1>0 DEF RUnlock, writerVars, IInv, TypeOK
  <2>2. hist'[Floor(r)'] = hist[visible]
    BY <2>1 DEF Floor
  <2>3. /\ got[r] = ranked[ptr[r]]
        /\ Covers(hist[start[r]], got[r])
        /\ ~Unpublished(got[r]) => Covers(got[r], hist[visible])
    BY <1>0, <2>1, ServedIsPublished
  <2>4. ASSUME NEW next, next # "none", Answered(r, next)
        PROVE  op'[r] = next /\ (~peeked'[r] => ~peeked[r] /\ Covers(got[r], hist[visible]))
    <3>1. op' = [op EXCEPT ![r] = next] /\ peeked' = [peeked EXCEPT ![r] = @ \/ Unpublished(got[r])]
      BY <2>4 DEF Answered
    <3>2. (peeked[r] \/ Unpublished(got[r])) = peeked'[r]
      BY <1>0, <3>1
    <3> QED
      BY <1>0, <2>3, <3>1, <3>2
  <2>5. ASSUME Answered(r, "none")
        PROVE  op'[r] = "none"
    BY <1>0, <2>5 DEF Answered
  <2>6. CASE Count(r)
    <3> DEFINE total == Total(ranked[ptr[r]])
    <3>1. CASE req[r].kind = "home" /\ total = 0
      BY <1>2, <2>5, <2>6, <3>1 DEF Count
    <3>2. CASE ~(req[r].kind = "home" /\ total = 0)
      <4>1. Answered(r, "pages") /\ req' = req
        BY <2>6, <3>2 DEF Count
      <4>2. op'[r] = "pages" /\ (~peeked'[r] => Covers(got[r], hist[visible]))
        BY <2>4, <4>1
      <4>3. total = Total(got[r]) /\ Total(got[r]) \in Nat /\ Total(hist[visible]) \in Nat
        BY <2>3, TotalType
      <4>4. req'[r].kind = "home" /\ ~peeked'[r] => Total(hist[visible]) > 0
        BY <3>2, <4>1, <4>2, <4>3, CoversMore
      <4> QED
        BY <2>2, <4>2, <4>4 DEF Fits, Total
    <3> QED
      BY <3>1, <3>2
  <2>7. CASE CountPages(r)
    <3> DEFINE pages == TotalPages(ranked[ptr[r]])
    <3>1. CASE NoSuchPage(r, pages)
      BY <1>2, <2>5, <2>7, <3>1 DEF CountPages
    <3>2. CASE ~NoSuchPage(r, pages)
      <4>1. Answered(r, "page") /\ req' = req /\ op[r] = "pages"
        BY <2>7, <3>2 DEF CountPages
      <4>2. op'[r] = "page" /\ (~peeked'[r] => ~peeked[r] /\ Covers(got[r], hist[visible]))
        BY <2>4, <4>1
      <4>3. req[r].kind \in {"home", "api"} /\ req[r].page \in Pages
        BY <1>0, <4>1 DEF RequestInv, Requests, NoRequest
      <4>4. pages = TotalPages(got[r]) /\ pages \in Nat
        <5>1. pages \in 0 .. Cardinality(Keys) /\ Cardinality(Keys) \in Nat
          BY PagesType, TotalType
        <5> QED
          BY <2>3, <5>1
      <4>5. ASSUME ~peeked'[r]
            PROVE  req[r].page <= pages
        <5>1. CASE req[r].kind = "api"
          BY <3>2, <4>3, <4>4, <5>1 DEF NoSuchPage, Pages
        <5>2. CASE req[r].kind = "home"
          <6>1. Total(hist[start[r]]) > 0
            BY <1>0, <2>1, <4>1, <4>2, <4>5, <5>2 DEF FitInv, Fits, Floor
          <6>2. Total(got[r]) > 0
            <7>1. Total(hist[start[r]]) \in Nat /\ Total(got[r]) \in Nat
              BY TotalType
            <7> QED
              BY <2>3, <6>1, <7>1, CoversMore
          <6>3. pages > 0
            BY <4>4, <6>2, PagesType
          <6> QED
            BY <3>2, <4>3, <4>4, <5>2, <6>3 DEF NoSuchPage, Pages
        <5> QED
          BY <4>3, <5>1, <5>2
      <4>6. ~peeked'[r] => RowsOnPage(hist[visible], req[r].page) # {}
        BY <4>2, <4>3, <4>4, <4>5, PageHasRows, CoversMore
      <4> QED
        BY <2>2, <4>1, <4>2, <4>6 DEF Fits, RowsOnPage, Total
    <3> QED
      BY <3>1, <3>2
  <2>8. CASE ReadPage(r) \/ IndexOf(r)
    BY <1>2, <2>5, <2>8 DEF ReadPage, IndexOf
  <2>9. CASE Get(r)
    <3>1. CASE got[r][req[r].key] # None
      <4>1. Answered(r, "index") /\ req' = req /\ op[r] = "get"
        BY <2>9, <3>1 DEF Get
      <4>2. op'[r] = "index" /\ (~peeked'[r] => Covers(got[r], hist[visible]))
        BY <2>4, <4>1
      <4>3. req[r].kind = "search" /\ req[r].key \in Keys
        BY <1>0, <4>1 DEF RequestInv, Requests, NoRequest
      <4> QED
        BY <2>2, <3>1, <4>1, <4>2, <4>3 DEF Fits, Covers
    <3>2. CASE ~(got[r][req[r].key] # None)
      <4>1. Answered(r, "count")
        BY <2>9, <3>2 DEF Get
      <4> QED
        BY <1>2, <2>4, <4>1
    <3> QED
      BY <3>1, <3>2
  <2> QED
    BY <1>5, <2>6, <2>7, <2>8, <2>9 DEF EndQuery
<1>6. ASSUME NEW r \in Readers, EndQuery(r), NEW q \in Readers, q # r
      PROVE  /\ ~(RUnlock(q) /\ EndQuery(q))
             /\ op'[q] = op[q] /\ req'[q] = req[q] /\ peeked'[q] = peeked[q]
  <2>1. RUnlock(r) /\ op'[q] = op[q] /\ req'[q] = req[q] /\ peeked'[q] = peeked[q]
    BY <1>0, <1>6 DEF EndQuery, Count, CountPages, ReadPage, Get, IndexOf, Answered
  <2>2. ~RUnlock(q)
    BY <2>1, <1>0, <1>6 DEF RUnlock, IInv, TypeOK
  <2> QED
    BY <2>1, <2>2
<1>7. ASSUME NEW r \in Readers, op'[r] = op[r], req'[r] = req[r], peeked'[r] = peeked[r],
             rpc[r] = "locked" => rpc'[r] # "idle"
      PROVE  Fits(r, hist[Floor(r)])'
  BY <1>0, <1>1, <1>7 DEF RUnlock, IInv, TypeOK
<1>8. ASSUME NEW w \in Writers, NEW r \in Readers,
             (\E o, a : Begin(w, o, a, OtherFace(read))) \/ WriterStep(w)
      PROVE  rpc[r] = "locked" => rpc'[r] # "idle"
  BY <1>0, <1>8, WriterKeepsReaders DEF IInv
<1>9. ASSUME NEW w \in Writers, UNCHANGED requestVars,
             (\E o, a : Begin(w, o, a, OtherFace(read))) \/ WriterStep(w)
      PROVE  FitInv'
  BY <1>7, <1>8, <1>9 DEF FitInv, requestVars
<1>10. ASSUME NEW r \in Readers, StartQuery(r)
       PROVE  FitInv'
  <2>1. UNCHANGED requestVars /\ \A q \in Readers : rpc[q] = "locked" => rpc'[q] # "idle"
    BY <1>0, <1>10 DEF StartQuery, LoadPtr, RLock, IInv, TypeOK
  <2> QED
    BY <1>7, <2>1 DEF FitInv, requestVars
<1>11. ASSUME NEW r \in Readers, EndQuery(r)
       PROVE  FitInv'
  BY <1>1, <1>5, <1>6, <1>11 DEF FitInv
<1>12. ASSUME NEW r \in Joiners, JoinWritten(r)
       PROVE  FitInv'
  <2>1. ASSUME NEW q \in Readers, q # r
        PROVE  op'[q] = op[q] /\ req'[q] = req[q] /\ peeked'[q] = peeked[q] /\ rpc'[q] = rpc[q]
    BY <1>0, <1>12, <2>1 DEF JoinWritten, Return
  <2> QED
    BY <1>4, <1>7, <1>12, <2>1 DEF FitInv
<1>13. ASSUME NEW r \in Joiners, JoinUpsert(r)
       PROVE  FitInv'
  BY <1>9, <1>13 DEF JoinUpsert, Joiners
<1>14. CASE UNCHANGED allVars
  BY <1>7, <1>14 DEF allVars, vars, requestVars, FitInv
<1> QED
  BY <1>0, <1>3, <1>9, <1>10, <1>11, <1>12, <1>13, <1>14, ReadsCases DEF WriterStep, Workers

-----------------------------------------------------------------------------
(* What holds of every behaviour *)

(* Before the first request.                                               *)
LEMMA InitReadsInv == InitReads => ReadsInv
<1> SUFFICES ASSUME InitReads
             PROVE  ReadsInv
  OBVIOUS
<1> USE DEF InitReads
<1>1. PICK b \in Boards : /\ players = b
                          /\ ranked = [f \in Faces |-> b] /\ index = [f \in Faces |-> b]
                          /\ hist = <<b>>
  BY DEF InitBoard
<1>2. /\ Len(hist) = 1 /\ hist[1] = b /\ hist \in Seq(Boards) /\ visible = 1 /\ writerMu = None
      /\ wpc = [w \in Writers |-> "idle"] /\ kind = [w \in Writers |-> "none"]
      /\ rpc = [r \in Readers |-> "idle"] /\ start = [r \in Readers |-> 1]
  BY <1>1 DEF InitBoard
<1>3. TypeOK
  BY <1>1, <1>2, EmptyBoardType DEF InitBoard, TypeOK, Faces, Kinds
<1>4. MutexInv /\ RoundInv /\ IndexInv /\ ReaderInv
  BY <1>1, <1>2, ConstantsAssumption
     DEF InitBoard, MutexInv, RoundInv, IndexInv, ReaderInv, CoherentReads, Faces
<1>5. ContentInv /\ PromiseInv /\ StaleInv
  BY <1>1, <1>2 DEF ContentInv, PromiseInv, StaleInv, Last
<1>6. GrowInv /\ SwitchInv
  BY <1>1, <1>2 DEF GrowInv, SwitchInv, Covers
<1>7. ReadsTypeOK
  <2>1. Cardinality(Keys) \in Nat
    BY BoardReadsAssumption, FS_CardinalityType
  <2> QED
    BY <1>2, <2>1 DEF ReadsTypeOK, NoNotes
<1>8. RequestInv /\ FitInv
  BY <1>2 DEF RequestInv, FitInv, Fits, Joiners
<1> QED
  BY <1>3, <1>4, <1>5, <1>6, <1>7, <1>8 DEF ReadsInv, IInv

(* Every step of a request and of a writer preserves the invariant.        *)
LEMMA StepReadsInv == ReadsInv /\ [NextReads]_allVars => ReadsInv'
<1> SUFFICES ASSUME ReadsInv, [NextReads]_allVars
             PROVE  ReadsInv'
  OBVIOUS
<1>1. IInv'
  BY StepIsMemRank, StepIInv DEF ReadsInv
<1>2. GrowInv' /\ SwitchInv' /\ ReadsTypeOK' /\ RequestInv'
  BY <1>1, GrowStep, SwitchStep, ReadsTypeStep, RequestInvStep DEF ReadsInv
<1>3. FitInv'
  BY <1>1, <1>2, FitStep
<1> QED
  BY <1>1, <1>2, <1>3 DEF ReadsInv

(* The invariant of the requests and of the board they read.               *)
LEMMA ReadsInvariance == SpecReads => []ReadsInv
BY InitReadsInv, StepReadsInv, PTL DEF SpecReads

(* The handlers' locals keep their type, and a handler that holds or       *)
(* awaits a read lock has one of its queries to answer.                    *)
THEOREM ReadsTypeCorrect == SpecReads => []ReadsTypeOK
<1>1. ReadsInv => ReadsTypeOK
  BY DEF ReadsInv
<1> QED
  BY <1>1, ReadsInvariance, PTL

(* The redirect of /join leads to the page of the player that has joined,  *)
(* whoever else writes between its write and its look-up.                  *)
THEOREM JoinSeesItself == SpecReads => []JoinFindsItself
<1>1. ReadsInv => JoinFindsItself
  <2> SUFFICES ASSUME ReadsInv, NEW r \in Readers,
                      op[r] = "index", rpc[r] = "locked", req[r].kind = "join"
               PROVE  got[r][req[r].key] # None
    BY DEF JoinFindsItself
  <2>1. Fits(r, hist[start[r]]) /\ Covers(hist[start[r]], got[r])
    BY ServedIsPublished DEF ReadsInv, FitInv, Floor
  <2>2. Fits(r, got[r])
    BY <2>1, CoversFits DEF ReadsInv
  <2> QED
    BY <2>2 DEF Fits
<1> QED
  BY <1>1, ReadsInvariance, PTL

(* The queries of one answer fit together: a page that was announced has   *)
(* rows and a player that was found is found again, for any page size,     *)
(* unless a query was served by a face that was not published yet.         *)
THEOREM AnswersFit == SpecReads => []AnswerFits
<1>1. ReadsInv => AnswerFits
  <2> SUFFICES ASSUME ReadsInv, NEW r \in Readers, rpc[r] = "locked", ~peeked[r]
               PROVE  /\ op[r] = "page" => RowsOnPage(ranked[ptr[r]], req[r].page) # {}
                      /\ op[r] = "index" => got[r][req[r].key] # None
    BY DEF AnswerFits
  <2>1. /\ Fits(r, hist[start[r]]) /\ Covers(hist[start[r]], got[r])
        /\ got[r] = ranked[ptr[r]]
    BY ServedIsPublished DEF ReadsInv, FitInv, Floor
  <2>2. Fits(r, got[r])
    BY <2>1, CoversFits DEF ReadsInv
  <2> QED
    BY <2>1, <2>2 DEF Fits
<1> QED
  BY <1>1, ReadsInvariance, PTL

(* Requests go through the board's own operations: what is proved of the   *)
(* memory board holds while they run.                                      *)
THEOREM BoardStaysCorrect == SpecReads => [](FacesConverge /\ CoherentReads /\ VisibleAfterSwitch)
<1>1. ReadsInv => FacesConverge /\ CoherentReads /\ VisibleAfterSwitch
  BY InvImpliesVisible, ConstantsAssumption
     DEF ReadsInv, IInv, FacesConverge, IndexInv, ContentInv, ReaderInv, MutexInv
<1> QED
  BY <1>1, ReadsInvariance, PTL

=============================================================================
