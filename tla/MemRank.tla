------------------------------ MODULE MemRank ------------------------------
(***************************************************************************)
(* The Left-Right concurrency of memrank.Leaderboard: two faces, an atomic *)
(* read pointer, one RWMutex per face and a writer mutex.  A writer fills  *)
(* the dark face, swaps the pointer, then fills the old one; a reader      *)
(* loads the pointer and only then takes that face's read lock.            *)
(*                                                                         *)
(* A face's content is abstracted to the board it shows (which player has  *)
(* which row); order, ranks and the top-1000 prefix are the subject of     *)
(* FaceUpdate.  The two things a face keeps apart, the ranked slice and    *)
(* the index built from it, are kept apart here as well.                   *)
(***************************************************************************)
EXTENDS Integers, Sequences

CONSTANTS Keys,        \* online ids, up to strings.ToLower
          Vals,        \* what a player's row can hold
          None,        \* "no such player", "not in the batch", "nobody"
          Writers,     \* goroutines that call Load, Upsert or UpsertBatch
          Readers,     \* goroutines that call Get, IndexOf, Page, Count, ...
          MaxWrites    \* bound on the number of write calls

ASSUME ConstantsAssumption == /\ None \notin Vals
                              /\ None \notin Writers
                              /\ MaxWrites \in Nat

VARIABLES
    players,   \* the authoritative map
    ranked,    \* ranked[f]: the board in the ranked slice of face f
    index,     \* index[f]: the board indexByID of face f was built from
    read,      \* the face the atomic pointer designates
    writerMu,  \* holder of writerMu, or None
    wlock,     \* wlock[f]: the writer that called Lock on face f, or None
    wpc, kind, arg, tgt, round,   \* locals of each writer
    rpc, ptr, got,                \* locals of each reader
    hist,      \* history: every value players has had
    visible,   \* history: the last entry of hist that was switched in
    start      \* history: visible when the reader loaded the pointer

vars == <<players, ranked, index, read, writerMu, wlock, wpc, kind, arg, tgt,
          round, rpc, ptr, got, hist, visible, start>>

writerVars == <<players, ranked, index, read, writerMu, wlock, wpc, kind, arg,
                tgt, round, hist, visible>>

Faces == {0, 1}
Boards == [Keys -> Vals \cup {None}]
EmptyBoard == [k \in Keys |-> None]
Kinds == {"none", "load", "upsert", "batch"}

(* Mistaken variants of a definition stand just before it: they are what   *)
(* the properties are tried against.                                       *)
NextFace(f) == f + 1
SameFace(f) == f
OtherFace(f) == 1 - f

(* A batch is a board: None marks the players it does not carry. *)
Overlay(old, batch) == [k \in Keys |-> IF batch[k] = None THEN old[k] ELSE batch[k]]

Batches == Boards \ {EmptyBoard}    \* UpsertBatch returns at once on an empty batch

Singletons == {b \in Batches : \A j, k \in Keys : b[j] # None /\ b[k] # None => j = k}

NobodyToWaitFor(f) == {}
ReadersOf(f) == {r \in Readers : rpc[r] = "locked" /\ ptr[r] = f}

Init ==
    /\ players = EmptyBoard
    /\ ranked = [f \in Faces |-> EmptyBoard]
    /\ index = [f \in Faces |-> EmptyBoard]
    /\ read = 0
    /\ writerMu = None
    /\ wlock = [f \in Faces |-> None]
    /\ wpc = [w \in Writers |-> "idle"]
    /\ kind = [w \in Writers |-> "none"]
    /\ arg = [w \in Writers |-> EmptyBoard]
    /\ tgt = [w \in Writers |-> 0]
    /\ round = [w \in Writers |-> 0]
    /\ rpc = [r \in Readers |-> "idle"]
    /\ ptr = [r \in Readers |-> 0]
    /\ got = [r \in Readers |-> EmptyBoard]
    /\ hist = <<EmptyBoard>>
    /\ visible = 1
    /\ start = [r \in Readers |-> 1]

-----------------------------------------------------------------------------
(* Writers *)

(* A write call takes writerMu, updates the authoritative map and picks    *)
(* its first face: faces[0] for Load, the dark face for the other two.     *)
Begin(w, op, a, f) ==
    /\ Len(hist) <= MaxWrites
    /\ writerMu = None
    /\ wpc[w] = "idle"
    /\ writerMu' = w
    /\ players' = IF op = "load" THEN a ELSE Overlay(players, a)
    /\ hist' = Append(hist, players')
    /\ kind' = [kind EXCEPT ![w] = op]
    /\ arg' = [arg EXCEPT ![w] = a]
    /\ tgt' = [tgt EXCEPT ![w] = f]
    /\ round' = [round EXCEPT ![w] = 1]
    /\ wpc' = [wpc EXCEPT ![w] = "lock"]
    /\ UNCHANGED <<ranked, index, read, wlock, visible, rpc, ptr, got, start>>

Load(w) == \E a \in Boards : Begin(w, "load", a, 0)

Upsert(w) == \E a \in Singletons : Begin(w, "upsert", a, OtherFace(read))

UpsertBatch(w) == \E a \in Batches : Begin(w, "batch", a, OtherFace(read))

(* face.mu.Lock, first half: from here on new readers of the face wait. *)
LockFace(w) ==
    /\ wpc[w] = "lock"
    /\ wlock[tgt[w]] = None
    /\ wlock' = [wlock EXCEPT ![tgt[w]] = w]
    /\ wpc' = [wpc EXCEPT ![w] = "fill"]
    /\ UNCHANGED <<players, ranked, index, read, writerMu, kind, arg, tgt, round,
                   hist, visible, rpc, ptr, got, start>>

(* Lock returns once the face's readers have left; the ranked slice is     *)
(* replaced: merged with the batch, or rebuilt from the authoritative map. *)
FillRanked(w) ==
    /\ wpc[w] = "fill"
    /\ ReadersOf(tgt[w]) = {}
    /\ ranked' = [ranked EXCEPT ![tgt[w]] =
                    IF kind[w] = "batch" THEN Overlay(@, arg[w]) ELSE players]
    /\ wpc' = [wpc EXCEPT ![w] = "index"]
    /\ UNCHANGED <<players, index, read, writerMu, wlock, kind, arg, tgt, round,
                   hist, visible, rpc, ptr, got, start>>

(* Variant: Load fills only the face it publishes. *)
AfterFirstFace(w) == IF round[w] = 1 THEN "publish" ELSE "return"

AfterFill(w) == CASE round[w] = 1 /\ kind[w] = "load" -> "lock"
                  [] round[w] = 1 /\ kind[w] # "load" -> "publish"
                  [] round[w] # 1 /\ kind[w] = "load" -> "publish"
                  [] OTHER -> "return"

(* Variant: nobody is woken. *)
FillIndexWakesNobody(w) ==
    /\ wpc[w] = "index"
    /\ index' = [index EXCEPT ![tgt[w]] = ranked[tgt[w]]]
    /\ wlock' = [wlock EXCEPT ![tgt[w]] = None]
    /\ wpc' = [wpc EXCEPT ![w] = AfterFill(w)]
    /\ tgt' = [tgt EXCEPT ![w] = IF AfterFill(w) = "lock" THEN 1 ELSE @]
    /\ round' = [round EXCEPT ![w] = IF AfterFill(w) = "lock" THEN 2 ELSE @]
    /\ UNCHANGED <<players, ranked, read, writerMu, kind, arg, hist, visible, rpc,
                   ptr, got, start>>

(* Index and top-1000 are rebuilt from the slice, then the face is         *)
(* unlocked: sync.RWMutex.Unlock lets in every reader that was waiting.    *)
FillIndex(w) ==
    LET f == tgt[w]
        wakes(r) == rpc[r] = "waiting" /\ ptr[r] = f
    IN  /\ wpc[w] = "index"
        /\ index' = [index EXCEPT ![f] = ranked[f]]
        /\ wlock' = [wlock EXCEPT ![f] = None]
        /\ wpc' = [wpc EXCEPT ![w] = AfterFill(w)]
        /\ tgt' = [tgt EXCEPT ![w] = IF AfterFill(w) = "lock" THEN 1 ELSE @]
        /\ round' = [round EXCEPT ![w] = IF AfterFill(w) = "lock" THEN 2 ELSE @]
        /\ rpc' = [r \in Readers |-> IF wakes(r) THEN "locked" ELSE rpc[r]]
        /\ got' = [r \in Readers |-> IF wakes(r) THEN index'[f] ELSE got[r]]
        /\ UNCHANGED <<players, ranked, read, writerMu, kind, arg, hist, visible,
                       ptr, start>>

(* Variant: the old face is not caught up. *)
SwapAndReturn(w) ==
    /\ wpc[w] = "publish"
    /\ kind[w] # "load"
    /\ read' = tgt[w]
    /\ visible' = Len(hist)
    /\ wpc' = [wpc EXCEPT ![w] = "return"]
    /\ UNCHANGED <<players, ranked, index, writerMu, wlock, kind, arg, tgt, round,
                   hist, rpc, ptr, got, start>>

(* read.Swap(dark): the filled face is published, the old one is next. *)
Swap(w) ==
    /\ wpc[w] = "publish"
    /\ kind[w] # "load"
    /\ read' = tgt[w]
    /\ tgt' = [tgt EXCEPT ![w] = read]
    /\ round' = [round EXCEPT ![w] = 2]
    /\ visible' = Len(hist)
    /\ wpc' = [wpc EXCEPT ![w] = "lock"]
    /\ UNCHANGED <<players, ranked, index, writerMu, wlock, kind, arg, hist, rpc,
                   ptr, got, start>>

(* The end of Load: read.Store(faces[0]), whatever it designated before. *)
StoreRead(w) ==
    /\ wpc[w] = "publish"
    /\ kind[w] = "load"
    /\ read' = 0
    /\ visible' = Len(hist)
    /\ wpc' = [wpc EXCEPT ![w] = "return"]
    /\ UNCHANGED <<players, ranked, index, writerMu, wlock, kind, arg, tgt, round,
                   hist, rpc, ptr, got, start>>

(* The deferred writerMu.Unlock; the call's locals are gone. *)
Return(w) ==
    /\ wpc[w] = "return"
    /\ writerMu' = None
    /\ wpc' = [wpc EXCEPT ![w] = "idle"]
    /\ kind' = [kind EXCEPT ![w] = "none"]
    /\ arg' = [arg EXCEPT ![w] = EmptyBoard]
    /\ tgt' = [tgt EXCEPT ![w] = 0]
    /\ round' = [round EXCEPT ![w] = 0]
    /\ UNCHANGED <<players, ranked, index, read, wlock, hist, visible, rpc, ptr, got,
                   start>>

-----------------------------------------------------------------------------
(* Readers: withReadFace around any of the query methods *)

LoadPtr(r) ==
    /\ rpc[r] = "idle"
    /\ ptr' = [ptr EXCEPT ![r] = read]
    /\ start' = [start EXCEPT ![r] = visible]
    /\ rpc' = [rpc EXCEPT ![r] = "loaded"]
    /\ UNCHANGED <<writerVars, got>>

(* RLock succeeds unless a writer has announced itself on the face; the    *)
(* index is looked up as soon as the lock is held.                         *)
RLock(r) ==
    /\ rpc[r] = "loaded"
    /\ IF wlock[ptr[r]] = None
       THEN /\ rpc' = [rpc EXCEPT ![r] = "locked"]
            /\ got' = [got EXCEPT ![r] = index[ptr[r]]]
       ELSE /\ rpc' = [rpc EXCEPT ![r] = "waiting"]
            /\ UNCHANGED got
    /\ UNCHANGED <<writerVars, ptr, start>>

(* The ranked slice is read last, then the read lock is given back. *)
RUnlock(r) ==
    /\ rpc[r] = "locked"
    /\ rpc' = [rpc EXCEPT ![r] = "idle"]
    /\ ptr' = [ptr EXCEPT ![r] = 0]
    /\ got' = [got EXCEPT ![r] = EmptyBoard]
    /\ start' = [start EXCEPT ![r] = 1]
    /\ UNCHANGED writerVars

WriterStep(w) == \/ LockFace(w) \/ FillRanked(w) \/ FillIndex(w)
                 \/ Swap(w) \/ StoreRead(w) \/ Return(w)

ReaderStep(r) == RLock(r) \/ RUnlock(r)

Next == \/ \E w \in Writers : \/ Load(w) \/ Upsert(w) \/ UpsertBatch(w)
                              \/ WriterStep(w)
        \/ \E r \in Readers : LoadPtr(r) \/ ReaderStep(r)

Spec == Init /\ [][Next]_vars

-----------------------------------------------------------------------------
(* Type invariant of the whole state. *)
TypeOK ==
    /\ players \in Boards
    /\ ranked \in [Faces -> Boards]
    /\ index \in [Faces -> Boards]
    /\ read \in Faces
    /\ writerMu \in Writers \cup {None}
    /\ wlock \in [Faces -> Writers \cup {None}]
    /\ wpc \in [Writers -> {"idle", "lock", "fill", "index", "publish", "return"}]
    /\ kind \in [Writers -> Kinds]
    /\ arg \in [Writers -> Boards]
    /\ tgt \in [Writers -> Faces]
    /\ round \in [Writers -> {0, 1, 2}]
    /\ rpc \in [Readers -> {"idle", "loaded", "waiting", "locked"}]
    /\ ptr \in [Readers -> Faces]
    /\ got \in [Readers -> Boards]
    /\ hist \in Seq(Boards)
    /\ visible \in Nat
    /\ start \in [Readers -> Nat]

(* Whenever no write is in progress both faces show exactly the            *)
(* authoritative map, whichever mix of Load, Upsert (full rebuild) and     *)
(* UpsertBatch (merge into each face's own slice) came before.             *)
FacesConverge == writerMu = None => \A f \in Faces : /\ ranked[f] = players
                                                     /\ index[f] = players

(* A reader never combines the index of one version with the slice of      *)
(* another: what it looked up is still what the slice holds when it copies *)
(* the row out, although writers run between its two accesses.             *)
CoherentReads == \A r \in Readers : rpc[r] = "locked" => got[r] = ranked[ptr[r]]

(* SPEC 13.10: once the pointer is switched, readers see the new snapshot. *)
(* A reader that loads the pointer after the switch of a write is served   *)
(* that write or a later one, however stale its face became meanwhile, and *)
(* always a value the authoritative map had as a whole.                    *)
VisibleAfterSwitch ==
    \A r \in Readers : rpc[r] = "locked" =>
        \E n \in start[r] .. Len(hist) : got[r] = hist[n]

(* memrank.go:37: readers are not held up while Upsert or UpsertBatch      *)
(* merges.  One that waits for such a call had its pointer before the last *)
(* switch, and a retry would not wait; whoever loads the pointer now is    *)
(* served at once.  (Load rebuilds the published face under its lock.)     *)
HeldUpOnlyIfOvertaken ==
    \A r \in Readers, w \in Writers :
        rpc[r] = "waiting" /\ wlock[ptr[r]] = w /\ kind[w] # "load" => start[r] < visible

-----------------------------------------------------------------------------
(* The refinement: the board is the published face's slice.  A write is    *)
(* applied when the pointer is swapped, or, for Load, when the face that   *)
(* is published already gets its new content.                              *)
Published(w) ==
    IF kind[w] = "load"
    THEN \/ round[w] = 1 /\ wpc[w] = "index" /\ read = 0
         \/ round[w] = 2 /\ (read = 0 \/ wpc[w] \in {"index", "publish", "return"})
    ELSE round[w] = 2

Phase(w) == CASE wpc[w] = "idle" -> "idle"
              [] wpc[w] # "idle" /\ ~Published(w) -> "called"
              [] OTHER -> "applied"

AB == INSTANCE AtomicBoard WITH board <- ranked[read],
                                phase <- [w \in Writers |-> Phase(w)]

(* Load, Upsert and UpsertBatch take effect atomically, one after another. *)
AtomicWrites == AB!Spec

=============================================================================
