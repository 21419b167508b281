----------------------------- MODULE FaceUpdate -----------------------------
(***************************************************************************)
(* What happens to one face of the leaderboard under its lock: the merge   *)
(* of a batch into the sorted slice (applyBatchToFaceLocked), the rebuild  *)
(* from the authoritative map, and the refresh of the top-1000 prefix, the *)
(* threshold and the index.  One step per iteration of the Go loops.       *)
(***************************************************************************)
EXTENDS RankOrder

CONSTANTS Ids,        \* online ids
          Counts,     \* trophy counts: [bronze, silver, gold, platinum]
          TopSize,    \* 1000 in the code
          MaxBatch    \* bound on the size of a batch

ASSUME FaceAssumption == /\ Ids \subseteq Int
                         /\ Counts \subseteq [bronze : Nat, silver : Nat, gold : Nat, platinum : Nat]
                         /\ TopSize \in Nat \ {0}
                         /\ MaxBatch \in Nat

VARIABLES players,    \* the authoritative map, as the set of its players
          ranked,     \* the sorted slice with its ranks
          top,        \* top1000
          threshold,  \* thresholdScore
          index,      \* indexByID
          pc,         \* "ready", "filter", "merge", "number" or "index"
          old,        \* filtered: the slice without the players of the batch
          new,        \* batchRanked: the batch, sorted
          i, j,       \* the cursors of the filter and of mergeSorted
          n           \* the cursor of assignCompetitionRanks

vars == <<players, ranked, top, threshold, index, pc, old, new, i, j, n>>

(* The rows memrank is given.  It copies Score as it finds it; whoever     *)
(* builds a row has set it to rank.Score of the counts (server.go:341, 451,*)
(* 739), and SQLite and the log return what they were given.               *)
RowOf(id, c) == [id |-> id,
                 score |-> Score(c.bronze, c.silver, c.gold, c.platinum),
                 platinum |-> c.platinum, gold |-> c.gold,
                 silver |-> c.silver, bronze |-> c.bronze]

Rows == {RowOf(id, c) : id \in Ids, c \in Counts}

IdsOf(rows) == {p.id : p \in rows}

(* No caller passes the same player twice in one batch. *)
DistinctIds(rows) == \A p, q \in rows : p.id = q.id => p = q

Batches == {b \in SUBSET Rows : /\ b # {}
                                /\ IsFiniteSet(b)
                                /\ Cardinality(b) <= MaxBatch
                                /\ DistinctIds(b)}

Upserted(rows, batch) == {p \in rows : p.id \notin IdsOf(batch)} \cup batch

Init == /\ players = {}
        /\ ranked = << >>
        /\ top = << >>
        /\ threshold = -1
        /\ index = << >>
        /\ pc = "ready"
        /\ old = << >>
        /\ new = << >>
        /\ i = 1
        /\ j = 1
        /\ n = 1

(* The batch can be sorted here, before the loop that filters the slice:   *)
(* that loop only looks up its ids.                                        *)
ApplyBatch(batch) ==
    /\ pc = "ready"
    /\ players' = Upserted(players, batch)
    /\ new' = SortAndNumber(batch)
    /\ old' = << >>
    /\ i' = 1
    /\ j' = 1
    /\ pc' = "filter"
    /\ UNCHANGED <<ranked, top, threshold, index, n>>

toRemove == {new[k].player.id : k \in DOMAIN new}

(* The entries of the players in the batch are left out. *)
FilterKeep ==
    /\ pc = "filter"
    /\ i <= Len(ranked)
    /\ ranked[i].player.id \notin toRemove
    /\ old' = Append(old, ranked[i])
    /\ i' = i + 1
    /\ UNCHANGED <<players, ranked, top, threshold, index, pc, new, j, n>>

FilterDrop ==
    /\ pc = "filter"
    /\ i <= Len(ranked)
    /\ ranked[i].player.id \in toRemove
    /\ i' = i + 1
    /\ UNCHANGED <<players, ranked, top, threshold, index, pc, old, new, j, n>>

(* The merged slice is built up in ranked. *)
Filtered ==
    /\ pc = "filter"
    /\ i > Len(ranked)
    /\ ranked' = << >>
    /\ i' = 1
    /\ pc' = "merge"
    /\ UNCHANGED <<players, top, threshold, index, old, new, j, n>>

(* The other way to fill a face: sort the whole map again. *)
Rebuild(batch) ==
    /\ pc = "ready"
    /\ players' = Upserted(players, batch)
    /\ ranked' = SortAndNumber(players')
    /\ pc' = "index"
    /\ UNCHANGED <<top, threshold, index, old, new, i, j, n>>

(* Mistaken variants of a definition stand just before it: they are what   *)
(* the properties are tried against.                                       *)
ByScoreAndId(a, b) == a.score > b.score \/ (a.score = b.score /\ a.id < b.id)

(* memrank's own comparison, written apart from rank.comparePlayers. *)
shouldComeBefore(a, b) ==
    \/ a.score > b.score
    \/ /\ a.score = b.score
       /\ \/ a.platinum > b.platinum
          \/ /\ a.platinum = b.platinum
             /\ \/ a.gold > b.gold
                \/ /\ a.gold = b.gold
                   /\ \/ a.silver > b.silver
                      \/ /\ a.silver = b.silver
                         /\ \/ a.bronze > b.bronze
                            \/ a.bronze = b.bronze /\ a.id < b.id

TakeOld ==
    /\ pc = "merge"
    /\ i <= Len(old)
    /\ j <= Len(new) => shouldComeBefore(old[i].player, new[j].player)
    /\ ranked' = Append(ranked, old[i])
    /\ i' = i + 1
    /\ UNCHANGED <<players, top, threshold, index, pc, old, new, j, n>>

TakeNew ==
    /\ pc = "merge"
    /\ j <= Len(new)
    /\ i <= Len(old) => ~shouldComeBefore(old[i].player, new[j].player)
    /\ ranked' = Append(ranked, new[j])
    /\ j' = j + 1
    /\ UNCHANGED <<players, top, threshold, index, pc, old, new, i, n>>

Merged ==
    /\ pc = "merge"
    /\ i > Len(old)
    /\ j > Len(new)
    /\ pc' = "number"
    /\ n' = 1
    /\ UNCHANGED <<players, ranked, top, threshold, index, old, new, i, j>>

sameScore(a, b) == a.player.score = b.player.score
sameRankCounts(a, b) == sameRank(a.player, b.player)

(* assignCompetitionRanks: merged entries still carry their former ranks. *)
AssignRank ==
    /\ pc = "number"
    /\ n <= Len(ranked)
    /\ ranked' = [ranked EXCEPT ![n].rank =
                    IF n > 1 /\ sameRankCounts(ranked[n - 1], ranked[n])
                    THEN ranked[n - 1].rank ELSE n]
    /\ n' = n + 1
    /\ UNCHANGED <<players, top, threshold, index, pc, old, new, i, j>>

Numbered ==
    /\ pc = "number"
    /\ n > Len(ranked)
    /\ pc' = "index"
    /\ UNCHANGED <<players, ranked, top, threshold, index, old, new, i, j, n>>

TopRows(rows) == IF Len(rows) >= TopSize THEN SubSeq(rows, 1, TopSize) ELSE rows

ThresholdPastTop(rows) == IF Len(rows) > TopSize THEN rows[TopSize].player.score ELSE -1
ThresholdScore(rows) == IF Len(rows) >= TopSize THEN rows[TopSize].player.score ELSE -1

IndexOfTop(rows) ==
    [id \in {rows[k].player.id : k \in DOMAIN TopRows(rows)} |->
        CHOOSE k \in DOMAIN rows : rows[k].player.id = id]
IndexByID(rows) ==
    [id \in {rows[k].player.id : k \in DOMAIN rows} |->
        CHOOSE k \in DOMAIN rows : rows[k].player.id = id]

(* The cursors and the two inputs are locals of the merge: they are gone. *)
UpdateTop1000AndIndex ==
    /\ pc = "index"
    /\ top' = TopRows(ranked)
    /\ threshold' = ThresholdScore(ranked)
    /\ index' = IndexByID(ranked)
    /\ pc' = "ready"
    /\ old' = << >>
    /\ new' = << >>
    /\ i' = 1
    /\ j' = 1
    /\ n' = 1
    /\ UNCHANGED <<players, ranked>>

LoopStep == \/ FilterKeep \/ FilterDrop \/ Filtered
            \/ TakeOld \/ TakeNew \/ Merged
            \/ AssignRank \/ Numbered \/ UpdateTop1000AndIndex

Next == \/ \E batch \in Batches : ApplyBatch(batch)
        \/ \E batch \in Batches : Rebuild(batch)
        \/ LoopStep

Spec == Init /\ [][Next]_vars

-----------------------------------------------------------------------------
(* Queries on a face whose lock the reader holds *)

(* Variant: one row too many is expected of the copy. *)
OneRowShort(end) == Len(top) > 0 /\ end <= Len(top) + 1

servedFromTop(end) == Len(top) > 0 /\ end <= Len(top)

(* Leaderboard.Page serves small pages from the top-1000 copy. *)
FacePage(page, pageSize) ==
    LET offset == ((IF page < 1 THEN 1 ELSE page) - 1) * pageSize
        end == offset + pageSize
        from == IF servedFromTop(end) THEN top ELSE ranked
        last == IF end > Len(from) THEN Len(from) ELSE end
    IN  IF offset >= Len(from) THEN << >> ELSE SubSeq(from, offset + 1, last)

FaceTotalPages(pageSize) ==
    IF pageSize <= 0 \/ Len(ranked) = 0 THEN 0 ELSE (Len(ranked) + pageSize - 1) \div pageSize

-----------------------------------------------------------------------------
Entries == [player : Rows, rank : Nat \ {0}]

(* Type invariant of the whole state. *)
TypeOK ==
    /\ players \subseteq Rows
    /\ ranked \in Seq(Entries) /\ top \in Seq(Entries)
    /\ old \in Seq(Entries) /\ new \in Seq(Entries)
    /\ threshold \in Int
    /\ DOMAIN index \subseteq Ids
    /\ \A id \in DOMAIN index : index[id] \in Nat
    /\ pc \in {"ready", "filter", "merge", "number", "index"}
    /\ i \in Nat /\ j \in Nat /\ n \in Nat

(* Merging batches into the slice gives, entry by entry and rank by rank,  *)
(* what sorting the whole authoritative map again would give, so the two   *)
(* faces agree whichever way each of them was filled.                      *)
MergeEqualsRebuild == pc \in {"ready", "index"} => ranked = SortAndNumber(players)

(* Competition ranking, from its definition (1, 1, 3): a player's rank is  *)
(* one more than the number of players whose counts are strictly better.   *)
Better(p, q) == less(p, q) /\ ~sameRank(p, q)

RanksAreCompetition ==
    pc = "ready" =>
        \A k \in DOMAIN ranked :
            ranked[k].rank = 1 + Cardinality({p \in players : Better(p, ranked[k].player)})

(* The index finds every player of the map, at its place, and no other.    *)
IndexFindsAll ==
    pc = "ready" =>
        /\ DOMAIN index = IdsOf(players)
        /\ \A p \in players : ranked[index[p.id]].player = p

(* The top-1000 copy is what the slice begins with, and the threshold is   *)
(* the least score in a full copy.                                         *)
TopFollowsRanked ==
    pc = "ready" =>
        /\ Len(top) <= TopSize
        /\ top = SubSeq(ranked, 1, Len(top))
        /\ Len(top) < TopSize => Len(top) = Len(ranked)
        /\ IF Len(top) = TopSize
           THEN \E k \in DOMAIN top : /\ top[k].player.score = threshold
                                      /\ \A l \in DOMAIN top : top[l].player.score >= threshold
           ELSE threshold = -1

(* A page served from the top-1000 copy, from the slice, or across the end *)
(* of the copy is the page of package rank, and the pages that TotalPages  *)
(* announces are the ones that are not empty.                              *)
PagesAgree ==
    pc = "ready" =>
        \A size \in 1 .. Len(ranked) + 1, page \in 0 .. Len(ranked) + 2 :
            /\ FacePage(page, size) = Page(ranked, page, size)
            /\ FaceTotalPages(size) = TotalPages(Len(ranked), size)
            /\ page >= 1 => (FacePage(page, size) # << >> <=> page <= FaceTotalPages(size))

=============================================================================
