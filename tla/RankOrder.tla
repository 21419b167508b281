----------------------------- MODULE RankOrder -----------------------------
(***************************************************************************)
(* Package rank as operators: the score formula, the sort order, the       *)
(* competition ranks and the page arithmetic.  Lower-cased online ids are  *)
(* abstracted to integers with the order strings.Compare gives them.       *)
(***************************************************************************)
EXTENDS Integers, Sequences, FiniteSets

Score(bronze, silver, gold, platinum) == bronze * 15 + silver * 30 + gold * 90 + platinum * 300

(* rank.Player; display id and avatar take part in no decision. *)
PlayerRecords == [id : Int, score : Int, platinum : Int, gold : Int, silver : Int, bronze : Int]

(* comparePlayers looks at these fields in turn, the smaller value first:  *)
(* the counts are negated because they sort in descending order.           *)
SortKey(p) == << -p.score, -p.platinum, -p.gold, -p.silver, -p.bronze, p.id >>

comparePlayers(a, b) ==
    LET differs == {i \in 1 .. 6 : SortKey(a)[i] # SortKey(b)[i]}
        first == CHOOSE i \in differs : \A j \in differs : i <= j
    IN  IF differs = {} THEN 0
        ELSE IF SortKey(a)[first] < SortKey(b)[first] THEN -1 ELSE 1

less(a, b) == comparePlayers(a, b) < 0

sameRank(a, b) == /\ a.score = b.score
                  /\ a.platinum = b.platinum
                  /\ a.gold = b.gold
                  /\ a.silver = b.silver
                  /\ a.bronze = b.bronze

(* slices.SortFunc on players with distinct ids, a strict total order.     *)
Sorted(S) == [i \in 1 .. Cardinality(S) |->
                 CHOOSE p \in S : Cardinality({q \in S : less(q, p)}) = i - 1]

(* Variant: zero-based ranks.  Mistaken variants stand just before the     *)
(* definition they distort: they are what the properties are tried against.*)
SortAndNumberFromZero(S) ==
    LET sorted == Sorted(S)
        rank[i \in DOMAIN sorted] == IF i > 1 /\ sameRank(sorted[i - 1], sorted[i])
                                     THEN rank[i - 1] ELSE i - 1
    IN  [i \in DOMAIN sorted |-> [player |-> sorted[i], rank |-> rank[i]]]

(* Ranks are given from the first entry on, each looking at the one before.*)
SortAndNumber(S) ==
    LET sorted == Sorted(S)
        rank[i \in DOMAIN sorted] == IF i > 1 /\ sameRank(sorted[i - 1], sorted[i])
                                     THEN rank[i - 1] ELSE i
    IN  [i \in DOMAIN sorted |-> [player |-> sorted[i], rank |-> rank[i]]]

(* rank.Page: pages are numbered from 1, the last one may be short. *)
Page(ranked, page, pageSize) ==
    LET offset == ((IF page < 1 THEN 1 ELSE page) - 1) * pageSize
        end == IF offset + pageSize > Len(ranked) THEN Len(ranked) ELSE offset + pageSize
    IN  IF offset >= Len(ranked) THEN << >> ELSE SubSeq(ranked, offset + 1, end)

TotalPages(total, pageSize) ==
    IF total = 0 \/ pageSize <= 0 THEN 0 ELSE (total + pageSize - 1) \div pageSize

=============================================================================
