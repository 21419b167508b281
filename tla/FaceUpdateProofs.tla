-------------------------- MODULE FaceUpdateProofs --------------------------
(***************************************************************************)
(* The order of the leaderboard, for all players: package rank and package *)
(* memrank each have a comparison function of their own, and the merge is  *)
(* only right if the two are the same strict total order.  From it: what   *)
(* SortAndNumber returns, and that the loops of memrank, which filter, merge *)
(* and number the slice, arrive at the same for every batch.               *)
(***************************************************************************)
EXTENDS FaceUpdate, FiniteSetTheorems, SequenceTheorems, WellFoundedInduction, TLAPS

(* The first field in which two sort keys differ. *)
Differs(a, b, f) == /\ SortKey(a)[f] # SortKey(b)[f]
                    /\ \A g \in 1 .. 6 : g < f => SortKey(a)[g] = SortKey(b)[g]

(* Two players have the same sort key, or there is a first difference.     *)
LEMMA FirstDifference ==
    ASSUME NEW a, NEW b
    PROVE  \/ \A f \in 1 .. 6 : SortKey(a)[f] = SortKey(b)[f]
           \/ \E f \in 1 .. 6 : Differs(a, b, f)
<1> DEFINE eq(f) == SortKey(a)[f] = SortKey(b)[f]
<1>1. \A f \in 1 .. 6 : f = 1 \/ f = 2 \/ f = 3 \/ f = 4 \/ f = 5 \/ f = 6
  OBVIOUS
<1>2. CASE ~eq(1)
  BY <1>2 DEF Differs
<1>3. CASE eq(1) /\ ~eq(2)
  BY <1>1, <1>3 DEF Differs
<1>4. CASE eq(1) /\ eq(2) /\ ~eq(3)
  BY <1>1, <1>4 DEF Differs
<1>5. CASE eq(1) /\ eq(2) /\ eq(3) /\ ~eq(4)
  BY <1>1, <1>5 DEF Differs
<1>6. CASE eq(1) /\ eq(2) /\ eq(3) /\ eq(4) /\ ~eq(5)
  BY <1>1, <1>6 DEF Differs
<1>7. CASE eq(1) /\ eq(2) /\ eq(3) /\ eq(4) /\ eq(5) /\ ~eq(6)
  BY <1>1, <1>7 DEF Differs
<1>8. CASE eq(1) /\ eq(2) /\ eq(3) /\ eq(4) /\ eq(5) /\ eq(6)
  BY <1>1, <1>8
<1> QED
  BY <1>2, <1>3, <1>4, <1>5, <1>6, <1>7, <1>8

(* comparePlayers decides at the first difference. *)
LEMMA LessAtFirstDifference ==
    ASSUME NEW a, NEW b, NEW f \in 1 .. 6, Differs(a, b, f)
    PROVE  less(a, b) <=> SortKey(a)[f] < SortKey(b)[f]
<1> DEFINE differs == {g \in 1 .. 6 : SortKey(a)[g] # SortKey(b)[g]}
           first == CHOOSE g \in differs : \A h \in differs : g <= h
<1>1. f \in differs /\ \A h \in differs : f <= h
  BY DEF Differs
<1>2. first \in differs /\ \A h \in differs : first <= h
  BY <1>1
<1>3. first = f
  BY <1>1, <1>2
<1>4. comparePlayers(a, b) = IF SortKey(a)[f] < SortKey(b)[f] THEN -1 ELSE 1
  BY <1>1, <1>3 DEF comparePlayers
<1> QED
  BY <1>4 DEF less

(* Without a difference neither comes before the other.                    *)
LEMMA NotLessWhenEqual ==
    ASSUME NEW a, NEW b, \A f \in 1 .. 6 : SortKey(a)[f] = SortKey(b)[f]
    PROVE  ~less(a, b)
<1>1. {f \in 1 .. 6 : SortKey(a)[f] # SortKey(b)[f]} = {}
  OBVIOUS
<1>2. comparePlayers(a, b) = 0
  BY <1>1 DEF comparePlayers
<1> QED
  BY <1>2 DEF less

(* The sort key by fields, all of them integers.                           *)
LEMMA SortKeyFields ==
    ASSUME NEW p \in PlayerRecords
    PROVE  /\ SortKey(p)[1] = -p.score /\ SortKey(p)[2] = -p.platinum
           /\ SortKey(p)[3] = -p.gold /\ SortKey(p)[4] = -p.silver
           /\ SortKey(p)[5] = -p.bronze /\ SortKey(p)[6] = p.id
           /\ \A f \in 1 .. 6 : SortKey(p)[f] \in Int
<1>1. /\ SortKey(p)[1] = -p.score /\ SortKey(p)[2] = -p.platinum
      /\ SortKey(p)[3] = -p.gold /\ SortKey(p)[4] = -p.silver
      /\ SortKey(p)[5] = -p.bronze /\ SortKey(p)[6] = p.id
  BY DEF SortKey
<1>2. \A f \in 1 .. 6 : f = 1 \/ f = 2 \/ f = 3 \/ f = 4 \/ f = 5 \/ f = 6
  OBVIOUS
<1>3. /\ p.score \in Int /\ p.platinum \in Int /\ p.gold \in Int
      /\ p.silver \in Int /\ p.bronze \in Int /\ p.id \in Int
  BY DEF PlayerRecords
<1> QED
  BY <1>1, <1>2, <1>3

(* mergeSorted's comparison is the comparison the two slices were sorted   *)
(* with: memrank.shouldComeBefore and rank.comparePlayers agree on all     *)
(* players, ties on any number of fields included.                         *)
THEOREM ComparisonsAgree ==
    \A a, b \in PlayerRecords : shouldComeBefore(a, b) <=> less(a, b)
<1> SUFFICES ASSUME NEW a \in PlayerRecords, NEW b \in PlayerRecords
             PROVE  shouldComeBefore(a, b) <=> less(a, b)
  OBVIOUS
<1>1. /\ a.score \in Int /\ a.platinum \in Int /\ a.gold \in Int
      /\ a.silver \in Int /\ a.bronze \in Int /\ a.id \in Int
      /\ b.score \in Int /\ b.platinum \in Int /\ b.gold \in Int
      /\ b.silver \in Int /\ b.bronze \in Int /\ b.id \in Int
  BY DEF PlayerRecords
<1>2. CASE \A f \in 1 .. 6 : SortKey(a)[f] = SortKey(b)[f]
  <2>1. ~less(a, b)
    BY <1>2, NotLessWhenEqual
  <2>2. /\ a.score = b.score /\ a.platinum = b.platinum /\ a.gold = b.gold
        /\ a.silver = b.silver /\ a.bronze = b.bronze /\ a.id = b.id
    BY <1>1, <1>2, SortKeyFields
  <2> QED
    BY <1>1, <2>1, <2>2 DEF shouldComeBefore
<1>3. ASSUME NEW f \in 1 .. 6, Differs(a, b, f)
      PROVE  shouldComeBefore(a, b) <=> less(a, b)
  <2>1. less(a, b) <=> SortKey(a)[f] < SortKey(b)[f]
    BY <1>3, LessAtFirstDifference
  <2>2. /\ f > 1 => a.score = b.score
        /\ f > 2 => a.platinum = b.platinum
        /\ f > 3 => a.gold = b.gold
        /\ f > 4 => a.silver = b.silver
        /\ f > 5 => a.bronze = b.bronze
    BY <1>1, <1>3, SortKeyFields DEF Differs
  <2>3. CASE f = 1
    BY <1>1, <1>3, <2>1, <2>3, SortKeyFields DEF Differs, shouldComeBefore
  <2>4. CASE f = 2
    BY <1>1, <1>3, <2>1, <2>2, <2>4, SortKeyFields DEF Differs, shouldComeBefore
  <2>5. CASE f = 3
    BY <1>1, <1>3, <2>1, <2>2, <2>5, SortKeyFields DEF Differs, shouldComeBefore
  <2>6. CASE f = 4
    BY <1>1, <1>3, <2>1, <2>2, <2>6, SortKeyFields DEF Differs, shouldComeBefore
  <2>7. CASE f = 5
    BY <1>1, <1>3, <2>1, <2>2, <2>7, SortKeyFields DEF Differs, shouldComeBefore
  <2>8. CASE f = 6
    BY <1>1, <1>3, <2>1, <2>2, <2>8, SortKeyFields DEF Differs, shouldComeBefore
  <2> QED
    BY <2>3, <2>4, <2>5, <2>6, <2>7, <2>8
<1> QED
  BY <1>2, <1>3, FirstDifference

(* The order is strict and total on players with different ids, so sorting *)
(* by it has one result and the position of a player does not depend on    *)
(* the order in which a Go map was ranged over.                            *)
THEOREM StrictTotalOrder ==
    \A a, b, c \in PlayerRecords :
        /\ ~less(a, a)
        /\ less(a, b) /\ less(b, c) => less(a, c)
        /\ a.id # b.id => less(a, b) \/ less(b, a)
        /\ ~(less(a, b) /\ less(b, a))
<1> SUFFICES ASSUME NEW a \in PlayerRecords, NEW b \in PlayerRecords, NEW c \in PlayerRecords
             PROVE  /\ ~shouldComeBefore(a, a)
                    /\ shouldComeBefore(a, b) /\ shouldComeBefore(b, c)
                          => shouldComeBefore(a, c)
                    /\ a.id # b.id => shouldComeBefore(a, b) \/ shouldComeBefore(b, a)
                    /\ ~(shouldComeBefore(a, b) /\ shouldComeBefore(b, a))
  BY ComparisonsAgree
<1>1. /\ a.score \in Int /\ a.platinum \in Int /\ a.gold \in Int
      /\ a.silver \in Int /\ a.bronze \in Int /\ a.id \in Int
      /\ b.score \in Int /\ b.platinum \in Int /\ b.gold \in Int
      /\ b.silver \in Int /\ b.bronze \in Int /\ b.id \in Int
      /\ c.score \in Int /\ c.platinum \in Int /\ c.gold \in Int
      /\ c.silver \in Int /\ c.bronze \in Int /\ c.id \in Int
  BY DEF PlayerRecords
<1> QED
  BY <1>1 DEF shouldComeBefore

-----------------------------------------------------------------------------
(* The position of a player in a set of players *)

(* The players that come before p.                                         *)
Below(S, p) == {q \in S : less(q, p)}

(* A finite set of players of whom no two have the same id.                *)
Roster(S) == S \subseteq PlayerRecords /\ IsFiniteSet(S) /\ DistinctIds(S)

(* On a roster the order is strict and total.                              *)
LEMMA RosterOrder ==
    ASSUME NEW S, Roster(S)
    PROVE  \A p, q, r \in S : /\ ~ less(p, p)
                              /\ less(p, q) /\ less(q, r) => less(p, r)
                              /\ p # q => less(p, q) \/ less(q, p)
                              /\ ~ (less(p, q) /\ less(q, p))
BY StrictTotalOrder DEF Roster, DistinctIds

(* Fewer players come before a player than there are.                      *)
LEMMA BelowFinite ==
    ASSUME NEW S, Roster(S), NEW p \in S
    PROVE  /\ IsFiniteSet(Below(S, p)) /\ Cardinality(Below(S, p)) \in Nat
           /\ Cardinality(S) \in Nat /\ Cardinality(Below(S, p)) < Cardinality(S)
<1>1. IsFiniteSet(S) /\ Below(S, p) \in SUBSET S
  BY DEF Roster, Below
<1>2. p \notin Below(S, p)
  BY RosterOrder DEF Below
<1>3. /\ IsFiniteSet(Below(S, p)) /\ Cardinality(Below(S, p)) <= Cardinality(S)
      /\ Cardinality(S) # Cardinality(Below(S, p))
  BY <1>1, <1>2, FS_Subset
<1>4. Cardinality(Below(S, p)) \in Nat /\ Cardinality(S) \in Nat
  BY <1>1, <1>3, FS_CardinalityType
<1> QED  BY <1>3, <1>4

(* Who comes before another has fewer players before it.                   *)
LEMMA PositionMonotone ==
    ASSUME NEW S, Roster(S), NEW p \in S, NEW q \in S, less(q, p)
    PROVE  Cardinality(Below(S, q)) < Cardinality(Below(S, p))
<1>1. Below(S, q) \in SUBSET Below(S, p)
  BY RosterOrder DEF Below
<1>2. q \in Below(S, p) /\ q \notin Below(S, q)
  BY RosterOrder DEF Below
<1>3. IsFiniteSet(Below(S, p))
  BY BelowFinite
<1>4. /\ Cardinality(Below(S, q)) <= Cardinality(Below(S, p))
      /\ Cardinality(Below(S, p)) # Cardinality(Below(S, q))
  BY <1>1, <1>2, <1>3, FS_Subset
<1>5. Cardinality(Below(S, p)) \in Nat /\ Cardinality(Below(S, q)) \in Nat
  BY BelowFinite
<1> QED  BY <1>4, <1>5

(* No two players have the same position.                                  *)
LEMMA PositionUnique ==
    ASSUME NEW S, Roster(S), NEW p \in S, NEW q \in S,
           Cardinality(Below(S, q)) = Cardinality(Below(S, p))
    PROVE  p = q
<1>1. Cardinality(Below(S, p)) \in Nat
  BY BelowFinite
<1>2. ~ less(p, q) /\ ~ less(q, p)
  BY <1>1, PositionMonotone
<1> QED  BY <1>2, RosterOrder

(* Every position is taken.                                                *)
LEMMA PositionOnto ==
    ASSUME NEW S, Roster(S), NEW k \in 1 .. Cardinality(S)
    PROVE  \E p \in S : Cardinality(Below(S, p)) = k - 1
<1> DEFINE f == [p \in S |-> Cardinality(Below(S, p)) + 1]
           T == 1 .. Cardinality(S)
<1>1. IsFiniteSet(S) /\ Cardinality(S) \in Nat
  BY FS_CardinalityType DEF Roster
<1>2. f \in [S -> T]
  <2>1. \A p \in S : Cardinality(Below(S, p)) + 1 \in T
    BY <1>1, BelowFinite
  <2> QED  BY <2>1
<1>3. f \in Injection(S, T)
  <2> SUFFICES ASSUME NEW p \in S, NEW q \in S, f[p] = f[q] PROVE p = q
    BY <1>2 DEF Injection, IsInjective
  <2>1. Cardinality(Below(S, p)) \in Nat /\ Cardinality(Below(S, q)) \in Nat
    BY BelowFinite
  <2>2. Cardinality(Below(S, q)) = Cardinality(Below(S, p))
    BY <2>1
  <2> QED  BY <2>2, PositionUnique
<1>4. IsFiniteSet(T) /\ Cardinality(T) = Cardinality(S)
  BY <1>1, FS_Interval
<1>5. f \in Surjection(S, T)
  <2> HIDE DEF f, T
  <2> QED  BY <1>3, <1>4, FS_Injection
<1>6. PICK p \in S : f[p] = k
  BY <1>5 DEF Surjection
<1>7. Cardinality(Below(S, p)) + 1 = k /\ Cardinality(Below(S, p)) \in Nat
  BY <1>6, BelowFinite
<1> QED  BY <1>7

(* Sorted puts every player of the set at its position.                    *)
LEMMA SortedIs ==
    ASSUME NEW S, Roster(S)
    PROVE  /\ Cardinality(S) \in Nat
           /\ Sorted(S) \in [1 .. Cardinality(S) -> S]
           /\ \A k \in 1 .. Cardinality(S) : Cardinality(Below(S, Sorted(S)[k])) = k - 1
           /\ \A k, l \in 1 .. Cardinality(S) : k < l => less(Sorted(S)[k], Sorted(S)[l])
           /\ \A p \in S : \E k \in 1 .. Cardinality(S) : Sorted(S)[k] = p
<1>1. Cardinality(S) \in Nat
  BY FS_CardinalityType DEF Roster
<1>2. ASSUME NEW k \in 1 .. Cardinality(S)
      PROVE  Sorted(S)[k] \in S /\ Cardinality(Below(S, Sorted(S)[k])) = k - 1
  <2>1. Sorted(S)[k] = CHOOSE p \in S : Cardinality(Below(S, p)) = k - 1
    BY DEF Sorted, Below
  <2> QED  BY <2>1, PositionOnto
<1>3. Sorted(S) \in [1 .. Cardinality(S) -> S]
  <2>1. Sorted(S) = [k \in 1 .. Cardinality(S) |-> Sorted(S)[k]]
    BY DEF Sorted
  <2> QED  BY <1>2, <2>1
<1>4. ASSUME NEW k \in 1 .. Cardinality(S), NEW l \in 1 .. Cardinality(S), k < l
      PROVE  less(Sorted(S)[k], Sorted(S)[l])
  <2>1. Sorted(S)[k] # Sorted(S)[l]
    BY <1>2, <1>4
  <2>2. ~ less(Sorted(S)[l], Sorted(S)[k])
    <3> SUFFICES ASSUME less(Sorted(S)[l], Sorted(S)[k]) PROVE FALSE
      OBVIOUS
    <3>1. l - 1 < k - 1
      BY <1>2, PositionMonotone
    <3> QED  BY <1>4, <3>1
  <2> QED  BY <1>2, <2>1, <2>2, RosterOrder
<1>5. ASSUME NEW p \in S
      PROVE  \E k \in 1 .. Cardinality(S) : Sorted(S)[k] = p
  <2> DEFINE k == Cardinality(Below(S, p)) + 1
  <2>1. k \in 1 .. Cardinality(S) /\ Cardinality(Below(S, p)) = k - 1
    BY BelowFinite
  <2>2. Sorted(S)[k] = p
    <3> HIDE DEF k
    <3> QED  BY <1>2, <2>1, PositionUnique
  <2> QED  BY <2>1, <2>2
<1> QED  BY <1>1, <1>2, <1>3, <1>4, <1>5

-----------------------------------------------------------------------------
(* Sequences of entries *)

PlayersOf(s) == {s[k].player : k \in DOMAIN s}

Increasing(s) == \A k, l \in DOMAIN s : k < l => less(s[k].player, s[l].player)

(* The ranks of the first m entries follow the rule of SortAndNumber and   *)
(* of assignCompetitionRanks.                                              *)
RuleAt(s, k) == IF k > 1 /\ sameRank(s[k - 1].player, s[k].player) THEN s[k - 1].rank ELSE k

NumberedTo(s, m) == \A k \in 1 .. m : s[k].rank = RuleAt(s, k)

(* The first m players of an increasing sequence are m players.            *)
LEMMA PrefixSize ==
    ASSUME NEW s \in Seq(Entries), Increasing(s), Roster(PlayersOf(s)), NEW m \in 0 .. Len(s)
    PROVE  Cardinality({s[k].player : k \in 1 .. m}) = m
<1> DEFINE f == [k \in 1 .. m |-> s[k].player]
           T == {s[k].player : k \in 1 .. m}
<1>1. Len(s) \in Nat /\ DOMAIN s = 1 .. Len(s) /\ m \in Nat
      /\ \A k \in 1 .. Len(s) : s[k].player \in PlayersOf(s)
  BY LenProperties DEF PlayersOf
<1>2. f \in [1 .. m -> T] /\ \A t \in T : \E k \in 1 .. m : f[k] = t
  OBVIOUS
<1>3. ASSUME NEW k \in 1 .. m, NEW l \in 1 .. m, f[k] = f[l] PROVE k = l
  <2>1. k \in 1 .. Len(s) /\ l \in 1 .. Len(s) /\ s[k].player = s[l].player
    BY <1>1, <1>3
  <2>2. ~ less(s[k].player, s[l].player) /\ ~ less(s[l].player, s[k].player)
    BY <1>1, <2>1, RosterOrder
  <2> QED  BY <1>1, <2>1, <2>2 DEF Increasing
<1>4. f \in Bijection(1 .. m, T)
  BY <1>2, <1>3 DEF Bijection, Injection, Surjection, IsInjective
<1>5. ExistsBijection(1 .. m, T)
  BY <1>4 DEF ExistsBijection
<1> HIDE DEF T
<1> QED  BY <1>1, <1>5, FS_CountingElements DEF T

(* An increasing sequence of the players of a set has each at its position.*)
LEMMA IncreasingIsSorted ==
    ASSUME NEW s \in Seq(Entries), Increasing(s), Roster(PlayersOf(s))
    PROVE  /\ Len(s) = Cardinality(PlayersOf(s))
           /\ \A k \in 1 .. Len(s) : s[k].player = Sorted(PlayersOf(s))[k]
<1> DEFINE S == PlayersOf(s)
<1>1. Len(s) \in Nat /\ DOMAIN s = 1 .. Len(s)
  BY LenProperties
<1>2. \A k \in 1 .. Len(s) : s[k].player \in S
  BY <1>1 DEF PlayersOf
<1>3. \A k, l \in 1 .. Len(s) : less(s[k].player, s[l].player) <=> k < l
  <2> SUFFICES ASSUME NEW k \in 1 .. Len(s), NEW l \in 1 .. Len(s)
               PROVE  less(s[k].player, s[l].player) <=> k < l
    OBVIOUS
  <2>1. k < l => less(s[k].player, s[l].player)
    BY <1>1 DEF Increasing
  <2>2. l < k => less(s[l].player, s[k].player)
    BY <1>1 DEF Increasing
  <2>3. k = l => ~ less(s[k].player, s[l].player)
    BY <1>2, RosterOrder
  <2>4. k < l \/ l < k \/ k = l
    OBVIOUS
  <2> QED  BY <1>2, <2>1, <2>2, <2>3, <2>4, RosterOrder
<1>4. \A m \in 0 .. Len(s) : Cardinality({s[k].player : k \in 1 .. m}) = m
  BY PrefixSize
<1>5. Len(s) = Cardinality(S)
  <2>1. S = {s[k].player : k \in 1 .. Len(s)}
    BY <1>1 DEF PlayersOf
  <2>2. Len(s) \in 0 .. Len(s)
    BY <1>1
  <2> QED  BY <1>4, <2>1, <2>2
<1>6. ASSUME NEW k \in 1 .. Len(s)
      PROVE  s[k].player = Sorted(S)[k]
  <2>1. Below(S, s[k].player) = {s[l].player : l \in 1 .. k - 1}
    <3>1. \A l \in 1 .. k - 1 : l \in 1 .. Len(s) /\ l < k
      BY <1>1
    <3>2. \A l \in 1 .. Len(s) : l < k => l \in 1 .. k - 1
      BY <1>1
    <3>3. Below(S, s[k].player) \subseteq {s[l].player : l \in 1 .. k - 1}
      BY <1>1, <1>3, <3>2 DEF Below, PlayersOf
    <3>4. \A l \in 1 .. k - 1 : s[l].player \in Below(S, s[k].player)
      BY <1>2, <1>3, <3>1 DEF Below
    <3> QED  BY <3>3, <3>4
  <2>2. k - 1 \in 0 .. Len(s)
    BY <1>1
  <2>3. Cardinality(Below(S, s[k].player)) = k - 1
    BY <1>4, <2>1, <2>2
  <2>4. k \in 1 .. Cardinality(S)
    BY <1>5
  <2>5. Sorted(S)[k] \in S /\ Cardinality(Below(S, Sorted(S)[k])) = k - 1
    <3> HIDE DEF S
    <3> QED  BY <2>4, SortedIs DEF S
  <2> HIDE DEF S
  <2> QED  BY <1>2, <2>3, <2>5, PositionUnique DEF S
<1> QED  BY <1>5, <1>6

-----------------------------------------------------------------------------
(* The rank rule *)

(* A set of natural numbers has a least element.                           *)
LEMMA LeastOf ==
    ASSUME NEW T, T \subseteq Nat, T # {}
    PROVE  \E x \in T : \A y \in T : x <= y
<1>1. PICK x \in T : \A y \in T : ~ (<<y, x>> \in OpToRel(<, Nat))
  BY NatLessThanWellFounded, WFMin
<1>2. \A y \in T : ~ (y < x)
  BY <1>1 DEF OpToRel
<1> QED  BY <1>2

(* Players l to k of s all share their rank with the one before them.      *)
Run(s, l, k) == \A x \in l + 1 .. k : sameRank(s[x - 1], s[x])

(* Where the run that ends with player k starts: the rank of that player.  *)
Start(s, k) ==
    CHOOSE l \in 1 .. k : Run(s, l, k) /\ \A h \in 1 .. k : Run(s, h, k) => l <= h

(* A run has a start: the least place from which all share a rank.         *)
LEMMA StartIs ==
    ASSUME NEW s, NEW k \in Nat \ {0}
    PROVE  /\ Start(s, k) \in 1 .. k /\ Run(s, Start(s, k), k)
           /\ \A h \in 1 .. k : Run(s, h, k) => Start(s, k) <= h
<1> DEFINE T == {l \in 1 .. k : Run(s, l, k)}
<1>1. k \in T
  BY DEF Run
<1>2. PICK l \in T : \A h \in T : l <= h
  <2>1. T \subseteq Nat /\ T # {}
    BY <1>1
  <2> HIDE DEF T
  <2> QED  BY <2>1, LeastOf
<1>3. \E x \in 1 .. k : Run(s, x, k) /\ \A h \in 1 .. k : Run(s, h, k) => x <= h
  BY <1>2
<1> QED  BY <1>3 DEF Start

(* The rule of SortAndNumber: a player takes the rank of the one before if *)
(* their counts are the same, and its place otherwise.                     *)
LEMMA StartFollowsRule ==
    ASSUME NEW s, NEW k \in Nat \ {0}
    PROVE  Start(s, k) = IF k > 1 /\ sameRank(s[k - 1], s[k]) THEN Start(s, k - 1) ELSE k
<1>1. CASE k > 1 /\ sameRank(s[k - 1], s[k])
  <2>0. k - 1 \in Nat \ {0}
    BY <1>1
  <2>1. \A l \in 1 .. k - 1 : Run(s, l, k) <=> Run(s, l, k - 1)
    <3> SUFFICES ASSUME NEW l \in 1 .. k - 1 PROVE Run(s, l, k) <=> Run(s, l, k - 1)
      OBVIOUS
    <3>1. \A x \in l + 1 .. k : x \in l + 1 .. k - 1 \/ x = k
      OBVIOUS
    <3>2. \A x \in l + 1 .. k - 1 : x \in l + 1 .. k
      OBVIOUS
    <3> QED  BY <1>1, <3>1, <3>2 DEF Run
  <2>2. Start(s, k - 1) \in 1 .. k - 1 /\ Run(s, Start(s, k - 1), k - 1)
        /\ \A h \in 1 .. k - 1 : Run(s, h, k - 1) => Start(s, k - 1) <= h
    BY <2>0, StartIs
  <2>3. Start(s, k) <= Start(s, k - 1)
    BY <2>1, <2>2, StartIs
  <2>4. Start(s, k) \in 1 .. k - 1
    BY <2>2, <2>3, StartIs
  <2>5. Start(s, k - 1) <= Start(s, k)
    BY <2>1, <2>2, <2>4, StartIs
  <2>6. Start(s, k) = Start(s, k - 1)
    BY <2>2, <2>3, <2>4, <2>5
  <2> QED  BY <1>1, <2>6
<1>2. CASE ~ (k > 1 /\ sameRank(s[k - 1], s[k]))
  <2>1. Start(s, k) \in 1 .. k /\ Run(s, Start(s, k), k)
    BY StartIs
  <2>2. Start(s, k) = k
    <3> SUFFICES ASSUME Start(s, k) # k PROVE FALSE
      OBVIOUS
    <3>1. k > 1 /\ k \in Start(s, k) + 1 .. k
      BY <2>1
    <3>2. sameRank(s[k - 1], s[k])
      BY <2>1, <3>1 DEF Run
    <3> QED  BY <1>2, <3>1, <3>2
  <2> QED  BY <1>2, <2>2
<1> QED  BY <1>1, <1>2

(* The function that SortAndNumber defines by recursion exists, and is the *)
(* start of the run.                                                       *)
RankRule(s, m, f) ==
    f = [k \in 1 .. m |-> IF k > 1 /\ sameRank(s[k - 1], s[k]) THEN f[k - 1] ELSE k]

(* There is one such function.                                             *)
LEMMA RankFunction ==
    ASSUME NEW s, NEW m \in Nat
    PROVE  /\ RankRule(s, m, [k \in 1 .. m |-> Start(s, k)])
           /\ \A f : RankRule(s, m, f) => \A k \in 1 .. m : f[k] = Start(s, k)
<1> DEFINE g == [k \in 1 .. m |-> Start(s, k)]
<1>1. RankRule(s, m, g)
  <2> SUFFICES ASSUME NEW k \in 1 .. m
               PROVE  g[k] = IF k > 1 /\ sameRank(s[k - 1], s[k]) THEN g[k - 1] ELSE k
    BY DEF RankRule
  <2>1. k \in Nat \ {0} /\ (k > 1 => k - 1 \in 1 .. m)
    OBVIOUS
  <2> QED  BY <2>1, StartFollowsRule
<1>2. ASSUME NEW f, RankRule(s, m, f), NEW x \in 1 .. m, f[x] # Start(s, x)
      PROVE  FALSE
  <2> DEFINE T == {k \in 1 .. m : f[k] # Start(s, k)}
  <2>1. PICK k \in T : \A h \in T : k <= h
    <3>1. T \subseteq Nat /\ T # {}
      BY <1>2
    <3> HIDE DEF T
    <3> QED  BY <3>1, LeastOf
  <2>2. k \in Nat \ {0} /\ k \in 1 .. m
    OBVIOUS
  <2>3. f[k] = IF k > 1 /\ sameRank(s[k - 1], s[k]) THEN f[k - 1] ELSE k
    <3>1. f = [h \in 1 .. m |-> IF h > 1 /\ sameRank(s[h - 1], s[h]) THEN f[h - 1] ELSE h]
      BY <1>2 DEF RankRule
    <3> QED  BY <2>2, <3>1
  <2>4. k > 1 => f[k - 1] = Start(s, k - 1)
    BY <2>1, <2>2
  <2>5. f[k] = Start(s, k)
    BY <2>2, <2>3, <2>4, StartFollowsRule
  <2> QED  BY <2>5
<1> QED  BY <1>1, <1>2

(* What SortAndNumber returns: an entry for each player at its position,   *)
(* ranked with the start of its run.                                       *)
LEMMA SortAndNumberIs ==
    ASSUME NEW S, Roster(S)
    PROVE  /\ DOMAIN SortAndNumber(S) = 1 .. Cardinality(S)
           /\ \A k \in 1 .. Cardinality(S) :
                 SortAndNumber(S)[k] = [player |-> Sorted(S)[k], rank |-> Start(Sorted(S), k)]
           /\ SortAndNumber(S) =
                 [k \in 1 .. Cardinality(S) |->
                    [player |-> Sorted(S)[k], rank |-> Start(Sorted(S), k)]]
<1> DEFINE m == Cardinality(S)
           rank[k \in DOMAIN Sorted(S)] == IF k > 1 /\ sameRank(Sorted(S)[k - 1], Sorted(S)[k])
                                           THEN rank[k - 1] ELSE k
<1>1. m \in Nat /\ DOMAIN Sorted(S) = 1 .. m
  BY SortedIs
<1>2. RankRule(Sorted(S), m, rank)
  <2>1. RankRule(Sorted(S), m, [k \in 1 .. m |-> Start(Sorted(S), k)])
    BY <1>1, RankFunction
  <2> QED  BY <1>1, <2>1 DEF RankRule
<1>3. \A k \in 1 .. m : rank[k] = Start(Sorted(S), k)
  <2> HIDE DEF rank
  <2> QED  BY <1>1, <1>2, RankFunction
<1>4. SortAndNumber(S) = [k \in DOMAIN Sorted(S) |-> [player |-> Sorted(S)[k], rank |-> rank[k]]]
  BY DEF SortAndNumber
<1>5. SortAndNumber(S) = [k \in 1 .. m |-> [player |-> Sorted(S)[k], rank |-> Start(Sorted(S), k)]]
  <2> HIDE DEF rank
  <2> QED  BY <1>1, <1>3, <1>4
<1> QED  BY <1>5


(* The rows of this module are players of package rank.                    *)
LEMMA RowsArePlayers ==
    ASSUME FaceAssumption
    PROVE  Rows \subseteq PlayerRecords /\ \A p \in Rows : p.id \in Ids
<1> SUFFICES ASSUME NEW id \in Ids, NEW c \in Counts
             PROVE  RowOf(id, c) \in PlayerRecords /\ RowOf(id, c).id \in Ids
  BY DEF Rows
<1>1. /\ id \in Int /\ c.bronze \in Nat /\ c.silver \in Nat
      /\ c.gold \in Nat /\ c.platinum \in Nat
  BY DEF FaceAssumption
<1>2. Score(c.bronze, c.silver, c.gold, c.platinum) \in Int
  BY <1>1 DEF Score
<1> QED  BY <1>1, <1>2 DEF RowOf, PlayerRecords

(* A sequence of entries by places.                                        *)
LEMMA EntryAt ==
    ASSUME NEW s \in Seq(Entries)
    PROVE  /\ Len(s) \in Nat /\ DOMAIN s = 1 .. Len(s)
           /\ \A k \in 1 .. Len(s) : /\ s[k] \in Entries /\ s[k].player \in Rows
                                     /\ s[k].rank \in Nat \ {0}
           /\ PlayersOf(s) \subseteq Rows
           /\ PlayersOf(s) = {s[k].player : k \in 1 .. Len(s)}
<1>1. Len(s) \in Nat /\ DOMAIN s = 1 .. Len(s)
  BY LenProperties
<1>2. \A k \in 1 .. Len(s) : s[k] \in Entries
  BY ElementOfSeq
<1>3. \A e \in Entries : e.player \in Rows /\ e.rank \in Nat \ {0}
  BY DEF Entries
<1> QED  BY <1>1, <1>2, <1>3 DEF PlayersOf

(* Ranks that follow the rule are the starts of the runs.                  *)
LEMMA RanksAreStarts ==
    ASSUME NEW s, NEW f, NEW m \in Nat, NumberedTo(s, m),
           \A k \in 1 .. m : s[k].player = f[k]
    PROVE  \A k \in 1 .. m : s[k].rank = Start(f, k)
<1> SUFFICES ASSUME NEW x \in 1 .. m, s[x].rank # Start(f, x) PROVE FALSE
  OBVIOUS
<1> DEFINE T == {k \in 1 .. m : s[k].rank # Start(f, k)}
<1>1. PICK k \in T : \A h \in T : k <= h
  <2>1. T \subseteq Nat /\ T # {}
    OBVIOUS
  <2> HIDE DEF T
  <2> QED  BY <2>1, LeastOf
<1>2. k \in Nat \ {0} /\ k \in 1 .. m /\ (k > 1 => k - 1 \in 1 .. m)
  OBVIOUS
<1>3. k > 1 => s[k - 1].rank = Start(f, k - 1)
  BY <1>1, <1>2
<1>4. s[k].rank = IF k > 1 /\ sameRank(f[k - 1], f[k]) THEN s[k - 1].rank ELSE k
  BY <1>2 DEF NumberedTo, RuleAt
<1>5. s[k].rank = Start(f, k)
  BY <1>2, <1>3, <1>4, StartFollowsRule
<1> QED  BY <1>5

(* Only SortAndNumber's result is in order, has all the players and        *)
(* follows the rank rule.                                                  *)
LEMMA SettledIsSorted ==
    ASSUME NEW s \in Seq(Entries), Increasing(s), Roster(PlayersOf(s)), NumberedTo(s, Len(s))
    PROVE  s = SortAndNumber(PlayersOf(s))
<1> DEFINE S == PlayersOf(s)
           m == Len(s)
<1>1. m \in Nat /\ DOMAIN s = 1 .. m /\ \A k \in 1 .. m : s[k] \in Entries
  BY EntryAt
<1>2. m = Cardinality(S) /\ \A k \in 1 .. m : s[k].player = Sorted(S)[k]
  BY IncreasingIsSorted
<1>3. \A k \in 1 .. m : s[k].rank = Start(Sorted(S), k)
  BY <1>1, <1>2, RanksAreStarts
<1>4. ASSUME NEW k \in 1 .. m
      PROVE  s[k] = [player |-> Sorted(S)[k], rank |-> Start(Sorted(S), k)]
  <2>1. s[k] \in [player : Rows, rank : Nat \ {0}]
    BY <1>1 DEF Entries
  <2>2. s[k] = [player |-> s[k].player, rank |-> s[k].rank]
    BY <2>1
  <2> QED  BY <1>2, <1>3, <2>2
<1>5. s = [k \in 1 .. m |-> s[k]]
  <2>1. s \in [1 .. m -> Entries]
    BY LenProperties
  <2> QED  BY <2>1
<1>6. s = [k \in 1 .. m |-> [player |-> Sorted(S)[k], rank |-> Start(Sorted(S), k)]]
  <2> HIDE DEF m, S
  <2> QED  BY <1>4, <1>5
<1>7. SortAndNumber(S) = [k \in 1 .. Cardinality(S) |->
                            [player |-> Sorted(S)[k], rank |-> Start(Sorted(S), k)]]
  <2> HIDE DEF S
  <2> QED  BY SortAndNumberIs DEF S
<1> QED  BY <1>2, <1>6, <1>7

(* The result of SortAndNumber is in order, complete and ranked.           *)
LEMMA SortAndNumberSettles ==
    ASSUME NEW S, Roster(S), S \subseteq Rows
    PROVE  /\ SortAndNumber(S) \in Seq(Entries) /\ Increasing(SortAndNumber(S))
           /\ PlayersOf(SortAndNumber(S)) = S
           /\ NumberedTo(SortAndNumber(S), Len(SortAndNumber(S)))
<1> DEFINE r == SortAndNumber(S)
           m == Cardinality(S)
           f == Sorted(S)
<1>1. /\ m \in Nat /\ f \in [1 .. m -> S]
      /\ \A k, l \in 1 .. m : k < l => less(f[k], f[l])
      /\ \A p \in S : \E k \in 1 .. m : f[k] = p
  BY SortedIs
<1>2. /\ DOMAIN r = 1 .. m
      /\ \A k \in 1 .. m : r[k] = [player |-> f[k], rank |-> Start(f, k)]
      /\ r = [k \in 1 .. m |-> [player |-> f[k], rank |-> Start(f, k)]]
  BY SortAndNumberIs
<1> HIDE DEF r, m, f
<1>3. ASSUME NEW k \in 1 .. m
      PROVE  [player |-> f[k], rank |-> Start(f, k)] \in Entries
  <2>1. f[k] \in Rows
    BY <1>1
  <2>2. Start(f, k) \in Nat \ {0}
    <3>1. k \in Nat \ {0}
      BY <1>1
    <3>2. Start(f, k) \in 1 .. k
      BY <3>1, StartIs
    <3> QED  BY <3>1, <3>2
  <2> QED  BY <2>1, <2>2 DEF Entries
<1>4. r \in [1 .. m -> Entries]
  BY <1>2, <1>3
<1>5. r \in Seq(Entries)
  BY <1>1, <1>4
<1>6. Len(r) = m
  BY <1>1, <1>2, <1>5, LenProperties
<1>7. \A k \in 1 .. m : r[k].player = f[k] /\ r[k].rank = Start(f, k)
  BY <1>2
<1>8. Increasing(r)
  BY <1>1, <1>2, <1>7 DEF Increasing
<1>9. PlayersOf(r) = S
  <2>1. PlayersOf(r) = {f[k] : k \in 1 .. m}
    BY <1>2, <1>7 DEF PlayersOf
  <2> QED  BY <1>1, <2>1
<1>10. NumberedTo(r, m)
  <2> SUFFICES ASSUME NEW k \in 1 .. m
               PROVE  r[k].rank = IF k > 1 /\ sameRank(r[k - 1].player, r[k].player)
                                  THEN r[k - 1].rank ELSE k
    BY DEF NumberedTo, RuleAt
  <2>1. k \in Nat \ {0} /\ (k > 1 => k - 1 \in 1 .. m)
    BY <1>1
  <2> QED  BY <1>7, <2>1, StartFollowsRule
<1> QED  BY <1>5, <1>6, <1>8, <1>9, <1>10 DEF r


-----------------------------------------------------------------------------
(* What the loops do to the sequences *)

(* The players of s from place m on.                                       *)
Rest(s, m) == {s[k].player : k \in m .. Len(s)}

Before(s, T) == \A k \in DOMAIN s : \A p \in T : less(s[k].player, p)

(* A cursor moves on: one player less is to come, and all that are to      *)
(* come are behind it.                                                     *)
LEMMA RestStep ==
    ASSUME NEW s \in Seq(Entries)
    PROVE  /\ Rest(s, 1) = PlayersOf(s)
           /\ \A m \in 1 .. Len(s) : /\ Rest(s, m) = {s[m].player} \cup Rest(s, m + 1)
                                     /\ Increasing(s) => \A p \in Rest(s, m + 1) :
                                                             less(s[m].player, p)
           /\ \A m \in Nat : m > Len(s) => Rest(s, m) = {}
           /\ \A m \in Nat \ {0} : Rest(s, m) \subseteq PlayersOf(s)
<1>1. Len(s) \in Nat /\ DOMAIN s = 1 .. Len(s)
  BY EntryAt
<1>2. ASSUME NEW m \in 1 .. Len(s)
      PROVE  Rest(s, m) = {s[m].player} \cup Rest(s, m + 1)
  <2>1. /\ m \in m .. Len(s)
        /\ \A k \in m .. Len(s) : k = m \/ k \in m + 1 .. Len(s)
        /\ \A k \in m + 1 .. Len(s) : k \in m .. Len(s)
    BY <1>1
  <2> QED  BY <2>1 DEF Rest
<1>3. ASSUME NEW m \in 1 .. Len(s), Increasing(s), NEW p \in Rest(s, m + 1)
      PROVE  less(s[m].player, p)
  <2>1. PICK k \in m + 1 .. Len(s) : p = s[k].player
    BY DEF Rest
  <2>2. k \in 1 .. Len(s) /\ m < k
    BY <1>1
  <2> QED  BY <1>1, <1>3, <2>1, <2>2 DEF Increasing
<1>4. ASSUME NEW m \in Nat, m > Len(s) PROVE Rest(s, m) = {}
  <2>1. m .. Len(s) = {}
    BY <1>1, <1>4
  <2> QED  BY <2>1 DEF Rest
<1>5. ASSUME NEW m \in Nat \ {0} PROVE Rest(s, m) \subseteq PlayersOf(s)
  <2>1. \A k \in m .. Len(s) : k \in 1 .. Len(s)
    BY <1>1
  <2> QED  BY <1>1, <2>1 DEF Rest, PlayersOf
<1>6. Rest(s, 1) = PlayersOf(s)
  BY <1>1 DEF Rest, PlayersOf
<1> QED  BY <1>2, <1>3, <1>4, <1>5, <1>6

(* An entry that comes after all of s and before all that is to come is    *)
(* appended: the order stays.                                              *)
LEMMA AppendStep ==
    ASSUME NEW s \in Seq(Entries), NEW e \in Entries,
           Increasing(s), Before(s, {e.player})
    PROVE  /\ Append(s, e) \in Seq(Entries) /\ Increasing(Append(s, e))
           /\ PlayersOf(Append(s, e)) = PlayersOf(s) \cup {e.player}
           /\ \A T : Before(s, T) /\ (\A p \in T : less(e.player, p))
                       => Before(Append(s, e), T)
<1> DEFINE t == Append(s, e)
           m == Len(s)
<1>1. m \in Nat /\ DOMAIN s = 1 .. m
  BY EntryAt
<1>2. t \in Seq(Entries)
  OBVIOUS
<1>3. /\ DOMAIN t = 1 .. m + 1 /\ t[m + 1] = e
      /\ \A k \in 1 .. m : t[k] = s[k]
  BY <1>1
<1> HIDE DEF t
<1>4. \A k \in 1 .. m + 1 : k \in 1 .. m \/ k = m + 1
  BY <1>1
<1>5. m + 1 \in 1 .. m + 1 /\ \A k \in 1 .. m : k \in 1 .. m + 1
  BY <1>1
<1> HIDE DEF m
<1>6. Increasing(t)
  <2> SUFFICES ASSUME NEW k \in 1 .. m + 1, NEW l \in 1 .. m + 1, k < l
               PROVE  less(t[k].player, t[l].player)
    BY <1>3 DEF Increasing
  <2>1. CASE l \in 1 .. m
    <3>1. k \in 1 .. m
      BY <1>1, <2>1
    <3> QED  BY <1>1, <1>3, <2>1, <3>1 DEF Increasing
  <2>2. CASE l = m + 1
    <3>1. k \in 1 .. m
      BY <1>1, <2>2
    <3> QED  BY <1>1, <1>3, <2>2, <3>1 DEF Before
  <2> QED  BY <1>4, <2>1, <2>2
<1>7. PlayersOf(t) = PlayersOf(s) \cup {e.player}
  <2>1. PlayersOf(t) \subseteq PlayersOf(s) \cup {e.player}
    BY <1>1, <1>3, <1>4 DEF PlayersOf
  <2>2. PlayersOf(s) \cup {e.player} \subseteq PlayersOf(t)
    BY <1>1, <1>3, <1>5 DEF PlayersOf
  <2> QED  BY <2>1, <2>2
<1>8. ASSUME NEW T, Before(s, T), \A p \in T : less(e.player, p)
      PROVE  Before(t, T)
  BY <1>1, <1>3, <1>4, <1>8 DEF Before
<1> QED  BY <1>2, <1>6, <1>7, <1>8 DEF t

(* A rank is assigned: the players stay, the rule holds one entry further. *)
Assigned(s, m) == [s EXCEPT ![m].rank = RuleAt(s, m)]

LEMMA AssignStep ==
    ASSUME NEW s \in Seq(Entries), NEW m \in 1 .. Len(s), NumberedTo(s, m - 1)
    PROVE  /\ Assigned(s, m) \in Seq(Entries)
           /\ Len(Assigned(s, m)) = Len(s)
           /\ \A k \in 1 .. Len(s) : Assigned(s, m)[k].player = s[k].player
           /\ NumberedTo(Assigned(s, m), m)
<1> DEFINE v == RuleAt(s, m)
           t == Assigned(s, m)
           e == [s[m] EXCEPT !.rank = v]
<1>1. Len(s) \in Nat /\ DOMAIN s = 1 .. Len(s) /\ s[m] \in Entries
  BY EntryAt
<1>a. v \in Nat \ {0}
  <2>1. m > 1 => m - 1 \in 1 .. Len(s)
    BY <1>1
  <2>2. m > 1 => s[m - 1].rank \in Nat \ {0}
    BY <2>1, EntryAt
  <2> QED  BY <1>1, <2>2 DEF RuleAt
<1>b. v = IF m > 1 /\ sameRank(s[m - 1].player, s[m].player) THEN s[m - 1].rank ELSE m
  BY DEF RuleAt
<1> HIDE DEF v
<1>2. e \in Entries /\ e.player = s[m].player /\ e.rank = v
  BY <1>1, <1>a DEF Entries
<1>3. t = [s EXCEPT ![m] = e]
  BY DEF v, Assigned
<1>4. t \in Seq(Entries) /\ Len(t) = Len(s)
      /\ \A k \in 1 .. Len(s) : t[k] = IF k = m THEN e ELSE s[k]
  <2> HIDE DEF e, t
  <2> QED  BY <1>2, <1>3, ExceptSeq
<1> HIDE DEF e, t
<1>5. \A k \in 1 .. Len(s) : t[k].player = s[k].player
  BY <1>2, <1>4
<1>6. NumberedTo(t, m)
  <2> SUFFICES ASSUME NEW k \in 1 .. m
               PROVE  t[k].rank = IF k > 1 /\ sameRank(t[k - 1].player, t[k].player)
                                  THEN t[k - 1].rank ELSE k
    BY DEF NumberedTo, RuleAt
  <2>1. /\ k \in Nat \ {0} /\ k \in 1 .. Len(s) /\ m \in Nat
        /\ k > 1 => k - 1 \in 1 .. Len(s) /\ k - 1 # m
        /\ k # m => k \in 1 .. m - 1
    BY <1>1
  <2>2. k > 1 => t[k - 1] = s[k - 1]
    BY <1>4, <2>1
  <2>3. CASE k = m
    BY <1>2, <1>b, <1>4, <1>5, <2>1, <2>2, <2>3
  <2>4. CASE k # m
    <3>1. t[k] = s[k]
      BY <1>4, <2>1, <2>4
    <3> QED  BY <2>1, <2>2, <2>4, <3>1 DEF NumberedTo, RuleAt
  <2> QED  BY <2>3, <2>4
<1> QED  BY <1>4, <1>5, <1>6 DEF t

(* A batch, and the map with it, has every id once.                        *)
LEMMA BatchIsRoster ==
    ASSUME FaceAssumption, NEW batch \in Batches, NEW rows, Roster(rows), rows \subseteq Rows
    PROVE  /\ Roster(batch) /\ batch \subseteq Rows
           /\ Roster(Upserted(rows, batch)) /\ Upserted(rows, batch) \subseteq Rows
<1>1. Roster(batch) /\ batch \subseteq Rows
  BY RowsArePlayers DEF Batches, Roster
<1>2. Upserted(rows, batch) \subseteq Rows
  BY <1>1 DEF Upserted
<1>3. IsFiniteSet(Upserted(rows, batch))
  <2> DEFINE kept == {p \in rows : p.id \notin IdsOf(batch)}
  <2>1. kept \in SUBSET rows /\ IsFiniteSet(rows) /\ IsFiniteSet(batch)
    BY <1>1 DEF Roster
  <2>2. IsFiniteSet(kept)
    BY <2>1, FS_Subset
  <2> HIDE DEF kept
  <2>3. IsFiniteSet(kept \cup batch)
    BY <2>1, <2>2, FS_Union
  <2> QED  BY <2>3 DEF kept, Upserted
<1>4. DistinctIds(Upserted(rows, batch))
  BY <1>1 DEF Upserted, IdsOf, DistinctIds, Roster
<1> QED  BY <1>1, <1>2, <1>3, <1>4, RowsArePlayers DEF Roster


-----------------------------------------------------------------------------
(* The inductive invariant *)

(* The slice and the two inputs of the merge are in the order of package   *)
(* rank at every step of every loop.                                       *)
SliceInv == /\ Increasing(ranked) /\ Increasing(old) /\ Increasing(new)
            /\ i >= 1 /\ j >= 1 /\ n >= 1
            /\ Roster(players)

(* While the slice is filtered, each player of the map is in the part that *)
(* was kept, in the part still to be looked at or in the batch.            *)
FilterInv ==
    pc = "filter" =>
        /\ i <= Len(ranked) + 1 /\ j = 1
        /\ \A p \in PlayersOf(old) : p.id \notin toRemove
        /\ Before(old, Rest(ranked, i))
        /\ players = PlayersOf(old) \cup {p \in Rest(ranked, i) : p.id \notin toRemove}
                                    \cup PlayersOf(new)

(* While it is merged, each is in the result, which comes before what is   *)
(* left of the two inputs, or in what is left of one of them.              *)
MergeInv ==
    pc = "merge" =>
        /\ i <= Len(old) + 1 /\ j <= Len(new) + 1
        /\ \A p \in PlayersOf(old) : p.id \notin toRemove
        /\ Before(ranked, Rest(old, i)) /\ Before(ranked, Rest(new, j))
        /\ players = PlayersOf(ranked) \cup Rest(old, i) \cup Rest(new, j)

NumberInv ==
    pc = "number" => /\ n <= Len(ranked) + 1
                     /\ PlayersOf(ranked) = players
                     /\ NumberedTo(ranked, n - 1)

SettledInv ==
    pc \in {"ready", "index"} => /\ PlayersOf(ranked) = players
                                 /\ NumberedTo(ranked, Len(ranked))

CopyInv == pc = "ready" => /\ top = TopRows(ranked)
                           /\ threshold = ThresholdScore(ranked)
                           /\ index = IndexByID(ranked)

IInv == /\ TypeOK /\ SliceInv /\ FilterInv /\ MergeInv
        /\ NumberInv /\ SettledInv /\ CopyInv

(* The empty face.                                                         *)
LEMMA InitIInv ==
    ASSUME Init
    PROVE  IInv
<1> USE DEF Init
<1>1. << >> \in Seq(Entries) /\ Len(<< >>) = 0
  BY EmptySeq
<1>2. DOMAIN << >> = {}
  OBVIOUS
<1>3. TypeOK
  BY <1>1, <1>2 DEF TypeOK
<1>4. SliceInv
  <2>1. Roster({})
    BY FS_EmptySet DEF Roster, DistinctIds
  <2> QED  BY <1>2, <2>1 DEF SliceInv, Increasing
<1>5. SettledInv
  <2>1. PlayersOf(<< >>) = {}
    BY <1>2 DEF PlayersOf
  <2>2. NumberedTo(<< >>, 0)
    BY DEF NumberedTo
  <2> QED  BY <1>1, <2>1, <2>2 DEF SettledInv
<1>6. CopyInv
  <2>1. TopRows(<< >>) = << >>
    <3>1. TopRows(<< >>) = IF Len(<< >>) >= TopSize THEN SubSeq(<< >>, 1, TopSize) ELSE << >>
      BY DEF TopRows
    <3> QED  BY <1>1, <3>1, FaceAssumption DEF FaceAssumption
  <2>2. ThresholdScore(<< >>) = -1
    BY <1>1, FaceAssumption DEF FaceAssumption, ThresholdScore
  <2>3. IndexByID(<< >>) = << >>
    <3>1. {<< >>[k].player.id : k \in DOMAIN << >>} = {}
      BY <1>2
    <3>2. IndexByID(<< >>) = [id \in {} |-> CHOOSE k \in DOMAIN << >> : << >>[k].player.id = id]
      BY <3>1 DEF IndexByID
    <3> QED  BY <3>2
  <2> QED  BY <2>1, <2>2, <2>3 DEF CopyInv
<1> QED  BY <1>3, <1>4, <1>5, <1>6 DEF IInv, FilterInv, MergeInv, NumberInv

(* The players of the batch replace their former rows in the map; the      *)
(* filter has looked at nothing yet.                                       *)
LEMMA ApplyBatchStep ==
    ASSUME IInv, NEW batch \in Batches, ApplyBatch(batch)
    PROVE  IInv'
<1> USE DEF IInv, ApplyBatch
<1>1. /\ Roster(batch) /\ batch \subseteq Rows
      /\ Roster(Upserted(players, batch)) /\ Upserted(players, batch) \subseteq Rows
  BY FaceAssumption, BatchIsRoster DEF TypeOK, SliceInv
<1>2. new' \in Seq(Entries) /\ Increasing(new') /\ PlayersOf(new') = batch
  BY <1>1, SortAndNumberSettles
<1>3. << >> \in Seq(Entries) /\ DOMAIN << >> = {} /\ PlayersOf(<< >>) = {}
  BY EmptySeq DEF PlayersOf
<1>4. TypeOK'
  BY <1>1, <1>2, <1>3 DEF TypeOK
<1>5. SliceInv'
  BY <1>1, <1>2, <1>3 DEF SliceInv, Increasing
<1>6. FilterInv'
  <2>1. toRemove' = IdsOf(batch)
    BY <1>2 DEF toRemove, IdsOf, PlayersOf
  <2>2. Rest(ranked, 1) = players /\ Len(ranked) \in Nat
    BY RestStep, EntryAt DEF TypeOK, SettledInv
  <2>3. Upserted(players, batch) = {p \in players : p.id \notin IdsOf(batch)} \cup batch
    BY DEF Upserted
  <2> QED  BY <1>2, <1>3, <2>1, <2>2, <2>3 DEF FilterInv, Before
<1> QED  BY <1>4, <1>5, <1>6 DEF MergeInv, NumberInv, SettledInv, CopyInv

(* A full sort settles the slice at once.                                  *)
LEMMA RebuildStep ==
    ASSUME IInv, NEW batch \in Batches, Rebuild(batch)
    PROVE  IInv'
<1> USE DEF IInv, Rebuild
<1>1. /\ Roster(players') /\ players' \subseteq Rows
  BY FaceAssumption, BatchIsRoster DEF TypeOK, SliceInv
<1>2. /\ ranked' \in Seq(Entries) /\ Increasing(ranked')
      /\ PlayersOf(ranked') = players' /\ NumberedTo(ranked', Len(ranked'))
  BY <1>1, SortAndNumberSettles
<1>3. TypeOK'
  BY <1>1, <1>2 DEF TypeOK
<1>4. SliceInv'
  BY <1>1, <1>2 DEF SliceInv
<1>5. SettledInv'
  BY <1>2 DEF SettledInv
<1> QED  BY <1>3, <1>4, <1>5 DEF FilterInv, MergeInv, NumberInv, CopyInv

(* An entry that is kept goes to the end of the filtered slice.            *)
LEMMA FilterKeepStep ==
    ASSUME IInv, FilterKeep
    PROVE  IInv'
<1> USE DEF IInv, FilterKeep
<1>1. /\ ranked \in Seq(Entries) /\ old \in Seq(Entries) /\ i \in Nat \ {0}
      /\ Len(ranked) \in Nat /\ Increasing(ranked) /\ Increasing(old)
      /\ i \in 1 .. Len(ranked) /\ toRemove' = toRemove
  BY EntryAt DEF TypeOK, SliceInv, toRemove
<1>2. /\ Rest(ranked, i) = {ranked[i].player} \cup Rest(ranked, i + 1)
      /\ \A p \in Rest(ranked, i + 1) : less(ranked[i].player, p)
  BY <1>1, RestStep
<1>3. ranked[i] \in Entries /\ Before(old, Rest(ranked, i)) /\ Before(old, {ranked[i].player})
      /\ Before(old, Rest(ranked, i + 1))
  BY <1>1, <1>2, EntryAt DEF FilterInv, Before
<1>4. /\ old' \in Seq(Entries) /\ Increasing(old')
      /\ PlayersOf(old') = PlayersOf(old) \cup {ranked[i].player}
      /\ Before(old', Rest(ranked, i + 1))
  BY <1>1, <1>2, <1>3, AppendStep
<1>5. TypeOK'
  BY <1>1, <1>4 DEF TypeOK
<1>6. SliceInv'
  BY <1>1, <1>4 DEF SliceInv
<1>7. FilterInv'
  <2>1. i' <= Len(ranked') + 1
    BY <1>1
  <2>2. \A p \in PlayersOf(old)' : p.id \notin toRemove'
    BY <1>1, <1>4 DEF FilterInv
  <2>3. Before(old', Rest(ranked, i + 1)) /\ Rest(ranked, i)' = Rest(ranked, i + 1)
    BY <1>4 DEF Rest
  <2>4. players = PlayersOf(old) \cup {p \in Rest(ranked, i) : p.id \notin toRemove}
                                 \cup PlayersOf(new)
    BY DEF FilterInv
  <2>5. players' = PlayersOf(old') \cup {p \in Rest(ranked, i + 1) : p.id \notin toRemove}
                                   \cup PlayersOf(new')
    BY <1>2, <1>4, <2>4
  <2> QED  BY <1>1, <2>1, <2>2, <2>3, <2>5 DEF FilterInv, Before
<1> QED  BY <1>5, <1>6, <1>7 DEF MergeInv, NumberInv, SettledInv, CopyInv

(* An entry of the batch goes; its player is in the sorted batch.          *)
LEMMA FilterDropStep ==
    ASSUME IInv, FilterDrop
    PROVE  IInv'
<1> USE DEF IInv, FilterDrop
<1>1. /\ ranked \in Seq(Entries) /\ i \in Nat \ {0} /\ Increasing(ranked)
      /\ Len(ranked) \in Nat /\ i \in 1 .. Len(ranked) /\ toRemove' = toRemove
  BY EntryAt DEF TypeOK, SliceInv, toRemove
<1>2. Rest(ranked, i) = {ranked[i].player} \cup Rest(ranked, i + 1)
  BY <1>1, RestStep
<1>3. TypeOK'
  BY <1>1 DEF TypeOK
<1>4. SliceInv'
  BY <1>1 DEF SliceInv
<1>5. FilterInv'
  <2>1. i' <= Len(ranked') + 1
    BY <1>1
  <2>2. Before(old, Rest(ranked, i + 1)) /\ Rest(ranked, i)' = Rest(ranked, i + 1)
    BY <1>2 DEF FilterInv, Before, Rest
  <2>3. players = PlayersOf(old) \cup {p \in Rest(ranked, i) : p.id \notin toRemove}
                                 \cup PlayersOf(new)
    BY DEF FilterInv
  <2>4. players' = PlayersOf(old') \cup {p \in Rest(ranked, i + 1) : p.id \notin toRemove}
                                   \cup PlayersOf(new')
    BY <1>2, <2>3
  <2> QED  BY <1>1, <2>1, <2>2, <2>4 DEF FilterInv, Before
<1> QED  BY <1>3, <1>4, <1>5 DEF MergeInv, NumberInv, SettledInv, CopyInv

(* When the filter is through, slice and batch share no player.            *)
LEMMA FilteredStep ==
    ASSUME IInv, Filtered
    PROVE  IInv'
<1> USE DEF IInv, Filtered
<1>1. /\ ranked \in Seq(Entries) /\ old \in Seq(Entries) /\ new \in Seq(Entries)
      /\ i \in Nat \ {0} /\ j \in Nat \ {0} /\ Len(ranked) \in Nat /\ toRemove' = toRemove
      /\ Len(old) \in Nat /\ Len(new) \in Nat
  BY EntryAt DEF TypeOK, SliceInv, toRemove
<1>2. << >> \in Seq(Entries) /\ DOMAIN << >> = {} /\ PlayersOf(<< >>) = {}
  BY EmptySeq DEF PlayersOf
<1>3. Rest(ranked, i) = {} /\ Rest(old, 1) = PlayersOf(old) /\ Rest(new, 1) = PlayersOf(new)
  BY <1>1, RestStep
<1>4. TypeOK'
  BY <1>2 DEF TypeOK
<1>5. SliceInv'
  BY <1>1, <1>2 DEF SliceInv, Increasing
<1>6. players = PlayersOf(old) \cup PlayersOf(new) /\ j = 1
  BY <1>3 DEF FilterInv
<1>7. MergeInv'
  BY <1>1, <1>2, <1>3, <1>6 DEF FilterInv, MergeInv, Before
<1> QED  BY <1>4, <1>5, <1>7 DEF FilterInv, NumberInv, SettledInv, CopyInv


(* The entry of the slice is taken: it comes before the next of the batch, *)
(* and so before all of it.                                                *)
LEMMA TakeOldStep ==
    ASSUME IInv, TakeOld
    PROVE  IInv'
<1> USE DEF IInv, TakeOld
<1>1. /\ ranked \in Seq(Entries) /\ old \in Seq(Entries) /\ new \in Seq(Entries)
      /\ i \in Nat \ {0} /\ j \in Nat \ {0} /\ i \in 1 .. Len(old)
      /\ Increasing(ranked) /\ Increasing(old) /\ Increasing(new)
      /\ Len(old) \in Nat /\ Len(new) \in Nat /\ toRemove' = toRemove
  BY EntryAt DEF TypeOK, SliceInv, toRemove
<1>2. /\ Rest(old, i) = {old[i].player} \cup Rest(old, i + 1)
      /\ \A p \in Rest(old, i + 1) : less(old[i].player, p)
  BY <1>1, RestStep
<1>3. /\ old[i] \in Entries /\ old[i].player \in players
      /\ Before(ranked, Rest(old, i)) /\ Before(ranked, Rest(new, j))
      /\ Before(ranked, {old[i].player}) /\ Before(ranked, Rest(old, i + 1))
      /\ players = PlayersOf(ranked) \cup Rest(old, i) \cup Rest(new, j)
      /\ Roster(players)
  BY <1>1, <1>2, EntryAt DEF MergeInv, Before, SliceInv
<1>4. \A p \in Rest(new, j) : less(old[i].player, p)
  <2>1. CASE j > Len(new)
    BY <1>1, <2>1, RestStep
  <2>2. CASE j <= Len(new)
    <3>1. j \in 1 .. Len(new) /\ new[j].player \in Rows /\ old[i].player \in Rows
      BY <1>1, <2>2, EntryAt
    <3>2. less(old[i].player, new[j].player)
      BY <2>2, <3>1, FaceAssumption, RowsArePlayers, ComparisonsAgree
    <3>3. /\ Rest(new, j) = {new[j].player} \cup Rest(new, j + 1)
          /\ \A p \in Rest(new, j + 1) : less(new[j].player, p)
      BY <1>1, <3>1, RestStep
    <3>4. \A p \in Rest(new, j) : p \in players /\ new[j].player \in players
      BY <1>3, <3>3
    <3> QED  BY <1>3, <3>2, <3>3, <3>4, RosterOrder
  <2> QED  BY <1>1, <2>1, <2>2
<1>5. /\ ranked' \in Seq(Entries) /\ Increasing(ranked')
      /\ PlayersOf(ranked') = PlayersOf(ranked) \cup {old[i].player}
      /\ Before(ranked', Rest(old, i + 1)) /\ Before(ranked', Rest(new, j))
  BY <1>1, <1>2, <1>3, <1>4, AppendStep
<1>6. TypeOK'
  BY <1>1, <1>5 DEF TypeOK
<1>7. SliceInv'
  BY <1>1, <1>5 DEF SliceInv
<1>8. MergeInv'
  <2>1. i' <= Len(old') + 1 /\ j' <= Len(new') + 1
    BY <1>1 DEF MergeInv
  <2>2. \A p \in PlayersOf(old') : p.id \notin toRemove'
    BY <1>1 DEF MergeInv
  <2>3. players' = PlayersOf(ranked') \cup Rest(old, i + 1) \cup Rest(new, j)
    BY <1>2, <1>3, <1>5
  <2> QED  BY <1>5, <2>1, <2>2, <2>3 DEF MergeInv
<1> QED  BY <1>6, <1>7, <1>8 DEF FilterInv, NumberInv, SettledInv, CopyInv

(* The entry of the batch is taken: the next of the slice is not before    *)
(* it and not the same player, so all of the slice is behind it.           *)
LEMMA TakeNewStep ==
    ASSUME IInv, TakeNew
    PROVE  IInv'
<1> USE DEF IInv, TakeNew
<1>1. /\ ranked \in Seq(Entries) /\ old \in Seq(Entries) /\ new \in Seq(Entries)
      /\ i \in Nat \ {0} /\ j \in Nat \ {0} /\ j \in 1 .. Len(new)
      /\ Increasing(ranked) /\ Increasing(old) /\ Increasing(new)
      /\ Len(old) \in Nat /\ Len(new) \in Nat /\ toRemove' = toRemove
  BY EntryAt DEF TypeOK, SliceInv, toRemove
<1>2. /\ Rest(new, j) = {new[j].player} \cup Rest(new, j + 1)
      /\ \A p \in Rest(new, j + 1) : less(new[j].player, p)
  BY <1>1, RestStep
<1>3. /\ new[j] \in Entries /\ new[j].player \in players
      /\ Before(ranked, Rest(old, i)) /\ Before(ranked, Rest(new, j))
      /\ Before(ranked, {new[j].player}) /\ Before(ranked, Rest(new, j + 1))
      /\ players = PlayersOf(ranked) \cup Rest(old, i) \cup Rest(new, j)
      /\ Roster(players)
  BY <1>1, <1>2, EntryAt DEF MergeInv, Before, SliceInv
<1>4. \A p \in Rest(old, i) : less(new[j].player, p)
  <2>1. CASE i > Len(old)
    BY <1>1, <2>1, RestStep
  <2>2. CASE i <= Len(old)
    <3>1. /\ i \in 1 .. Len(old) /\ new[j].player \in Rows /\ old[i].player \in Rows
          /\ old[i].player \in PlayersOf(old)
      BY <1>1, <2>2, EntryAt
    <3>2. ~ less(old[i].player, new[j].player)
      BY <2>2, <3>1, FaceAssumption, RowsArePlayers, ComparisonsAgree
    <3>3. old[i].player # new[j].player
      <4>1. new[j].player.id \in toRemove
        BY <1>1, EntryAt DEF toRemove
      <4> QED  BY <3>1, <4>1 DEF MergeInv
    <3>4. /\ Rest(old, i) = {old[i].player} \cup Rest(old, i + 1)
          /\ \A p \in Rest(old, i + 1) : less(old[i].player, p)
      BY <1>1, <3>1, RestStep
    <3>5. \A p \in Rest(old, i) : p \in players /\ old[i].player \in players
      BY <1>3, <3>4
    <3>6. less(new[j].player, old[i].player)
      BY <1>3, <3>2, <3>3, <3>4, <3>5, RosterOrder
    <3>7. ASSUME NEW p \in Rest(old, i + 1) PROVE less(new[j].player, p)
      <4>1. /\ p \in players /\ old[i].player \in players /\ new[j].player \in players
            /\ less(old[i].player, p)
        BY <1>3, <3>4, <3>5
      <4>2. \A x, y, z \in players : less(x, y) /\ less(y, z) => less(x, z)
        BY <1>3, RosterOrder
      <4> QED  BY <3>6, <4>1, <4>2
    <3> QED  BY <3>4, <3>6, <3>7
  <2> QED  BY <1>1, <2>1, <2>2
<1>5. /\ ranked' \in Seq(Entries) /\ Increasing(ranked')
      /\ PlayersOf(ranked') = PlayersOf(ranked) \cup {new[j].player}
      /\ Before(ranked', Rest(old, i)) /\ Before(ranked', Rest(new, j + 1))
  BY <1>1, <1>2, <1>3, <1>4, AppendStep
<1>6. TypeOK'
  BY <1>1, <1>5 DEF TypeOK
<1>7. SliceInv'
  BY <1>1, <1>5 DEF SliceInv
<1>8. MergeInv'
  <2>1. i' <= Len(old') + 1 /\ j' <= Len(new') + 1
    BY <1>1 DEF MergeInv
  <2>2. \A p \in PlayersOf(old') : p.id \notin toRemove'
    BY <1>1 DEF MergeInv
  <2>3. players' = PlayersOf(ranked') \cup Rest(old, i) \cup Rest(new, j + 1)
    BY <1>2, <1>3, <1>5
  <2> QED  BY <1>5, <2>1, <2>2, <2>3 DEF MergeInv
<1> QED  BY <1>6, <1>7, <1>8 DEF FilterInv, NumberInv, SettledInv, CopyInv

(* Both inputs are used up: the result has all the players.                *)
LEMMA MergedStep ==
    ASSUME IInv, Merged
    PROVE  IInv'
<1> USE DEF IInv, Merged
<1>1. /\ ranked \in Seq(Entries) /\ old \in Seq(Entries) /\ new \in Seq(Entries)
      /\ i \in Nat /\ j \in Nat /\ Len(ranked) \in Nat
  BY EntryAt DEF TypeOK
<1>2. Rest(old, i) = {} /\ Rest(new, j) = {}
  BY <1>1, RestStep
<1>3. TypeOK'
  BY DEF TypeOK
<1>4. SliceInv'
  BY DEF SliceInv
<1>5. NumberInv'
  <2>1. PlayersOf(ranked) = players
    BY <1>2 DEF MergeInv
  <2>2. NumberedTo(ranked, 0)
    BY DEF NumberedTo
  <2> QED  BY <1>1, <2>1, <2>2 DEF NumberInv
<1> QED  BY <1>3, <1>4, <1>5 DEF FilterInv, MergeInv, SettledInv, CopyInv

(* Only a rank changes, and the rule holds for one entry more.             *)
LEMMA AssignRankStep ==
    ASSUME IInv, AssignRank
    PROVE  IInv'
<1> USE DEF IInv, AssignRank
<1>1. /\ ranked \in Seq(Entries) /\ Len(ranked) \in Nat /\ DOMAIN ranked = 1 .. Len(ranked)
      /\ n \in 1 .. Len(ranked) /\ n \in Nat \ {0}
      /\ NumberedTo(ranked, n - 1) /\ PlayersOf(ranked) = players
  BY EntryAt DEF TypeOK, SliceInv, NumberInv
<1>2. ranked' = Assigned(ranked, n)
  BY DEF sameRankCounts, RuleAt, Assigned
<1>4. /\ ranked' \in Seq(Entries) /\ Len(ranked') = Len(ranked)
      /\ \A k \in 1 .. Len(ranked) : ranked'[k].player = ranked[k].player
      /\ NumberedTo(ranked', n)
  <2> HIDE DEF IInv, AssignRank
  <2> QED  BY <1>1, <1>2, AssignStep
<1>5. DOMAIN ranked' = 1 .. Len(ranked)
  BY <1>4, EntryAt
<1>6. TypeOK'
  BY <1>1, <1>4 DEF TypeOK
<1>7. SliceInv'
  BY <1>1, <1>4, <1>5 DEF SliceInv, Increasing
<1>8. NumberInv'
  <2>1. PlayersOf(ranked') = PlayersOf(ranked)
    BY <1>1, <1>4, <1>5 DEF PlayersOf
  <2>2. n' - 1 = n /\ n' <= Len(ranked') + 1
    BY <1>1, <1>4
  <2> QED  BY <1>1, <1>4, <2>1, <2>2 DEF NumberInv
<1> QED  BY <1>6, <1>7, <1>8 DEF FilterInv, MergeInv, SettledInv, CopyInv

(* All entries have their ranks.                                           *)
LEMMA NumberedStep ==
    ASSUME IInv, Numbered
    PROVE  IInv'
<1> USE DEF IInv, Numbered
<1>1. Len(ranked) \in Nat /\ n \in Nat
  BY EntryAt DEF TypeOK
<1>2. n - 1 = Len(ranked)
  BY <1>1 DEF NumberInv
<1>3. SettledInv'
  BY <1>2 DEF SettledInv, NumberInv
<1> QED  BY <1>3 DEF TypeOK, SliceInv, FilterInv, MergeInv, NumberInv, CopyInv

(* The copy, the threshold and the index are taken from a settled slice.   *)
LEMMA UpdateStep ==
    ASSUME IInv, UpdateTop1000AndIndex
    PROVE  IInv'
<1> USE DEF IInv, UpdateTop1000AndIndex
<1>1. /\ ranked \in Seq(Entries) /\ Len(ranked) \in Nat /\ DOMAIN ranked = 1 .. Len(ranked)
      /\ \A k \in 1 .. Len(ranked) : /\ ranked[k] \in Entries /\ ranked[k].player \in Rows
                                     /\ ranked[k].rank \in Nat \ {0}
      /\ TopSize \in Nat \ {0}
  BY EntryAt, FaceAssumption DEF TypeOK, FaceAssumption
<1>2. top' \in Seq(Entries)
  <2>1. CASE Len(ranked) >= TopSize
    <3>1. \A k \in 1 .. TopSize : ranked[k] \in Entries
      BY <1>1, <2>1
    <3>2. SubSeq(ranked, 1, TopSize) \in Seq(Entries)
      BY <1>1, <3>1, SubSeqProperties
    <3> QED  BY <2>1, <3>2 DEF TopRows
  <2>2. CASE ~ (Len(ranked) >= TopSize)
    BY <1>1, <2>2 DEF TopRows
  <2> QED  BY <2>1, <2>2
<1>3. threshold' \in Int
  <2>1. CASE Len(ranked) >= TopSize
    <3>1. TopSize \in 1 .. Len(ranked)
      BY <1>1, <2>1
    <3>2. ranked[TopSize].player \in PlayerRecords
      BY <1>1, <3>1, FaceAssumption, RowsArePlayers
    <3> QED  BY <2>1, <3>2 DEF ThresholdScore, PlayerRecords
  <2>2. CASE ~ (Len(ranked) >= TopSize)
    BY <2>2 DEF ThresholdScore
  <2> QED  BY <2>1, <2>2
<1>4. DOMAIN index' \subseteq Ids /\ \A id \in DOMAIN index' : index'[id] \in Nat
  <2>1. DOMAIN index' = {ranked[k].player.id : k \in DOMAIN ranked}
    BY DEF IndexByID
  <2>2. DOMAIN index' \subseteq Ids
    BY <1>1, <2>1, FaceAssumption, RowsArePlayers
  <2>3. ASSUME NEW id \in DOMAIN index' PROVE index'[id] \in Nat
    <3>1. index'[id] = CHOOSE k \in DOMAIN ranked : ranked[k].player.id = id
      BY <2>1, <2>3 DEF IndexByID
    <3>2. \E k \in DOMAIN ranked : ranked[k].player.id = id
      BY <2>1
    <3>3. index'[id] \in 1 .. Len(ranked)
      BY <1>1, <3>1, <3>2
    <3> QED  BY <1>1, <3>3
  <2> QED  BY <2>2, <2>3
<1>5. << >> \in Seq(Entries) /\ DOMAIN << >> = {}
  BY EmptySeq
<1>6. TypeOK'
  BY <1>2, <1>3, <1>4, <1>5 DEF TypeOK
<1>7. SliceInv'
  BY <1>5 DEF SliceInv, Increasing
<1>8. SettledInv'
  BY DEF SettledInv
<1>9. CopyInv'
  BY DEF CopyInv
<1> QED  BY <1>6, <1>7, <1>8, <1>9 DEF FilterInv, MergeInv, NumberInv

(* Every step of an update preserves the invariant.                        *)
LEMMA StepIInv ==
    ASSUME IInv, [Next]_vars
    PROVE  IInv'
<1>1. ASSUME NEW batch \in Batches, ApplyBatch(batch) PROVE IInv'
  BY <1>1, ApplyBatchStep
<1>2. ASSUME NEW batch \in Batches, Rebuild(batch) PROVE IInv'
  BY <1>2, RebuildStep
<1>3. CASE LoopStep
  BY <1>3, FilterKeepStep, FilterDropStep, FilteredStep, TakeOldStep, TakeNewStep,
     MergedStep, AssignRankStep, NumberedStep, UpdateStep DEF LoopStep
<1>4. CASE UNCHANGED vars
  BY <1>4 DEF vars, IInv, TypeOK, SliceInv, FilterInv, MergeInv, NumberInv, SettledInv,
              CopyInv, toRemove
<1> QED  BY <1>1, <1>2, <1>3, <1>4 DEF Next

(* The invariant of the update of a face: the slice is in order at every   *)
(* step of the filter, the merge and the numbering, and no player is lost  *)
(* or taken twice between the slice, the batch and the result.             *)
THEOREM Invariant == Spec => []IInv
<1>1. Init => IInv
  BY InitIInv
<1>2. IInv /\ [Next]_vars => IInv'
  BY StepIInv
<1> QED  BY <1>1, <1>2, PTL DEF Spec

(* Every variable of the face has its type.                                *)
THEOREM TypeCorrect == Spec => []TypeOK
<1>1. IInv => TypeOK
  BY DEF IInv
<1> QED  BY <1>1, Invariant, PTL

(* Merging batches into the slice (applyBatchToFaceLocked) always gives,   *)
(* entry by entry and rank by rank, what sorting and ranking the whole map *)
(* again would give (rebuildFaceLocked): for any ids and counts, batches   *)
(* of any size and any number of updates.                                  *)
THEOREM MergedAsRebuilt == Spec => []MergeEqualsRebuild
<1>1. IInv => MergeEqualsRebuild
  <2> SUFFICES ASSUME IInv, pc \in {"ready", "index"}
               PROVE  ranked = SortAndNumber(players)
    BY DEF MergeEqualsRebuild
  <2> QED
    BY SettledIsSorted DEF IInv, TypeOK, SliceInv, SettledInv
<1> QED  BY <1>1, Invariant, PTL


-----------------------------------------------------------------------------
(* What a reader of the face sees *)

(* A face between two updates, by places.                                  *)
LEMMA ReadyFace ==
    ASSUME IInv, pc = "ready"
    PROVE  /\ ranked \in Seq(Entries) /\ Len(ranked) \in Nat /\ DOMAIN ranked = 1 .. Len(ranked)
           /\ players = {ranked[k].player : k \in 1 .. Len(ranked)}
           /\ \A k \in 1 .. Len(ranked) : /\ ranked[k].player \in players
                                          /\ ranked[k].player \in PlayerRecords
           /\ \A k, l \in 1 .. Len(ranked) : k < l => less(ranked[k].player, ranked[l].player)
           /\ Roster(players) /\ TopSize \in Nat \ {0}
           /\ top = TopRows(ranked) /\ threshold = ThresholdScore(ranked)
           /\ index = IndexByID(ranked)
<1>1. /\ ranked \in Seq(Entries) /\ PlayersOf(ranked) = players
      /\ Increasing(ranked) /\ Roster(players)
      /\ top = TopRows(ranked) /\ threshold = ThresholdScore(ranked)
      /\ index = IndexByID(ranked)
  BY DEF IInv, TypeOK, SliceInv, SettledInv, CopyInv
<1>2. /\ Len(ranked) \in Nat /\ DOMAIN ranked = 1 .. Len(ranked)
      /\ players = {ranked[k].player : k \in 1 .. Len(ranked)}
  BY <1>1, EntryAt
<1>3. \A k \in 1 .. Len(ranked) : ranked[k].player \in players /\ ranked[k].player \in PlayerRecords
  BY <1>1, <1>2 DEF Roster
<1> QED  BY <1>1, <1>2, <1>3, FaceAssumption DEF Increasing, FaceAssumption

(* Every player of the map can be looked up at its place in the slice, and *)
(* nobody else can: indexByID and the slice never tell different stories.  *)
THEOREM IndexIsExact == Spec => []IndexFindsAll
<1>1. ASSUME IInv PROVE IndexFindsAll
  <2> SUFFICES ASSUME pc = "ready"
               PROVE  /\ DOMAIN index = IdsOf(players)
                      /\ \A p \in players : ranked[index[p.id]].player = p
    BY DEF IndexFindsAll
  <2>1. /\ DOMAIN ranked = 1 .. Len(ranked) /\ index = IndexByID(ranked)
        /\ players = {ranked[k].player : k \in 1 .. Len(ranked)} /\ DistinctIds(players)
    BY <1>1, ReadyFace DEF Roster
  <2>2. DOMAIN index = {ranked[k].player.id : k \in DOMAIN ranked}
    BY <2>1 DEF IndexByID
  <2>3. DOMAIN index = IdsOf(players)
    BY <2>1, <2>2 DEF IdsOf
  <2>4. ASSUME NEW p \in players PROVE ranked[index[p.id]].player = p
    <3>1. p.id \in DOMAIN index /\ \E k \in DOMAIN ranked : ranked[k].player.id = p.id
      BY <2>1, <2>2
    <3>2. index[p.id] = CHOOSE k \in DOMAIN ranked : ranked[k].player.id = p.id
      BY <2>1, <2>2, <3>1 DEF IndexByID
    <3>3. index[p.id] \in DOMAIN ranked /\ ranked[index[p.id]].player.id = p.id
      BY <3>1, <3>2
    <3>4. ranked[index[p.id]].player \in players
      BY <2>1, <3>3
    <3> QED  BY <2>1, <3>3, <3>4 DEF DistinctIds
  <2> QED  BY <2>3, <2>4
<1> QED  BY <1>1, Invariant, PTL

(* Who comes before has no lower score.                                    *)
LEMMA LessScores ==
    ASSUME NEW p \in PlayerRecords, NEW q \in PlayerRecords, less(p, q)
    PROVE  p.score >= q.score
<1>1. shouldComeBefore(p, q)
  BY ComparisonsAgree
<1>2. p.score \in Int /\ q.score \in Int
  BY DEF PlayerRecords
<1> QED  BY <1>1, <1>2 DEF shouldComeBefore

(* The top copy, by places: full, or the whole slice.                      *)
LEMMA TopIs ==
    ASSUME IInv, pc = "ready"
    PROVE  /\ top \in Seq(Entries) /\ Len(top) \in Nat /\ DOMAIN top = 1 .. Len(top)
           /\ Len(top) <= Len(ranked)
           /\ Len(ranked) >= TopSize => Len(top) = TopSize
           /\ ~ (Len(ranked) >= TopSize) => top = ranked
           /\ \A k \in 1 .. Len(top) : top[k] = ranked[k]
           /\ top = SubSeq(ranked, 1, Len(top))
<1>1. /\ ranked \in Seq(Entries) /\ Len(ranked) \in Nat /\ TopSize \in Nat \ {0}
      /\ top = TopRows(ranked)
  BY ReadyFace
<1>2. CASE Len(ranked) >= TopSize
  <2>1. \A k \in 1 .. TopSize : ranked[k] \in Entries
    BY <1>1, <1>2, EntryAt
  <2>2. top = SubSeq(ranked, 1, TopSize)
    BY <1>1, <1>2 DEF TopRows
  <2>3. /\ top \in Seq(Entries) /\ Len(top) = TopSize
        /\ \A k \in 1 .. TopSize : top[k] = ranked[k]
    BY <1>1, <2>1, <2>2, SubSeqProperties
  <2> QED  BY <1>1, <1>2, <2>2, <2>3, LenProperties
<1>3. CASE ~ (Len(ranked) >= TopSize)
  <2>1. top = ranked
    BY <1>1, <1>3 DEF TopRows
  <2> QED  BY <1>1, <1>3, <2>1, LenProperties, SubSeqFull
<1> QED  BY <1>2, <1>3

(* The top-1000 copy is always what the slice begins with, and the         *)
(* threshold is the least score in it once it is full.                     *)
THEOREM TopIsPrefix == Spec => []TopFollowsRanked
<1>1. ASSUME IInv PROVE TopFollowsRanked
  <2> SUFFICES ASSUME pc = "ready"
               PROVE  /\ Len(top) <= TopSize
                      /\ top = SubSeq(ranked, 1, Len(top))
                      /\ Len(top) < TopSize => Len(top) = Len(ranked)
                      /\ Len(top) = TopSize =>
                            \E k \in DOMAIN top :
                               /\ top[k].player.score = threshold
                               /\ \A l \in DOMAIN top : top[l].player.score >= threshold
                      /\ Len(top) # TopSize => threshold = -1
    BY DEF TopFollowsRanked
  <2>1. /\ Len(ranked) \in Nat /\ TopSize \in Nat \ {0}
        /\ threshold = ThresholdScore(ranked)
        /\ \A k \in 1 .. Len(ranked) : ranked[k].player \in PlayerRecords
        /\ \A k, l \in 1 .. Len(ranked) : k < l => less(ranked[k].player, ranked[l].player)
    BY <1>1, ReadyFace
  <2>2. /\ Len(top) \in Nat /\ DOMAIN top = 1 .. Len(top)
        /\ Len(top) <= Len(ranked)
        /\ Len(ranked) >= TopSize => Len(top) = TopSize
        /\ ~ (Len(ranked) >= TopSize) => top = ranked
        /\ \A k \in 1 .. Len(top) : top[k] = ranked[k]
        /\ top = SubSeq(ranked, 1, Len(top))
    BY <1>1, TopIs
  <2>3. CASE Len(ranked) >= TopSize
    <3>1. /\ TopSize \in 1 .. Len(top) /\ TopSize \in 1 .. Len(ranked)
          /\ top[TopSize].player.score = threshold
      BY <2>1, <2>2, <2>3 DEF ThresholdScore
    <3>2. ASSUME NEW l \in 1 .. Len(top) PROVE top[l].player.score >= threshold
      <4>1. /\ l \in 1 .. Len(ranked) /\ top[l] = ranked[l] /\ top[TopSize] = ranked[TopSize]
            /\ l < TopSize \/ l = TopSize
        BY <2>1, <2>2, <2>3, <3>1
      <4>2. l < TopSize => ranked[l].player.score >= ranked[TopSize].player.score
        BY <2>1, <3>1, <4>1, LessScores
      <4>3. ranked[l].player.score \in Int
        BY <2>1, <4>1 DEF PlayerRecords
      <4> QED  BY <3>1, <4>1, <4>2, <4>3
    <3>3. \E k \in DOMAIN top : /\ top[k].player.score = threshold
                                /\ \A l \in DOMAIN top : top[l].player.score >= threshold
      BY <2>2, <3>1, <3>2
    <3>4. Len(top) = TopSize /\ top = SubSeq(ranked, 1, Len(top))
      BY <2>2, <2>3
    <3> QED  BY <2>1, <3>3, <3>4
  <2>4. CASE ~ (Len(ranked) >= TopSize)
    <3>0. Len(ranked) \in Nat /\ TopSize \in Nat /\ top = ranked
      BY <2>1, <2>2, <2>4
    <3>1. /\ Len(top) = Len(ranked) /\ Len(top) < TopSize /\ Len(top) # TopSize
          /\ Len(top) <= TopSize
      BY <2>4, <3>0
    <3>2. threshold = -1
      BY <2>1, <2>4 DEF ThresholdScore
    <3>3. top = SubSeq(ranked, 1, Len(top))
      BY <2>2
    <3> QED  BY <3>1, <3>2, <3>3
  <2> QED  BY <2>3, <2>4
<1> QED  BY <1>1, Invariant, PTL


-----------------------------------------------------------------------------
(* Competition ranks *)

(* Who comes between two players with the same counts has these counts.    *)
LEMMA SameRankBetween ==
    ASSUME NEW p \in PlayerRecords, NEW q \in PlayerRecords, NEW r \in PlayerRecords,
           less(p, q), less(q, r), sameRank(p, r)
    PROVE  sameRank(p, q) /\ sameRank(q, r)
<1>1. shouldComeBefore(p, q) /\ shouldComeBefore(q, r)
  BY ComparisonsAgree
<1>2. /\ p.score \in Int /\ p.platinum \in Int /\ p.gold \in Int
      /\ p.silver \in Int /\ p.bronze \in Int
      /\ q.score \in Int /\ q.platinum \in Int /\ q.gold \in Int
      /\ q.silver \in Int /\ q.bronze \in Int
      /\ r.score \in Int /\ r.platinum \in Int /\ r.gold \in Int
      /\ r.silver \in Int /\ r.bronze \in Int
  BY DEF PlayerRecords
<1> QED  BY <1>1, <1>2 DEF shouldComeBefore, sameRank

(* All the players of a run have the same counts.                          *)
LEMMA RunIsLevel ==
    ASSUME NEW f, NEW k \in Nat \ {0}, NEW l \in 1 .. k, Run(f, l, k), NEW x \in l .. k
    PROVE  sameRank(f[x], f[k])
<1> SUFFICES ASSUME ~ sameRank(f[x], f[k]) PROVE FALSE
  OBVIOUS
<1> DEFINE T == {d \in 0 .. k - l : ~ sameRank(f[k - d], f[k])}
<1>1. k - x \in 0 .. k - l /\ k - (k - x) = x
  OBVIOUS
<1>2. k - x \in T
  BY <1>1
<1>3. PICK d \in T : \A h \in T : d <= h
  <2>0. \A h \in 0 .. k - l : h \in Nat
    OBVIOUS
  <2>1. T \subseteq Nat /\ T # {}
    BY <1>2, <2>0
  <2> HIDE DEF T
  <2> QED  BY <2>1, LeastOf
<1>4. d # 0
  <2>1. k - 0 = k /\ sameRank(f[k], f[k])
    BY DEF sameRank
  <2> QED  BY <2>1
<1>5. d - 1 \in 0 .. k - l /\ ~ (d <= d - 1)
  BY <1>4
<1>6. sameRank(f[k - (d - 1)], f[k])
  BY <1>3, <1>5
<1>7. k - (d - 1) \in l + 1 .. k /\ k - (d - 1) - 1 = k - d
  BY <1>4
<1>8. sameRank(f[k - d], f[k - (d - 1)])
  BY <1>7 DEF Run
<1>9. sameRank(f[k - d], f[k])
  BY <1>6, <1>8 DEF sameRank
<1> QED  BY <1>9

(* A player's rank is one more than the number of players whose counts are *)
(* strictly better: ties share a rank and the next rank is skipped, for    *)
(* any number of players, although assignCompetitionRanks only ever        *)
(* compares an entry with the one before it.                               *)
THEOREM RankCountsTheBetter == Spec => []RanksAreCompetition
<1>1. ASSUME IInv PROVE RanksAreCompetition
  <2> SUFFICES ASSUME pc = "ready", NEW k \in DOMAIN ranked
               PROVE  ranked[k].rank = 1 + Cardinality({p \in players : Better(p, ranked[k].player)})
    BY DEF RanksAreCompetition
  <2> DEFINE f == [l \in 1 .. Len(ranked) |-> ranked[l].player]
             st == Start(f, k)
             q == ranked[k].player
  <2>1. /\ ranked \in Seq(Entries) /\ Len(ranked) \in Nat /\ DOMAIN ranked = 1 .. Len(ranked)
        /\ players = {ranked[l].player : l \in 1 .. Len(ranked)}
        /\ \A l \in 1 .. Len(ranked) : ranked[l].player \in PlayerRecords
        /\ \A l, m \in 1 .. Len(ranked) : l < m => less(ranked[l].player, ranked[m].player)
    BY <1>1, ReadyFace
  <2>2. /\ Increasing(ranked) /\ Roster(PlayersOf(ranked)) /\ NumberedTo(ranked, Len(ranked))
    BY <1>1 DEF IInv, SliceInv, SettledInv
  <2>3. k \in 1 .. Len(ranked) /\ k \in Nat \ {0}
    BY <2>1
  <2>4. \A l \in 1 .. Len(ranked) : f[l] = ranked[l].player
    OBVIOUS
  <2> HIDE DEF f
  <2>5. ranked[k].rank = st
    BY <2>1, <2>2, <2>3, <2>4, RanksAreStarts
  <2>6. /\ st \in 1 .. k /\ Run(f, st, k)
        /\ \A h \in 1 .. k : Run(f, h, k) => st <= h
    BY <2>3, StartIs
  <2> HIDE DEF st
  <2>7. st \in Nat /\ \A l \in 1 .. k : l \in 1 .. Len(ranked)
    BY <2>1, <2>3, <2>6
  <2>8. \A l \in st .. k : sameRank(ranked[l].player, q)
    <3>1. \A l \in st .. k : sameRank(f[l], f[k])
      BY <2>3, <2>6, RunIsLevel
    <3>2. \A l \in st .. k : l \in 1 .. Len(ranked)
      BY <2>6, <2>7
    <3> QED  BY <2>3, <2>4, <3>1, <3>2
  <2>9. ASSUME NEW l \in 1 .. st - 1, sameRank(ranked[l].player, q) PROVE FALSE
    <3>1. /\ l \in 1 .. k /\ l \in Nat /\ l < k /\ ~ (st <= l)
      BY <2>3, <2>6
    <3>2. ASSUME NEW x \in l .. k PROVE sameRank(ranked[x].player, q)
      <4>1. x \in 1 .. Len(ranked) /\ (x = l \/ x = k \/ (l < x /\ x < k))
        BY <2>1, <2>3, <3>1
      <4>2. CASE l < x /\ x < k
        <5>1. less(ranked[l].player, ranked[x].player) /\ less(ranked[x].player, q)
          BY <2>1, <2>3, <2>7, <3>1, <4>1, <4>2
        <5> QED  BY <2>1, <2>3, <2>7, <2>9, <3>1, <4>1, <5>1, SameRankBetween
      <4> QED  BY <2>9, <4>1, <4>2 DEF sameRank
    <3>3. Run(f, l, k)
      <4> SUFFICES ASSUME NEW x \in l + 1 .. k PROVE sameRank(f[x - 1], f[x])
        BY DEF Run
      <4>1. x \in l .. k /\ x - 1 \in l .. k /\ x \in 1 .. Len(ranked) /\ x - 1 \in 1 .. Len(ranked)
        BY <2>1, <2>3, <3>1
      <4>2. sameRank(ranked[x].player, q) /\ sameRank(ranked[x - 1].player, q)
        BY <3>2, <4>1
      <4> QED  BY <2>4, <4>1, <4>2 DEF sameRank
    <3> QED  BY <2>6, <3>1, <3>3
  <2>10. {p \in players : Better(p, q)} = {ranked[l].player : l \in 1 .. st - 1}
    <3>1. ASSUME NEW l \in 1 .. st - 1
          PROVE  ranked[l].player \in players /\ Better(ranked[l].player, q)
      <4>1. l \in 1 .. Len(ranked) /\ l < k
        BY <2>3, <2>6, <2>7
      <4> QED  BY <2>1, <2>3, <2>9, <4>1 DEF Better
    <3>2. ASSUME NEW p \in players, Better(p, q)
          PROVE  \E l \in 1 .. st - 1 : p = ranked[l].player
      <4>1. PICK l \in 1 .. Len(ranked) : p = ranked[l].player
        BY <2>1
      <4>2. ~ (k < l)
        <5>1. k < l => less(q, p)
          BY <2>1, <2>3, <4>1
        <5>2. ~ (less(q, p) /\ less(p, q))
          BY <2>1, <2>3, <4>1, StrictTotalOrder
        <5> QED  BY <3>2, <5>1, <5>2 DEF Better
      <4>3. l \notin st .. k
        BY <2>8, <3>2, <4>1 DEF Better
      <4>4. l \in 1 .. st - 1
        BY <2>3, <2>6, <2>7, <4>2, <4>3
      <4> QED  BY <4>1, <4>4
    <3> QED  BY <3>1, <3>2
  <2>11. Cardinality({ranked[l].player : l \in 1 .. st - 1}) = st - 1
    <3>1. st - 1 \in 0 .. Len(ranked)
      BY <2>1, <2>3, <2>6
    <3> QED  BY <2>1, <2>2, <3>1, PrefixSize
  <2>12. Cardinality({p \in players : Better(p, q)}) = st - 1
    <3> HIDE DEF q
    <3> QED  BY <2>10, <2>11
  <2>13. ranked[k].rank = 1 + Cardinality({p \in players : Better(p, q)})
    <3> HIDE DEF q
    <3> QED  BY <2>5, <2>7, <2>12
  <2> QED  BY <2>13
<1> QED  BY <1>1, Invariant, PTL

-----------------------------------------------------------------------------
(* Pages *)

(* The pages announced are the ones whose offset lies in the slice.        *)
LEMMA PageCount ==
    ASSUME NEW total \in Nat, NEW size \in Nat \ {0}, NEW page \in Nat \ {0}
    PROVE  /\ (page - 1) * size \in Nat
           /\ (page - 1) * size < total
                <=> page <= (IF total = 0 THEN 0 ELSE (total + size - 1) \div size)
<1>1. (page - 1) * size \in Nat /\ (page - 1) * size = page * size - size
  OBVIOUS
<1>2. CASE total = 0
  BY <1>1, <1>2
<1>3. CASE total # 0
  <2> DEFINE t == (total + size - 1) \div size
  <2>1. total + size - 1 \in Nat
    OBVIOUS
  <2>2. t \in Nat /\ t * size <= total + size - 1 /\ total + size - 1 < t * size + size
    BY <2>1
  <2> HIDE DEF t
  <2>3. page <= t => page * size <= t * size
    BY <2>2
  <2>4. t <= page - 1 => t * size <= (page - 1) * size
    BY <2>2
  <2>5. t * size \in Nat /\ page * size \in Nat
    BY <2>2
  <2>6. page <= t \/ t <= page - 1
    BY <2>2
  <2>7. page <= t => (page - 1) * size < total
    BY <1>1, <2>2, <2>3, <2>5
  <2>8. t <= page - 1 => ~ ((page - 1) * size < total)
    BY <1>1, <2>2, <2>4, <2>5
  <2>9. ~ (page <= t /\ t <= page - 1)
    BY <2>2
  <2> QED  BY <1>1, <1>3, <2>6, <2>7, <2>8, <2>9 DEF t
<1> QED  BY <1>2, <1>3

PagesAgreeAt(page, size) ==
    /\ FacePage(page, size) = Page(ranked, page, size)
    /\ FaceTotalPages(size) = TotalPages(Len(ranked), size)
    /\ page >= 1 => (FacePage(page, size) # << >> <=> page <= FaceTotalPages(size))

(* A page that the top copy covers is cut from the slice as well.          *)
LEMMA PageFromTop ==
    ASSUME IInv, pc = "ready", NEW o \in Nat, NEW e \in Nat, o < e,
           servedFromTop(e)
    PROVE  /\ ~ (o >= Len(top)) /\ ~ (o >= Len(ranked)) /\ ~ (e > Len(ranked)) /\ ~ (e > Len(top))
           /\ SubSeq(top, o + 1, e) = SubSeq(ranked, o + 1, e)
<1>1. /\ ranked \in Seq(Entries) /\ Len(ranked) \in Nat
  BY ReadyFace
<1>2. /\ top \in Seq(Entries) /\ Len(top) \in Nat /\ Len(top) <= Len(ranked)
      /\ \A k \in 1 .. Len(top) : top[k] = ranked[k]
  BY TopIs
<1>3. e <= Len(top)
  BY DEF servedFromTop
<1>4. \A k \in o + 1 .. e : k \in 1 .. Len(top) /\ k \in 1 .. Len(ranked)
  BY <1>1, <1>2, <1>3
<1>5. \A k \in o + 1 .. e : top[k] \in Entries /\ ranked[k] \in Entries
  BY <1>1, <1>2, <1>4, EntryAt
<1>6. o + 1 \in Int /\ e \in Int
  OBVIOUS
<1> DEFINE a == SubSeq(top, o + 1, e)
           b == SubSeq(ranked, o + 1, e)
<1>7. /\ a \in Seq(Entries)
      /\ Len(a) = IF o + 1 <= e THEN e - (o + 1) + 1 ELSE 0
      /\ \A k \in 1 .. e - (o + 1) + 1 : a[k] = top[o + 1 + k - 1]
  BY <1>5, <1>6, SubSeqProperties
<1>8. /\ b \in Seq(Entries)
      /\ Len(b) = IF o + 1 <= e THEN e - (o + 1) + 1 ELSE 0
      /\ \A k \in 1 .. e - (o + 1) + 1 : b[k] = ranked[o + 1 + k - 1]
  BY <1>5, <1>6, SubSeqProperties
<1> HIDE DEF a, b
<1>9. Len(a) = e - o /\ Len(b) = e - o /\ e - (o + 1) + 1 = e - o
  BY <1>7, <1>8
<1>10. \A k \in 1 .. e - o : o + 1 + k - 1 \in 1 .. Len(top)
  BY <1>2, <1>3
<1>11. \A k \in 1 .. Len(a) : a[k] = b[k]
  BY <1>2, <1>7, <1>8, <1>9, <1>10
<1>12. a = b
  BY <1>7, <1>8, <1>9, <1>11, SeqEqual
<1> QED  BY <1>1, <1>2, <1>3, <1>12 DEF a, b

(* For every page and page size, not only the ones of the run.             *)
LEMMA AnyPage ==
    ASSUME IInv, pc = "ready", NEW page \in Int, NEW size \in Nat \ {0}
    PROVE  PagesAgreeAt(page, size)
<1> DEFINE p == IF page < 1 THEN 1 ELSE page
           o == (p - 1) * size
           e == o + size
<1>1. p \in Nat \ {0} /\ (page >= 1 => p = page)
  OBVIOUS
<1> HIDE DEF p
<1>2. /\ o \in Nat /\ Len(ranked) \in Nat /\ Len(top) \in Nat
      /\ o < Len(ranked) <=> p <= (IF Len(ranked) = 0 THEN 0
                                   ELSE (Len(ranked) + size - 1) \div size)
  BY <1>1, PageCount, ReadyFace, TopIs
<1> HIDE DEF o
<1>3. e \in Nat /\ o < e
  BY <1>2
<1>4. FacePage(page, size) =
        LET from == IF servedFromTop(e) THEN top ELSE ranked
            last == IF e > Len(from) THEN Len(from) ELSE e
        IN  IF o >= Len(from) THEN << >> ELSE SubSeq(from, o + 1, last)
  BY DEF FacePage, o, p
<1>5. Page(ranked, page, size) =
        LET last == IF e > Len(ranked) THEN Len(ranked) ELSE e
        IN  IF o >= Len(ranked) THEN << >> ELSE SubSeq(ranked, o + 1, last)
  BY DEF Page, o, p
<1> HIDE DEF e
<1>6. FacePage(page, size) = Page(ranked, page, size)
  <2>1. CASE servedFromTop(e)
    <3>1. /\ ~ (o >= Len(top)) /\ ~ (o >= Len(ranked)) /\ ~ (e > Len(ranked)) /\ ~ (e > Len(top))
          /\ SubSeq(top, o + 1, e) = SubSeq(ranked, o + 1, e)
      BY <1>2, <1>3, <2>1, PageFromTop
    <3>2. FacePage(page, size) = SubSeq(top, o + 1, e)
      BY <1>4, <2>1, <3>1
    <3>3. Page(ranked, page, size) = SubSeq(ranked, o + 1, e)
      BY <1>5, <3>1
    <3> QED  BY <3>1, <3>2, <3>3
  <2>2. CASE ~ servedFromTop(e)
    BY <1>4, <1>5, <2>2
  <2> QED  BY <2>1, <2>2
<1>7. FaceTotalPages(size) = TotalPages(Len(ranked), size)
  BY DEF FaceTotalPages, TotalPages
<1>8. FaceTotalPages(size) = IF Len(ranked) = 0 THEN 0 ELSE (Len(ranked) + size - 1) \div size
  BY DEF FaceTotalPages
<1>9. Page(ranked, page, size) # << >> <=> o < Len(ranked)
  <2>1. CASE o >= Len(ranked)
    BY <1>2, <1>5, <2>1
  <2>2. CASE ~ (o >= Len(ranked))
    <3> DEFINE l == IF e > Len(ranked) THEN Len(ranked) ELSE e
    <3>1. l \in Nat /\ o + 1 <= l /\ l <= Len(ranked)
      BY <1>2, <1>3, <2>2
    <3>2. Page(ranked, page, size) = SubSeq(ranked, o + 1, l)
      BY <1>5, <2>2
    <3> HIDE DEF l
    <3>3. \A k \in o + 1 .. l : k \in 1 .. Len(ranked)
      BY <1>2, <3>1
    <3>4. \A k \in o + 1 .. l : ranked[k] \in Entries
      BY <3>3, ReadyFace, EntryAt
    <3>5. o + 1 \in Int /\ l \in Int
      BY <1>2, <3>1
    <3>6. Len(SubSeq(ranked, o + 1, l)) = IF o + 1 <= l THEN l - (o + 1) + 1 ELSE 0
      BY <3>4, <3>5, SubSeqProperties
    <3>7. Len(SubSeq(ranked, o + 1, l)) # 0
      BY <1>2, <3>1, <3>6
    <3>8. Len(<< >>) = 0
      OBVIOUS
    <3>9. SubSeq(ranked, o + 1, l) # << >>
      BY <3>7, <3>8
    <3>10. o < Len(ranked)
      BY <1>2, <2>2
    <3> QED  BY <3>2, <3>9, <3>10
  <2> QED  BY <2>1, <2>2
<1>10. page >= 1 => (o < Len(ranked) <=> page <= FaceTotalPages(size))
  BY <1>1, <1>2, <1>8
<1> QED  BY <1>6, <1>7, <1>9, <1>10 DEF PagesAgreeAt

(* Whatever page and page size a reader asks for, Leaderboard.Page and     *)
(* TotalPages answer as package rank would from the slice, and a page has  *)
(* rows exactly if it is one of the pages that are announced.              *)
THEOREM EveryPageAgrees ==
    Spec => [](pc = "ready" => \A page \in Int, size \in Nat \ {0} : PagesAgreeAt(page, size))
<1>1. IInv => (pc = "ready" => \A page \in Int, size \in Nat \ {0} : PagesAgreeAt(page, size))
  BY AnyPage
<1> QED  BY <1>1, Invariant, PTL

(* In particular for the pages that the run asks for: served from the top  *)
(* copy, from the slice, across the end of the copy, or past the last row. *)
THEOREM PagesAreRankPages == Spec => []PagesAgree
<1>1. ASSUME IInv PROVE PagesAgree
  <2> SUFFICES ASSUME pc = "ready",
                      NEW size \in 1 .. Len(ranked) + 1, NEW page \in 0 .. Len(ranked) + 2
               PROVE  PagesAgreeAt(page, size)
    BY DEF PagesAgree, PagesAgreeAt
  <2>1. Len(ranked) \in Nat
    BY <1>1, ReadyFace
  <2>2. size \in Nat \ {0} /\ page \in Int
    BY <2>1
  <2> QED  BY <1>1, <2>2, AnyPage
<1> QED  BY <1>1, Invariant, PTL

=============================================================================
