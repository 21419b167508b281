----------------------------- MODULE MemRankInv -----------------------------
(***************************************************************************)
(* The inductive invariant of MemRank: who holds which lock, where a       *)
(* writer is in its two rounds, and which of the last two versions of the  *)
(* board each face shows.  MemRankProofs proves it.                        *)
(***************************************************************************)
EXTENDS MemRank

(* Only the holder of writerMu is inside a write call, and it holds a      *)
(* face's lock exactly while it fills that face.                           *)
MutexInv ==
    /\ \A w \in Writers : wpc[w] # "idle" <=> writerMu = w
    /\ \A w \in Writers, f \in Faces :
          wlock[f] = w <=> wpc[w] \in {"fill", "index"} /\ tgt[w] = f

(* Where a call is: Load fills face 0 then 1, the others the dark face and *)
(* then the face they have just switched away from.                        *)
RoundInv ==
    \A w \in Writers : wpc[w] # "idle" =>
        /\ kind[w] # "none"
        /\ round[w] \in {1, 2}
        /\ kind[w] = "load" => /\ tgt[w] = round[w] - 1
                               /\ wpc[w] \in {"publish", "return"} => round[w] = 2
        /\ kind[w] # "load" => /\ tgt[w] # read
                               /\ wpc[w] = "publish" => round[w] = 1
                               /\ wpc[w] = "return" => round[w] = 2

(* A face's index matches its slice unless its writer is between the two. *)
IndexInv ==
    \A f \in Faces : \/ index[f] = ranked[f]
                     \/ \E w \in Writers : wpc[w] = "index" /\ tgt[w] = f

(* Readers are in a face only while its index and slice agree.             *)
ReaderInv ==
    /\ \A r \in Readers, w \in Writers :
          rpc[r] = "locked" /\ wpc[w] = "index" => tgt[w] # ptr[r]
    /\ CoherentReads

(* The faces the call of w has already brought up to date. *)
Filled(w, f) == \/ wpc[w] = "return"
                \/ wpc[w] \in {"index", "publish"} /\ f = tgt[w]
                \/ round[w] = 2 /\ f # tgt[w]

Last == hist[Len(hist)]
Previous == hist[Len(hist) - 1]

(* Every face shows the last version of the board, except the ones a call  *)
(* in progress has not filled yet, which show the one before.              *)
ContentInv ==
    /\ Len(hist) >= 1
    /\ players = Last
    /\ writerMu = None => \A f \in Faces : ranked[f] = Last
    /\ \A w \in Writers : wpc[w] # "idle" =>
          /\ Len(hist) >= 2
          /\ \A f \in Faces : ranked[f] = IF Filled(w, f) THEN Last ELSE Previous
          /\ Last = IF kind[w] = "load" THEN arg[w] ELSE Overlay(Previous, arg[w])

(* Nobody was promised the last version before it was switched in, and a   *)
(* reader that was promised it does not hold a pointer to a lagging face.  *)
PromiseInv ==
    /\ visible \in 1 .. Len(hist)
    /\ \A r \in Readers : start[r] \in 1 .. visible
    /\ \A w \in Writers :
          /\ wpc[w] # "idle"
          /\ IF kind[w] = "load" THEN wpc[w] # "return" ELSE round[w] = 1
          => visible < Len(hist)
    /\ \A w \in Writers, r \in Readers :
          wpc[w] # "idle" /\ ~Filled(w, ptr[r]) /\ rpc[r] # "idle" => start[r] < Len(hist)

(* A reader that holds the pointer of the other face has seen a switch.    *)
StaleInv ==
    \A r \in Readers : rpc[r] # "idle" /\ ptr[r] # read => start[r] < visible

IInv == /\ TypeOK
        /\ MutexInv
        /\ RoundInv
        /\ IndexInv
        /\ ReaderInv
        /\ ContentInv
        /\ PromiseInv
        /\ StaleInv

=============================================================================
