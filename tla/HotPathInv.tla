----------------------------- MODULE HotPathInv -----------------------------
(***************************************************************************)
(* The inductive invariant of HotPath: what each request and the flush     *)
(* function know about the table at each of their steps.  HotPathProofs    *)
(* proves it.                                                              *)
(***************************************************************************)
EXTENDS HotPath

(* A row that may go to the board: the table has held its contents, and    *)
(* its joined_at, where known, is the table's.                             *)
Genuine(k, p) == /\ store[k] # NoRow
                 /\ p.n \in committed[k]
                 /\ p.joined \in {0, store[k].joined}

(* The contents of a row are in the history of its player. *)
StoreInv == \A k \in Keys : store[k] # NoRow => store[k].n \in committed[k]

RequestInv ==
    \A r \in Requests :
        /\ rpc[r] = "select" => summary[r] # 0
        /\ rpc[r] \in {"insert", "readback"} => row[r] \in StoreRows
        /\ rpc[r] = "readback" => /\ store[rkey[r]] # NoRow
                                  /\ row[r].n \in committed[rkey[r]]
        /\ rpc[r] = "board" => row[r] \in BoardRows /\ Genuine(rkey[r], row[r])

FlushInv ==
    /\ wpc = "idle" => batch = {}
    /\ batch # {} => flushes # 0
    /\ \A k \in batch : /\ store[k] # NoRow
                        /\ MaxPsn + flushes \in committed[k]
                        /\ k \notin pending => rows[k] \in BoardRows /\ Genuine(k, rows[k])

(* Somebody is about to put the player on the board. *)
Coming(k) == \/ k \in batch
             \/ \E r \in Requests : rpc[r] \in {"readback", "board"} /\ rkey[r] = k

(* Who is on the board is in the table with what the board shows, and who  *)
(* is in the table is on the board or about to be.                         *)
BoardInv ==
    \A k \in Keys : /\ mem[k] # NoRow => Genuine(k, mem[k])
                    /\ store[k] # NoRow => mem[k] # NoRow \/ Coming(k)

IInv == TypeOK /\ StoreInv /\ RequestInv /\ FlushInv /\ BoardInv

=============================================================================
