----------------------------- MODULE BoardReads -----------------------------
(***************************************************************************)
(* The HTTP requests that read the memory board, on top of MemRank: one    *)
(* answer takes two or three queries, each with a load of the pointer and  *)
(* a read lock of its own, while the sealing worker and other requests     *)
(* write.  Loading the board is over when the server starts to listen.     *)
(*                                                                         *)
(* A page is reduced to the number of its rows.  /me is a search for the   *)
(* name in the cookie; the page an error message is shown on is page 1.    *)
(***************************************************************************)
EXTENDS MemRank, FiniteSets

CONSTANTS PageSize,     \* rows per page
          MaxPage       \* bound on the page asked for

(* Ids are finitely many: 3 to 16 characters of a fixed alphabet. *)
ASSUME BoardReadsAssumption == /\ PageSize \in Nat \ {0}
                               /\ MaxPage \in Nat \ {0}
                               /\ IsFiniteSet(Keys)

VARIABLES
    op,         \* op[r]: the query request r is at, "none" if r is not running
    req,        \* req[r]: what was asked for
    notes,      \* notes[r]: what Count and TotalPages returned
    peeked      \* history: peeked[r]: a query of r saw a board not switched in yet

requestVars == <<op, req, notes, peeked>>
allVars == <<vars, requestVars>>

Joiners == Writers \cap Readers         \* goroutines of /join
Workers == Writers \ Readers            \* the sealing worker

Queries == {"count", "pages", "page", "get", "index"}
Pages == 1 .. MaxPage
Requests == [kind : {"home", "api"}, key : {None}, page : Pages]
            \cup [kind : {"search", "join"}, key : Keys, page : {1}]
NoRequest == [kind |-> "none", key |-> None, page |-> 1]
HomePage == [kind |-> "home", key |-> None, page |-> 1]
NoNotes == [total |-> 0, pages |-> 0]

(* The board has been loaded from the store: both faces show it. *)
InitBoard ==
    /\ \E b \in Boards : /\ players = b
                         /\ ranked = [f \in Faces |-> b]
                         /\ index = [f \in Faces |-> b]
                         /\ hist = <<b>>
    /\ read = 0 /\ visible = 1
    /\ writerMu = None
    /\ wlock = [f \in Faces |-> None]
    /\ wpc = [w \in Writers |-> "idle"]
    /\ kind = [w \in Writers |-> "none"]
    /\ arg = [w \in Writers |-> EmptyBoard]
    /\ tgt = [w \in Writers |-> 0]
    /\ round = [w \in Writers |-> 0]
    /\ rpc = [r \in Readers |-> "idle"]
    /\ ptr = [r \in Readers |-> 0]
    /\ got = [r \in Readers |-> EmptyBoard]
    /\ start = [r \in Readers |-> 1]

InitReads ==
    /\ InitBoard
    /\ op = [r \in Readers |-> "none"]
    /\ req = [r \in Readers |-> NoRequest]
    /\ notes = [r \in Readers |-> NoNotes]
    /\ peeked = [r \in Readers |-> FALSE]

-----------------------------------------------------------------------------
(* Requests *)

(* Writes that have been asked for stay within the bound on writes. *)
Waiting == {r \in Joiners : op[r] = "upsert" /\ wpc[r] = "idle"}
Room == Len(hist) + Cardinality(Waiting) <= MaxWrites

FirstOp == [home |-> "count", api |-> "count", search |-> "get", join |-> "upsert"]

Arrive(r, q) ==
    /\ op[r] = "none"
    /\ q.kind = "join" => r \in Joiners /\ Room
    /\ req' = [req EXCEPT ![r] = q]
    /\ op' = [op EXCEPT ![r] = FirstOp[q.kind]]
    /\ UNCHANGED <<vars, notes, peeked>>

(* /join: the board is written before the player's page is looked up. *)
JoinUpsert(r) ==
    /\ r \in Waiting
    /\ \E a \in Singletons : /\ a[req[r].key] # None
                             /\ Begin(r, "upsert", a, OtherFace(read))
    /\ UNCHANGED requestVars

JoinWritten(r) ==
    /\ op[r] = "upsert"
    /\ Return(r)
    /\ op' = [op EXCEPT ![r] = "index"]
    /\ UNCHANGED <<req, notes, peeked>>

(* withReadFace, up to the read lock. *)
StartQuery(r) ==
    /\ op[r] \in Queries
    /\ LoadPtr(r) \/ RLock(r)
    /\ UNCHANGED requestVars

Total(board) == Cardinality({k \in Keys : board[k] # None})
TotalPages(board) == (Total(board) + PageSize - 1) \div PageSize
RowsOnPage(board, page) ==
    {n \in 1 .. PageSize : (page - 1) * PageSize + n <= Total(board)}

(* The face was filled by a writer that has not switched it in. *)
Unpublished(board) == /\ visible < Len(hist)
                      /\ board = hist[Len(hist)]
                      /\ board # hist[visible]

(* Variant: the handler goes on without giving the read lock back. *)
AnsweredKeepsLock(r, next) ==
    /\ rpc[r] = "locked"
    /\ op' = [op EXCEPT ![r] = next]
    /\ IF next = "none"
       THEN /\ req' = [req EXCEPT ![r] = NoRequest]
            /\ notes' = [notes EXCEPT ![r] = NoNotes]
            /\ peeked' = [peeked EXCEPT ![r] = FALSE]
       ELSE peeked' = [peeked EXCEPT ![r] = @ \/ Unpublished(got[r])]
    /\ UNCHANGED vars

(* The query is answered; next is the handler's next query. *)
Answered(r, next) ==
    /\ RUnlock(r)
    /\ op' = [op EXCEPT ![r] = next]
    /\ IF next = "none"
       THEN /\ req' = [req EXCEPT ![r] = NoRequest]
            /\ notes' = [notes EXCEPT ![r] = NoNotes]
            /\ peeked' = [peeked EXCEPT ![r] = FALSE]
       ELSE peeked' = [peeked EXCEPT ![r] = @ \/ Unpublished(got[r])]

(* Without players, the home page says so; the API asks on. *)
Count(r) ==
    LET total == Total(ranked[ptr[r]])
        done == req[r].kind = "home" /\ total = 0
    IN  /\ op[r] = "count"
        /\ Answered(r, IF done THEN "none" ELSE "pages")
        /\ ~done => /\ notes' = [notes EXCEPT ![r].total = total]
                    /\ UNCHANGED req

(* A page beyond the last is refused: by the API also when there is none,  *)
(* by the home page only when there is one.                                *)
NoSuchPage(r, pages) ==
    IF req[r].kind = "api" THEN notes[r].total = 0 \/ req[r].page > pages
                           ELSE pages > 0 /\ req[r].page > pages

CountPages(r) ==
    LET pages == TotalPages(ranked[ptr[r]])
    IN  /\ op[r] = "pages"
        /\ Answered(r, IF NoSuchPage(r, pages) THEN "none" ELSE "page")
        /\ ~NoSuchPage(r, pages) => /\ notes' = [notes EXCEPT ![r].pages = pages]
                                    /\ UNCHANGED req

ReadPage(r) == op[r] = "page" /\ Answered(r, "none")

(* Who is not found gets the first page with a message. *)
Get(r) ==
    LET found == got[r][req[r].key] # None
    IN  /\ op[r] = "get"
        /\ Answered(r, IF found THEN "index" ELSE "count")
        /\ req' = IF found THEN req ELSE [req EXCEPT ![r] = HomePage]
        /\ UNCHANGED notes

(* findPlayerPage, and the redirect. *)
IndexOf(r) == op[r] = "index" /\ Answered(r, "none")

EndQuery(r) == Count(r) \/ CountPages(r) \/ ReadPage(r) \/ Get(r) \/ IndexOf(r)

-----------------------------------------------------------------------------
(* The worker, and the steps of a write that MemRank describes *)

Flush(w) ==
    /\ w \in Workers
    /\ Room
    /\ UpsertBatch(w)
    /\ UNCHANGED requestVars

WriteStep(w) ==
    /\ \/ LockFace(w) \/ FillRanked(w) \/ FillIndex(w) \/ Swap(w)
       \/ w \in Workers /\ Return(w)
    /\ UNCHANGED requestVars

RequestStep(r) == StartQuery(r) \/ EndQuery(r) \/ (r \in Joiners /\ JoinWritten(r))

NextReads ==
    \/ \E r \in Readers : \/ \E q \in Requests : Arrive(r, q)
                          \/ JoinUpsert(r)
                          \/ RequestStep(r)
    \/ \E w \in Writers : Flush(w) \/ WriteStep(w)

SpecReads == InitReads /\ [][NextReads]_allVars

(* Requests and writes that have begun go on.  sync.Mutex hands itself to  *)
(* a goroutine that has waited for a millisecond.                          *)
FairSpecReads ==
    /\ SpecReads
    /\ \A w \in Writers : WF_allVars(WriteStep(w))
    /\ \A r \in Readers : WF_allVars(RequestStep(r)) /\ SF_allVars(JoinUpsert(r))

-----------------------------------------------------------------------------
(* Type invariant of what this module adds; a handler that holds or awaits *)
(* a read lock has one of its queries to answer.                           *)
ReadsTypeOK ==
    /\ op \in [Readers -> {"none", "upsert"} \cup Queries]
    /\ req \in [Readers -> Requests \cup {NoRequest}]
    /\ notes \in [Readers -> [total : 0 .. Cardinality(Keys), pages : 0 .. Cardinality(Keys)]]
    /\ peeked \in [Readers -> BOOLEAN]
    /\ \A r \in Readers : /\ rpc[r] # "idle" => op[r] \in Queries
                          /\ op[r] = "none" <=> req[r] = NoRequest

(* The redirect of /join leads to the page of the player that has joined:  *)
(* whatever else is written meanwhile, the look-up that follows the write  *)
(* finds the player.                                                       *)
JoinFindsItself ==
    \A r \in Readers :
        op[r] = "index" /\ rpc[r] = "locked" /\ req[r].kind = "join"
            => got[r][req[r].key] # None

(* The queries of one answer fit together although each is made on a       *)
(* snapshot of its own: a page that was announced has rows, and a player   *)
(* that was found is found again.  The exception is a query that is served *)
(* by a face which is filled but not published yet: the next one may be    *)
(* older.                                                                  *)
AnswerFits ==
    \A r \in Readers : rpc[r] = "locked" /\ ~peeked[r] =>
        /\ op[r] = "page" => RowsOnPage(ranked[ptr[r]], req[r].page) # {}
        /\ op[r] = "index" => got[r][req[r].key] # None

(* PRD: a search for a listed player leads to the page the player is on.   *)
SearchFindsPage ==
    \A r \in Readers :
        op[r] = "index" /\ rpc[r] = "locked" /\ req[r].kind = "search"
            => got[r][req[r].key] # None

(* Every request is answered, and every write that has begun returns,      *)
(* although readers and writers keep coming.                               *)
RequestsAnswered ==
    /\ \A r \in Readers : op[r] # "none" ~> op[r] = "none"
    /\ \A w \in Writers : wpc[w] # "idle" ~> wpc[w] = "idle"

=============================================================================
