# A TLA+ model of ps-trophy-ranking

ps-trophy-ranking is one Go process that keeps a leaderboard of PlayStation trophies: players in a SQLite table,
the whole ranking in memory, and a sharded write-ahead log for bulk input. These modules model the parts of it that
keep state, check them with TLC on small instances, and prove the most important results for all instances with
TLAPS. Paths below are relative to the repository.

## 1. Inventory

| Component | State | Operations | Modelled in |
|---|---|---|---|
| `internal/rank` | none | score, sort order, competition ranks, pages | `RankOrder` |
| `internal/memrank`, one face | sorted slice, top-1000 copy, threshold, index | merge a batch, rebuild, `Page`, `TotalPages` | `FaceUpdate` |
| `internal/memrank`, concurrency | authoritative map, two faces with an RWMutex each, read pointer, writer mutex | `Load`, `Upsert`, `UpsertBatch`, any read | `MemRank` |
| `internal/wal` | shard files, sealed segments, handles, sequence counter | `Append`, the sealing worker, `ReplaySealed` | `Wal`, `Inbox` |
| `internal/player` | the `players` table | `Upsert`, `UpsertBatch`, `Get`, `ListAll` | `HotPath`, `Wal` |
| `internal/http`, `/join` and `/refresh` | locals of each request | cooldown check, lookup, upsert, read-back, board update | `HotPath`, `HotSync` |
| `internal/http`, `/admin/seed` | - | a loop of `Append` | `Wal` (each `Append`) |
| `internal/http`, reads | locals of each request | `/`, `/api/leaderboard`, `/search`, `/me`, error pages, the look-up after `/join` | `BoardReads` |
| `internal/psn`, `internal/trophy` | access token, its expiry and refresh token under a mutex | `Lookup`: token, account, trophies | `PsnClient`; one step of `HotPath` |
| `cmd/server` | - | start-up order, flush function | `Wal`, `HotPath` |
| `internal/config`, `cmd/psnlookup`, `web` | none | environment, a one-shot CLI, templates | not modelled |

How they interact. Two paths write. The *hot path* (`handleJoin`, `handleRefresh`) asks Sony for a player's trophies,
writes the table with `store.Upsert`, reads the row back and hands it to `memrank.Upsert`. The *cold path*
(`handleAdminSeed`) appends events to shard files; the sealing worker renames a shard file, reads it without a lock,
commits it with `store.UpsertBatch`, reads every row back, hands the rows to `memrank.UpsertBatch` and removes the
file. At start-up the board is loaded from the table and the segments left over are replayed. Every read of the
leaderboard goes to memory, most answers in two or three queries with a snapshot each. Lookups at Sony share one cached
token and hold its mutex while it is fetched. `memrank` is reached by all of them at once; its protocol is Left-Right: fill the face
nobody is directed to, switch the pointer, fill the other one.

What is hard: readers that pause between loading the pointer and locking the face; two faces that must stay equal
although each is updated from its own slice; handlers that run statement by statement with no lock around them; a
log whose segments survive crashes, failed flushes and failed removals and are then replayed; names with a
resolution of one second and counters that restart with the process; answers put together from several snapshots;
a token whose expiry is known only roughly, which Sony may revoke, and calls that time out at every step. Section 6 lists what the model found there.

What makes each component correct, in a sentence: the board gives every reader one whole, recent version and its
writers atomic writes; a face is what sorting everything again would give; the log loses nothing it accepted and
never moves a player backwards; the board lists who is stored, and shows what the table holds; the queries of one
answer fit together; a lookup returns, with a token that is good if one can be had, and its error says what is wrong.

## 2. Modules

| Module | Contents |
|---|---|
| `AtomicBoard` | abstract specification: one board, writes take effect in one step |
| `MemRank` | the two-face protocol and its properties; refinement mapping to `AtomicBoard` |
| `MemRankInv`, `MemRankProofs` | its inductive invariant; the proofs |
| `BoardReads`, `BoardReadsProofs` | the HTTP requests that read the board, composed with `MemRank`; proofs |
| `RankOrder` | package `rank` as operators |
| `FaceUpdate`, `FaceUpdateProofs` | one update of one face, loop iteration by loop iteration; proofs about the order, the sort, the merge and the pages |
| `Inbox` | abstract specification of the cold path: accepted players are owed, then delivered |
| `Wal` | append, seal, flush, remove, replay, crashes, I/O failures; refinement mapping to `Inbox` |
| `WalProofs`, `WalOrderProofs` | proofs: nothing is lost, and the refinement; then the order in which events reach the table |
| `HotPath`, `HotPathInv`, `HotPathProofs` | requests, table, board, the worker's flush function; invariant; proofs |
| `HotSync`, `HotSyncProofs` | `HotPath` with a record of which syncs crossed; proofs |
| `PsnClient`, `PsnClientProofs` | lookups over the shared token cache; proofs |
| `MCMemRank`, `MCBoardReads`, `MCFaceUpdate`, `MCWal`, `MCHotPath`, `MCPsnClient` | instances for TLC: symmetry, trophy counts, shard maps |

Some definitions are preceded by a "variant": the same definition with a plausible mistake. No specification uses
them; each property was tried against one and fails with it.

### MemRank

`players` is the authoritative map; `ranked[f]` and `index[f]` are what slice and index of face `f` show, as boards
(player to row) - order and ranks inside a face are `FaceUpdate`'s subject. A writer's call is `Begin` (take `writerMu`,
update the map), then for each of its two faces `LockFace`, `FillRanked`, `FillIndex`, with `Swap` between the faces
(`Upsert`, `UpsertBatch`) or `StoreRead` after both (`Load`), and `Return`. `FillRanked` merges the batch into the face's
*own* slice for `UpsertBatch` and rebuilds from the map otherwise, as the code does. A read is `LoadPtr`, `RLock`
(with the index lookup), `RUnlock` (with the access to the slice). `sync.RWMutex` is modelled by what it
does: an announced writer holds up new readers, waits for those inside, and lets in all that waited when it unlocks.
`hist`, `visible` and `start` are history variables for `VisibleAfterSwitch`.

Left out: `UpsertBatch` takes a read lock on the current face to log its length (memrank.go:125-129), and
`logMemoryEstimate` likewise. The caller holds `writerMu`, so nobody can hold those faces' write locks.

### BoardReads

`BoardReads` extends `MemRank` and uses its actions for every step inside `memrank`; it adds which query a request is at
(`op`), what was asked for (`req`) and what the earlier queries returned (`notes`). `/` is `Count`, `CountPages`, `ReadPage`, with
the handler's early returns; the API differs in them. `/search` and `/me` are `Get` and `IndexOf`, or the first page with a
message. `/join` is `JoinUpsert`, `JoinWritten` (the board is updated) and `IndexOf`. A page is reduced to the number of its rows, a row to
whom it belongs. `Flush` is the worker's `UpsertBatch`. The board has been loaded: `Load` is over before the server listens
(server.go:80-90), so `Load` and `StoreRead` are not among the steps. `peeked` is a history variable: a query of this request was served by a
face that is filled and not published. The writes of `/refresh` are those of `/join`;
its redirect goes to the page of the form and looks nothing up (server.go:483-491).

### FaceUpdate and RankOrder

`ApplyBatch` sorts the batch, `FilterKeep` and `FilterDrop` are the iterations of the loop that takes its players out of the slice
(`toRemove`), `TakeOld` and `TakeNew` those of `mergeSorted`, `AssignRank` those of `assignCompetitionRanks`, `UpdateTop1000AndIndex` the rest; `Rebuild` is the other way
to fill a face. `shouldComeBefore` (memrank) and `less` (rank) are two pieces of code for one order and are
translated separately. memrank copies `Score` as it is given it (memrank.go:300); `RowOf` computes it from the counts because whoever builds
a row has set it with `rank.Score` (server.go:341, 451, 739), and table and log return what they were given. Online ids are integers with the order that lower-cased ids have as strings. Batches hold a player at most
once: `readSealed` deduplicates, the other callers pass one.

### Wal

An event is a player, its `Seq` and the number `n` of its `Append` call, which stands for `EventTS` and for what the
event carries; `store` and `mem` hold the `n` they show. `Append` is two steps, `TakeSeq` and `WriteLine` (the mutex is
taken between them). Sealing a shard is one step, under the shard's mutex as in the code, with one action per
outcome: `SealEmpty`, `SealStatFails`, `SealRecreate`, `SealRenameFails`, `SealRename` (which may fail to create the new file).
`ReadSealed`, `FlushChunk` (one transaction), `UpdateMemory`, `Remove` and `GiveUp` are the rest of `sealAndFlush` and,
the code being the same, of the replay, which is `Start`, `ReplayNext`, `ReplayDone`. `handle` tells an open shard file from one whose handle was lost.

A crash ends the process at any step; files and committed transactions stay (the operating system does not
crash, so its page cache is not lost). A short write leaves a `Torn` line. `Seq` and `EventTS` are drawn in one step: the
code draws them some instructions apart, which would only add disagreement between them. When reading a row back fails
the flush function falls back on the event, which has the same `n`. `Stop` and `Close` are absent because the server never reaches
them: it is killed, or leaves through `os.Exit`, which runs no deferred call.

`FreshStamps` is a precondition, not a fact about the code: no shard is sealed in a second for which it still has a
segment. Nothing in the code gives it: the default seal interval is 100 ms (config.go:28), and a longer one is no help after a slow round,
because the ticker (wal.go:145-157) keeps a tick and the next round follows at once; the first round after a start may also fall into the second of a segment that was left over.
`wal_overwrite` shows what happens without it, the runs that depend on it say so.

`Inbox` says what whoever appends may rely on: a player is owed once accepted, and delivered to the table later. The mapping
(`Owed` in `Wal`) takes a player for owed who is in a live file or a segment and not in the table; `NothingLost` is the refinement.
A crash, a seal, a failure and a removal must be stutters of it, a transaction of the flush is `Deliver`. Delivered means stored: which of
several events of a player is stored is not `Inbox`'s subject but that of `NewestUntilRestart` and `MonotoneUntilFailure`.

### HotPath

A row is what it shows (`n`), `joined_at` and `synced_at`. `n` is the version of the account Sony answered with or, above
`MaxPsn`, the number of a flush. A request is `Join` or `Refresh` (cooldown check) or `JoinUnchecked` (the check could not read the row), `Lookup`, `SelectJoined` and `Insert`
(the two statements of `store.Upsert`), `ReadBack`, `UpdateBoard`. The flush function is `FlushCommit`, `FlushReadBack` once per
player, `FlushBoard`; its transactions succeed and are one step here, their failures and chunks are `Wal`'s subject. The board is
written in one step, which is what `MemRank`'s refinement of `AtomicBoard` justifies. Requests that are refused (no
such player, cooldown) change nothing and are left out. `committed` is a history variable: the contents the table has had.

`HotSync` adds to every step the observation of it (`Observe`): which syncs of a player were between table and board at the same time
(`crossed`), whether the last one to reach the board was among them (`lag`), which requests saw their player stored by
another after they were admitted (`overtaken`), and which were admitted although the row could not be read (`blind`). The last is
an action of its own, `JoinUnchecked`, apart from `Join` and `Refresh`, whose guards are the cooldown check; a request that a wrong check lets
through is in neither set. With the record the two
properties that `hot_race` and overlapping requests break are stated for all the other cases at once, without restricting the instance.

### PsnClient

A request is in `Lookup` (client.go): `Begin`, `Acquire` (the mutex; a good token is used at once), the calls `refresh`, `authorize`,
`exchange` with the mutex held, then `me`, `search`, `legacy`, `trophy` without it. Each call ends in one action per kind of
response, or in `NoResponse` (network, HTTP timeout, context). Time is what is left of each timer: of a token's life at
Sony, of the expiry the client reckons, of the handler's context (15 s) and of the call (10 s). `Tick` cannot pass a
timeout, because the HTTP client ends the call then; it does pass the deadline of a request that waits for the mutex, because
`sync.Mutex` knows nothing of contexts. Sony is the environment: it may revoke access and refresh tokens, lose an answer after replacing
the refresh token, miss accounts in the profile and in the search; the legacy profile is taken at its word (client.go:508).
The token's life is reckoned by Sony from some moment of the call, by the client from the arrival of the answer.
`PsnAssumption` states what the constants of the code satisfy: 10 s + 15 s fit into the margin of 60 s, and Sony's tokens live longer than that.
Any answer to `authorize` without a code and any status but a success of `exchange` is `LoginRefused` (client.go:296, 361); `refused`, a history
variable, records that one of them met this lookup. Two assumptions are about Sony: 401 is answered to tokens it does not accept and to no
other, and 404 to the trophy call for accounts that are gone (`AccountDeleted`) or never were.

## 3. Runs

| Run | Expect | Question and answer |
|---|---|---|
| `mem_safety` | pass | Two writers, two readers, three writes: both faces agree at rest; a read's index and slice belong together; it returns a whole version, no older than the one published when it began; `Upsert` and `UpsertBatch` hold up only a reader whose pointer is older than the last switch; `MemRank` implements `AtomicBoard`. 299,657 states. |
| `board_reads` | pass | Requests of every kind against the worker: who has joined is found by the look-up that follows; a page announced has rows and a player found is found again, unless a query was served by an unpublished face; requests are answered and writes return. 92,262 states. |
| `face_merge` | pass | Any sequence of merges and rebuilds: slice, ranks, top copy, threshold, index and pages are those of a full sort. 466,393 states. |
| `wal_crash` | pass | Crashes at every step, two appenders, torn lines, shards that cannot be sealed for a while: an accepted player is in the table or on disk, the board equals the table outside flushes, and an accepted player is listed in the end. 457,342 states. |
| `wal_faults` | pass | Every I/O operation of the worker failing, one appender, two restarts, `FreshStamps`: `Wal` implements `Inbox`, a board that lags is covered by a kept segment, segments are not overwritten; until a restart the newest event is what is flushed; until a failure no row goes back. 456,009 states. |
| `hot_concurrent` | pass | Two requests and a flush for one player, every statement failing, a restart: `joined_at` is fixed, nothing uncommitted is shown, exactly the stored players are listed at rest; the board is behind only after two syncs crossed; a request whose check could read the row overwrites it within the cooldown only if another one has stored the player since. 3.1 million states. |
| `psn_token` | pass | Two lookups, every kind of refusal, lost answers, one revocation: no token is presented that has run out; tokens are fetched only when due; `invalid_credentials` follows a refused login or a revoked token and nothing else, `not_found` an account that is not there; every lookup returns; a revoked token is given up in the end. 353,502 states. |
| `wal_overwrite`, `wal_stale_replay`, `wal_torn`, `hot_race`, `board_peek` | violation | See section 6. |

The assumptions of `wal_faults` (`FreshStamps`, no failure, no restart, one appender) and the exceptions of `hot_concurrent` and
`board_reads` (crossed syncs, a peeked face) are exactly what the counterexamples of section 6 use: the pairs delimit when a property holds.

### Bounds

All bounds are constants that occur in guards: `MaxWrites`, `MaxBatch`, `MaxEvents`, `MaxClock`, `MaxFaults`,
`MaxCrashes`, `MaxPsn`, `MaxFlushes`, `MaxRestarts`, `MaxPage`, `MaxRevocations`.

* MemRank: three writes are the fewest in which a reader that paused sees its face published, become dark, be filled
  and be published again. Two keys tell a batch from an upsert and a load; two values tell an update from a repetition.
  The proofs remove these bounds: they hold for every set of keys, values, writers and readers and every `MaxWrites`.
* BoardReads: three writes, one of them perhaps the request's own; pages of one row, so that every player has a page of their own. One
  request: requests meet only in `memrank`, where `mem_safety` has two readers.
* FaceUpdate: a top copy of two in place of 1000, so that with up to three players slices are shorter than, as long as
  and longer than it, and pages end in it, cross its end and lie behind it. `Breakdowns` has five breakdowns of one
  score that differ first in each count in turn, and one that scores less.
* Wal: two players, in two shards (`wal_crash`) or in one; chunks of one row, so that a flush of two players
  has a state between its transactions; up to three seconds; up to two failures and two crashes, so that a replay can be
  interrupted by a crash. Instances for violations are the smallest that show them.
* HotPath: one player, because requests for different players touch different rows; two versions of the account; a clock that
  passes the cooldown after a row written at the first time.
* PsnClient: the inequalities between the code's times are kept, not the times and not their ratios (10 s, 15 s and 60 s in the code): an HTTP
  timeout of 1, a deadline of 2, a margin of 3, a life of 4 - a token is reusable for one unit, and one that is reused just before its margin is presented while it nearly runs out. The margin is as
  small as `PsnAssumption` allows, smaller than in the code. One revocation: a second one repeats the first.

`CHECK_DEADLOCK FALSE` stands where the bounded clock ends: sealing waits for a fresh second, or only refused requests are left.

### Fairness

`BoardReads!FairSpecReads`: weak fairness of a request's and of a writer's steps *after* it has begun: the Go scheduler runs
every runnable goroutine, and `RWMutex` lets a waiting writer in before later readers. Strong fairness of `JoinUpsert`, which takes
`writerMu`: a `sync.Mutex` goes into starvation mode and hands itself to a goroutine that has waited for a millisecond, so
whoever finds it free again and again gets it. No client need send a request.
`PsnClient!FairSpec`: weak fairness of a lookup's steps and of time, strong fairness of `Acquire` for the same reason.
A call need not be answered: `NoResponse` is among the steps, and time forces it. Requests, revocations and expiries are not obliged.
`Wal!FairSpec`: the worker's loop and the handlers that have begun run; the ticker
fires again; and `Start` is among the steps of the worker, so a crashed process is started again, as a supervisor does. `AckedIsListed` rests on that:
nothing in the repository restarts the server, and without it what the files hold is listed only when somebody does. No failure need stop by fairness: there are at most `MaxFaults` of them. Crashes and appends are never obliged.

## 4. Proofs

Everything here holds for every value of the constants that satisfies the modules' `ASSUME`s.

**MemRankProofs.** `IInv` (module `MemRankInv`) has one conjunct per idea: `MutexInv` (one writer, and it holds a face's lock
exactly while it fills it), `RoundInv` (where a call is in its two rounds), `IndexInv`, `ReaderInv`, `ContentInv` (every
face shows the last version, or the previous one if the call in progress has yet to fill it), `PromiseInv` (a
reader that was promised the last version does not hold the pointer of a face that lags) and `StaleInv` (who holds the pointer of the
other face has seen a switch). The strengthening is needed because no
property speaks of a paused reader's pointer or of a face during the two rounds, and both decide what the next step shows. Each conjunct has
its lemma `...Step`; `StepIInv` combines them. From it: `TypeCorrect`, `Convergence` (`FacesConverge`), `Coherence`
(`CoherentReads`), `ReadersPassWriters` (`HeldUpOnlyIfOvertaken`), `Visibility` (`VisibleAfterSwitch`) and `Refinement`: the mapping takes the published slice for the board and the
swap, or for `Load` the filling of the published face, for the step that applies the write. `StepRefines` maps every
step to a step of `AtomicBoard` or a stutter.

**HotPathProofs.** `IInv` (module `HotPathInv`): a row about to go to the board is genuine (its contents were
committed, its `joined_at` is the table's or absent), and who is in the table is on the board or about to be put there.
From it: `TypeCorrect`, `ShowsCommitted`, `KeepsJoined`, `StoredAreListed`, and `JoinedIsFixed`, an action property. They
hold for any number of overlapping requests, flushes, failures and restarts.

**HotSyncProofs.** `OnlyWatches`: `SpecSync` implies `Spec`. The record adds no behaviour, so the theorems about `HotPath` hold of the
instance `hot_concurrent` checks (`StillHotPath`). `StaleOnlyIfCrossed` (`StaleOnlyAfterCrossing`) rests on `CrossInv`: syncs of a player that
are in progress together have all crossed, and one that has crossed with none carries what the table holds, because it wrote it. Without the second half the
invariant says nothing about the row a lone sync is about to put on the board. `CooldownIsKept` (`CooldownHonoured`) rests on `AdmittedInv`:
a request that was admitted by a check, and that nobody has overtaken, still finds the row missing or old enough. `blind` holds only
requests that came in by `JoinUnchecked`, so the theorem needs the guards of `Join` and `Refresh`: without either, or with a shorter cooldown, it is false.

**BoardReadsProofs.** `ReadsInv` adds to `MemRankInv!IInv`, which the requests' steps preserve because they are steps of `MemRank`
(`StepIsMemRank`): `GrowInv` (without `Load` no version of the board loses a player), `SwitchInv` (at most the newest version is not
switched in), `RequestInv` (what a request is after at each query) and `FitInv` (the version below which the next answer cannot fall already has what an
earlier query announced, unless that query saw an unpublished face). From it `ReadsTypeCorrect`, `JoinSeesItself`, `AnswersFit`, and `BoardStaysCorrect`:
the properties of `MemRank` hold while requests run.

**PsnClientProofs.** `IInv` states the life of tokens as inequalities: the cached token outlives its planned expiry less one HTTP
timeout, and a token a lookup presents outlives what is left of the lookup (`LifeInv`); `FetchInv`: nobody fetches while the
cached token can be reused. From it `TypeCorrect`, `PresentedTokensLive`, `RefusalsAreReal`, `ExistingAreFound` and the action property
`NoNeedlessFetch`. `RefusalsAreReal` takes what the code reports as refused for refused; what it excludes is that a token which merely ran out, or
a refresh that failed, is reported so: hence it rests on `LifeInv`. The theorems use `PsnAssumption`, inequalities between the code's constants, and nothing
else of the times: any number of lookups, any life.

**WalProofs.** `WorkerInv` ties the worker's locals to the files: the batch is what deduplication keeps of the segment in hand, what has
been committed of it is in the table, and while nothing has failed that keeps a segment, every segment is in hand or still to be replayed. That last conjunct
(`KeptInv`) is what excludes overwriting without `FreshStamps`. The theorems whose truth needs it say so in their statement:
`NeverOverwritten` is `FreshStamps`, as in `wal_faults`, or a deployment in which creating, reading, flushing and removing do not fail, as in `wal_crash`;
`wal_overwrite` is the counterexample without it. Under it `EnqueuedIsNeverLost` (`PlayerNeverLost`), `SegmentsAreImmutable` (`SealedIsImmutable`),
`LagIsTemporary` (`LagIsRetained`) and `ImplementsInbox`: every step of `Wal` is a step of `Inbox` or a stutter under the mapping `Owed`.
`RankingIsStore` (`MemoryShowsStore`) needs only that transactions do not fail, for a failed one leaves earlier chunks in the table and not on the board.
`TypeCorrect` holds without conditions.

**WalOrderProofs.** `FirstLifeInv`: until the first restart `Seq` is the order of the `Append` calls. Hence `FlushedIsNewest`, for any number of
appenders and any failures. With one appender (`OneAppender`: with two, numbers and lines may be in different orders, see section 6) `OrderInv` adds
that unsealed lines are newer than sealed ones and than the row; from it `NewestIsKept` (`NewestUntilRestart`, under `NeverOverwritten`).
`OneSegmentInv`: while nothing has failed there is one sealed segment at most, and flushing it again does not take a row back, through any
crashes; hence `StoreMovesForward` (`MonotoneUntilFailure`).

**FaceUpdateProofs.** In three layers. The order: `ComparisonsAgree` (memrank's comparison and package rank's are the same relation on all
players) and `StrictTotalOrder`. The sort: a player's place is the number of players before it, every place is taken once (`PositionOnto`), and
`Start`, the first place of the run of equals a place belongs to, solves the recursion of `SortAndNumber` uniquely (`RankFunction`); so a sequence that is
increasing, has all the players and follows the rank rule *is* `SortAndNumber` of them (`SettledIsSorted`). Induction is replaced by a least counterexample (`LeastOf`).
The loops: `IInv` says at each phase where every player of the map is - kept, still to be filtered, in the batch, merged, still to be
merged - and that what is done comes before what is to come (`FilterInv`, `MergeInv`, `NumberInv`, `SettledInv`). From it `MergedAsRebuilt`
(`MergeEqualsRebuild`), `RankCountsTheBetter` (`RanksAreCompetition`; the players strictly better than one are those before the start of its run),
`IndexIsExact`, `TopIsPrefix`, `PagesAreRankPages` and, without the run's bounds, `EveryPageAgrees` - for any ids and counts, any size of
the top copy, batches of any size and any number of updates.

**Assumptions on constants.** They are in the `ASSUME` of each module. Those only the proofs need: ids are finitely many (`BoardReads`;
server.go's `validateOnlineID` bounds their length), identifiers of requests and players differ and requests are finitely many
(`HotSync`), there is at least one second (`Wal`). `FaceUpdate` takes batches as finite and without repeated ids, see section 2.

## 5. Only model-checked, and not modelled

Every invariant and action property of the passing runs has a theorem. Model-checked only:

* All liveness (`RequestsAnswered`, `AckedIsListed`, `LookupsReturn`, `RevocationHeals`): the prover
  handles neither liveness under fairness nor `ENABLED`.
* The disagreements of section 6, which are counterexamples.

Some theorems are weaker than "for every value" by a hypothesis in their statement (`NeverOverwritten`, `OneAppender`, no failing
transaction); the run of the property satisfies it, and a run of section 6 or an instance named there shows what happens without it.

Not modelled:

* Random ids of `/admin/seed`; SQL, JSON and HTTP as such. Validation of ids, counts and avatars changes no state.
* Configuration (read once), the CLI (one sequential lookup, then printing), templates and styles (presentation): no state to model.
* `Stop` and `Close` of the log, see `Wal`. `Store.UpdateSyncedAt` and `Leaderboard.ReloadFromStore` are used by tests only.
* A player for whom Sony answers with another id than was asked for: the row is stored under the one, the cooldown checked under the other (server.go:334).
* Power loss: `Append` does not sync, so a line may be lost with the machine, and nothing in the repository claims otherwise.

## 6. Where code and documentation disagree

Five disagreements are runs, which TLC finds violated on the smallest instance that shows them.

| Run | What happens | What is said |
|---|---|---|
| `wal_overwrite` | A segment kept after a failed flush is overwritten by the next seal of the shard within its second (wal.go:234). | wal.go:192: kept for a retry; spec:941, 947: immutable |
| `wal_stale_replay` | A segment kept after a failed flush is replayed at the next start over the newer rows of later segments (store.go:187). | spec:1077: an old timestamp does not overwrite; docs/architecture.md:268: idempotent |
| `wal_torn` | After a torn line `readSealed` never ends (wal.go:271-280): `json.Decoder` repeats its error. | wal.go:277: skip the broken line |
| `hot_race` | Two overlapping syncs of one player leave the board on the older row (server.go:353). | spec:885: every write updates the memory structure |
| `board_peek` | `/search` finds a player in a face that is filled but not published, its second query does not: it leads to page 1 (memrank.go:188). | prd:109: to the player's page; spec:1174, 1182: readers read the light face, and see a new one after the switch |

("spec" is tasks/spec-psn-trophy-leaderboard.md, "prd" tasks/prd-psn-trophy-leaderboard.md.) Smaller matters that delimit the passing runs, each reproduced by the instance named:

* `NewestUntilRestart` needs "until restart": `seqCounter` begins again (wal.go:95), and in a shard file with lines of two
  processes an old event with a large `Seq` beats a newer one, although wal.go:285 keeps the newest
  (`BatchIsNewest` on the constants of `WalOverwrite.cfg` with no faults, three events and one crash).
* `MonotoneUntilFailure` needs one appender: two draw their numbers before the mutex (wal.go:94) and write in the other
  order with a seal in between; the older event is stored last (`StoreNeverRegresses` with two appenders, no faults).
* `CooldownHonoured` excepts requests that overlap: the cooldown is checked before the lookup and recorded after it (server.go:291),
  so two overlapping requests both pass, against FR-16 of the PRD (drop `overtaken` from the property). It also excepts requests whose check could not
  read the row: server.go:292 logs that and goes on (drop `blind`).
* `InvalidMeansRefused` takes every answer to the login without a code or success for a refusal, because client.go:296 and 361 do: a 403, 429 or
  503 with a valid NPSSO is reported as `invalid_credentials`, and the page tells the operator to fetch a new NPSSO. spec:394 counts "限流、超时、5xx" as `upstream`, spec:308 makes every failed login
  `invalid_credentials`.
* A 401 to a call does not drop the cached token: every lookup is refused until the token's planned expiry. `RevocationHeals` says that this ends
  some time; how long it lasts no property says.
* memrank.go:37 says that readers are not held up by the merge of the dark face. A reader paused between `read.Load` and
  `RLock` (memrank.go:188) while one write switches and goes on to the old face, or the next begins, does wait for it, or reads the dark face before it is
  published. `HeldUpOnlyIfOvertaken` says that `Upsert` and `UpsertBatch` hold up no other reader. What it
  gets is still a whole version and recent enough (`VisibleAfterSwitch`), but two reads by one visitor can go back in time.

## 7. Plan

Done: `MemRank` with its abstract specification and proofs; `BoardReads` on top of it; `RankOrder` and `FaceUpdate`; `Wal` with `Inbox`;
`HotPath` with proofs, and `HotSync`; `PsnClient`. Every component that keeps state has its module. `ColdAndHot`, a composition of `Wal` and
`HotPath` over one table, was weighed and left: `HotPath` already has the flush function with its three steps, `Wal` its failures, and
their product adds no step of the code.

Proved: every safety and action property of the passing runs, the refinements of `AtomicBoard` and of `Inbox`, and the equality of merge and full sort.

Next, proofs:

1. `BoardReads` on top of `AtomicBoard`: that a request which reads once behaves as on a board with atomic writes.
2. `FaceUpdate` and `MemRank` together: that `FillRanked` and `FillIndex`, one step each there, may stand for the loops proved here
   (the face's lock is held throughout, so what remains is that `ranked` as a board is `PlayersOf` the slice).
