----------------------------- MODULE WalProofs -----------------------------
(***************************************************************************)
(* Proofs about Wal, for any number of players, shards, appenders, faults  *)
(* and crashes: types, what is appended is not lost, sealed segments are   *)
(* immutable, the ranking against the store, and the refinement of Inbox.  *)
(***************************************************************************)
EXTENDS Wal, SequenceTheorems, WellFoundedInduction, TLAPS

-----------------------------------------------------------------------------
(* The lines of a file *)

(* An empty file has no lines, any other has one, and all are events or    *)
(* torn.                                                                   *)
LEMMA LinesTyped ==
    ASSUME NEW f \in Lines
    PROVE  /\ LinesIn(f) \subseteq Events \cup {Torn}
           /\ f = << >> <=> LinesIn(f) = {}
<1>1. f \in [1 .. Len(f) -> Events \cup {Torn}] /\ DOMAIN f = 1 .. Len(f) /\ Len(f) \in Nat
  BY LenProperties DEF Lines
<1>2. f # << >> => Len(f) # 0
  BY EmptySeq DEF Lines
<1>3. f = << >> => LinesIn(f) = {}
  BY DEF LinesIn
<1>4. f # << >> => f[1] \in LinesIn(f)
  BY <1>1, <1>2 DEF LinesIn
<1> QED  BY <1>1, <1>3, <1>4 DEF LinesIn

(* Appending a line adds it to the lines of the file.                      *)
LEMMA LinesOfAppend ==
    ASSUME NEW f \in Lines, NEW e \in Events \cup {Torn}
    PROVE  /\ Append(f, e) \in Lines
           /\ LinesIn(Append(f, e)) = LinesIn(f) \cup {e}
<1> DEFINE g == Append(f, e)
<1>1. Len(f) \in Nat /\ DOMAIN f = 1 .. Len(f)
  BY LenProperties DEF Lines
<1>2. g \in Lines /\ Len(g) = Len(f) + 1
  BY AppendProperties DEF Lines
<1>3. DOMAIN g = 1 .. Len(f) + 1
  BY <1>2, LenProperties DEF Lines
<1>4. (\A i \in 1 .. Len(f) : g[i] = f[i]) /\ g[Len(f) + 1] = e
  BY AppendProperties DEF Lines
<1>5. ASSUME NEW x  PROVE  x \in LinesIn(g) <=> x \in LinesIn(f) \/ x = e
  <2> HIDE DEF g
  <2>1. x \in LinesIn(g) <=> \E i \in 1 .. Len(f) + 1 : x = g[i]
    BY <1>3 DEF LinesIn
  <2>2. x \in LinesIn(f) <=> \E i \in 1 .. Len(f) : x = f[i]
    BY <1>1 DEF LinesIn
  <2>3. \A i \in 1 .. Len(f) + 1 : i \in 1 .. Len(f) \/ i = Len(f) + 1
    BY <1>1
  <2>4. \A i \in 1 .. Len(f) : i \in 1 .. Len(f) + 1
    BY <1>1
  <2>5. Len(f) + 1 \in 1 .. Len(f) + 1
    BY <1>1
  <2> QED  BY <1>4, <2>1, <2>2, <2>3, <2>4, <2>5
<1> QED  BY <1>2, <1>5

(* A set of natural numbers has a least element.                           *)
LEMMA LeastOf ==
    ASSUME NEW T, T \subseteq Nat, T # {}
    PROVE  \E x \in T : \A y \in T : x <= y
<1>1. PICK x \in T : \A y \in T : ~ (<<y, x>> \in OpToRel(<, Nat))
  BY NatLessThanWellFounded, WFMin
<1>2. \A y \in T : ~ (y < x)
  BY <1>1 DEF OpToRel
<1> QED  BY <1>2

(* A set of events has a latest one, by Seq and then by number.            *)
LEMMA LatestOf ==
    ASSUME NEW E, E \subseteq Events, E # {}
    PROVE  \E e \in E : \A o \in E : o.seq < e.seq \/ (o.seq = e.seq /\ o.n <= e.n)
<1> USE WalAssumption
<1>0. \A e \in Events : e.seq \in 1 .. MaxEvents /\ e.n \in 1 .. MaxEvents
  BY DEF Events
<1> DEFINE T == {MaxEvents - e.seq : e \in E}
<1>1. T \subseteq Nat /\ T # {}
  BY <1>0
<1>2. PICK x \in T : \A y \in T : x <= y
  <2> HIDE DEF T
  <2> QED  BY <1>1, LeastOf
<1>3. PICK m \in E : x = MaxEvents - m.seq
  BY <1>2
<1>4. \A o \in E : o.seq <= m.seq
  <2>1. \A o \in E : MaxEvents - m.seq <= MaxEvents - o.seq
    BY <1>2, <1>3
  <2> QED  BY <1>0, <2>1
<1> DEFINE F == {e \in E : e.seq = m.seq}
<1> DEFINE U == {MaxEvents - e.n : e \in F}
<1>5. U \subseteq Nat /\ U # {}
  BY <1>0
<1>6. PICK z \in U : \A y \in U : z <= y
  <2> HIDE DEF U
  <2> QED  BY <1>5, LeastOf
<1>7. PICK e \in F : z = MaxEvents - e.n
  BY <1>6
<1>8. \A o \in F : o.n <= e.n
  <2>1. \A o \in F : MaxEvents - e.n <= MaxEvents - o.n
    BY <1>6, <1>7
  <2> QED  BY <1>0, <2>1
<1>9. \A o \in E : o.seq < m.seq \/ o.seq = m.seq
  BY <1>0, <1>4
<1> QED  BY <1>7, <1>8, <1>9

(* The events of a player in a file are events of that player.             *)
LEMMA EventsTyped ==
    ASSUME NEW f \in Lines, NEW k \in Keys
    PROVE  /\ EventsOf(k, f) \subseteq Events
           /\ EventsOf(k, f) = {e \in Events : e \in LinesIn(f) /\ e.key = k}
<1>1. Torn \notin Events
  BY WalAssumption DEF Torn, Events
<1> QED  BY <1>1, LinesTyped DEF EventsOf

(* readSealed keeps, of a player that has events in the file, one of them, *)
(* and none has a greater Seq.                                             *)
LEMMA KeptIsLatest ==
    ASSUME NEW f \in Lines, NEW k \in Keys, EventsOf(k, f) # {}
    PROVE  /\ Kept(k, f) \in EventsOf(k, f)
           /\ \A o \in EventsOf(k, f) :
                 \/ o.seq < Kept(k, f).seq
                 \/ o.seq = Kept(k, f).seq /\ o.n <= Kept(k, f).n
<1>1. \E e \in EventsOf(k, f) :
         \A o \in EventsOf(k, f) : o.seq < e.seq \/ (o.seq = e.seq /\ o.n <= e.n)
  BY EventsTyped, LatestOf
<1> QED  BY <1>1 DEF Kept

(* The batch of a file is a number for each player, and the players in it  *)
(* are those that have an event in the file.                               *)
LEMMA DedupeTyped ==
    ASSUME NEW f \in Lines
    PROVE  /\ Dedupe(f) \in [Keys -> Numbers]
           /\ \A k \in Keys : Dedupe(f)[k] # 0 <=> EventsOf(k, f) # {}
           /\ \A k \in Keys : EventsOf(k, f) # {} => Dedupe(f)[k] = Kept(k, f).n
<1>1. ASSUME NEW k \in Keys, EventsOf(k, f) # {}
      PROVE  Kept(k, f).n \in Numbers \ {0}
  <2>1. Kept(k, f) \in Events
    BY <1>1, KeptIsLatest, EventsTyped
  <2> QED  BY <2>1, WalAssumption DEF Events, Numbers
<1>2. 0 \in Numbers
  BY WalAssumption DEF Numbers
<1> QED  BY <1>1, <1>2 DEF Dedupe

-----------------------------------------------------------------------------
(* Types *)

(* Seq is drawn at most once per event: what keeps it within its type.     *)
TypeInv == TypeOK /\ seqCounter <= events

(* The shard and stamp the worker starts its rounds with.                  *)
LEMMA FirstSegment ==
    /\ [shard |-> 0, stamp |-> 1] \in [shard : Shards, stamp : Stamps]
    /\ Nothing \in [Keys -> Numbers]
    /\ 0 \in Numbers /\ 1 \in Stamps /\ 0 \in Shards
BY WalAssumption DEF Shards, Stamps, Nothing, Numbers

(* What Proceed leaves the worker with.                                    *)
LEMMA ProceedTyped ==
    ASSUME TypeInv, Proceed
    PROVE  /\ wpc' \in {"idle", "seal", "pick"}
           /\ cur' \in [shard : Shards, stamp : Stamps]
           /\ batch' \in [Keys -> Numbers] /\ left' = {}
<1>1. wpc' \in {"idle", "seal", "pick"}
  BY DEF Proceed
<1>2. cur' \in [shard : Shards, stamp : Stamps]
  <2>1. CASE mode = "replay" \/ cur.shard = LastShard
    BY <2>1, FirstSegment DEF Proceed
  <2>2. CASE ~ (mode = "replay" \/ cur.shard = LastShard)
    <3>1. cur.shard \in Shards /\ cur.shard # ShardCount - 1
      BY <2>2 DEF TypeInv, TypeOK, LastShard
    <3>2. cur.shard + 1 \in Shards
      BY <3>1, WalAssumption DEF Shards
    <3> QED  BY <2>2, <3>2, FirstSegment DEF Proceed
  <2> QED  BY <2>1, <2>2
<1> QED  BY <1>1, <1>2, FirstSegment DEF Proceed

(* A failure leaves the counters typed.                                    *)
LEMMA FailsTyped ==
    ASSUME TypeInv, NEW what, Fails(what)
    PROVE  faults' \in 0 .. MaxFaults
BY WalAssumption DEF TypeInv, TypeOK, Fails

(* Every step keeps the types, one lemma for the state of the files, the   *)
(* store and the worker, one for the appenders.                            *)
LEMMA TypeStep ==
    ASSUME TypeInv, [Next]_vars
    PROVE  TypeInv'
<1> USE DEF TypeInv
<1>0. << >> \in Lines
  BY EmptySeq DEF Lines
<1> DEFINE Rest == UNCHANGED <<files, store, mem, mode, seqCounter, appenderVars, todo, clock,
                            events, crashes, acked>>
<1>1. ASSUME NEW a \in Appenders, NEW k \in Keys, TakeSeq(a, k)
      PROVE  TypeInv'
  <2>1. [key |-> k, seq |-> seqCounter', n |-> events'] \in Events
    BY <1>1, WalAssumption DEF TakeSeq, TypeOK, Events, Numbers
  <2>2. aev'[a] \in Events
    BY <1>1, <2>1 DEF TakeSeq, TypeOK
  <2> QED  BY <1>1, <2>1, <2>2, WalAssumption DEF TakeSeq, TypeOK, Numbers, files, workerVars
<1>2. ASSUME NEW a \in Appenders, AppendReturns(a),
             live' \in [Shards -> Lines], acked' \in [Keys -> Numbers],
             faults' \in 0 .. MaxFaults
      PROVE  TypeInv'
  BY <1>2 DEF AppendReturns, TypeOK, workerVars
<1>3. ASSUME NEW a \in Appenders, AppenderStep(a)
      PROVE  TypeInv'
  <2>0. apc[a] = "write" /\ aev[a] \in Events /\ aev[a].key \in Keys
        /\ aev[a].n \in Numbers /\ ShardOf[aev[a].key] \in Shards
    BY <1>3, WalAssumption
    DEF AppenderStep, WriteLine, WriteLineNoHandle, WriteLineShort, TypeOK, Events, Numbers
  <2>1. \A s \in Shards : /\ Append(live[s], aev[a]) \in Lines
                          /\ Append(live[s], Torn) \in Lines
    BY <2>0, LinesOfAppend DEF TypeOK
  <2>2. CASE WriteLine(a)
    <3>1. live' \in [Shards -> Lines]
      BY <2>1, <2>2 DEF WriteLine, TypeOK
    <3>2. acked' \in [Keys -> Numbers]
      BY <2>0, <2>2 DEF WriteLine, TypeOK
    <3>3. AppendReturns(a) /\ faults' \in 0 .. MaxFaults
      BY <2>2 DEF WriteLine, TypeOK
    <3> QED  BY <1>2, <3>1, <3>2, <3>3
  <2>3. CASE WriteLineNoHandle(a)
    BY <1>2, <2>3 DEF WriteLineNoHandle, TypeOK
  <2>4. CASE WriteLineShort(a)
    <3>1. live' \in [Shards -> Lines]
      BY <2>1, <2>4 DEF WriteLineShort, TypeOK
    <3> QED  BY <1>2, <2>4, <3>1, FailsTyped DEF WriteLineShort, TypeOK
  <2> QED  BY <1>3, <2>2, <2>3, <2>4 DEF AppenderStep
<1>4. ASSUME Proceed, faults' \in 0 .. MaxFaults,
             live' \in [Shards -> Lines], handle' \in [Shards -> {"open", "lost", "gone"}],
             sealed' \in [Shards -> [Stamps -> Lines]],
             UNCHANGED <<store, mem, mode, seqCounter, appenderVars, todo, clock,
                         events, crashes, acked>>
      PROVE  TypeInv'
  BY <1>4, ProceedTyped DEF TypeOK, appenderVars
<1>5. ASSUME NEW s \in Shards,
             SealEmpty(s) \/ SealStatFails(s) \/ SealRecreate(s) \/ SealRenameFails(s)
      PROVE  TypeInv'
  <2>1. Proceed /\ UNCHANGED <<live, sealed, store, mem, mode, seqCounter, appenderVars, todo,
                               clock, events, crashes, acked>>
    BY <1>5 DEF SealEmpty, SealStatFails, SealRecreate, SealRenameFails, files, counters
  <2>2. handle' \in [Shards -> {"open", "lost", "gone"}]
    BY <1>5 DEF SealEmpty, SealStatFails, SealRecreate, SealRenameFails, files, TypeOK
  <2>3. faults' \in 0 .. MaxFaults
    BY <1>5, FailsTyped
    DEF SealEmpty, SealStatFails, SealRecreate, SealRenameFails, counters, TypeOK
  <2> QED  BY <1>4, <2>1, <2>2, <2>3 DEF TypeOK
<1>6. ASSUME NEW s \in Shards, SealRename(s)
      PROVE  TypeInv'
  <2>1. /\ sealed' \in [Shards -> [Stamps -> Lines]]
        /\ live' \in [Shards -> Lines]
    BY <1>0, <1>6 DEF SealRename, TypeOK
  <2>2. CASE /\ handle' = [handle EXCEPT ![s] = "open"]
             /\ wpc' = "read"
             /\ cur' = [shard |-> s, stamp |-> clock]
             /\ UNCHANGED <<batch, left, faults>>
    BY <1>6, <2>1, <2>2 DEF SealRename, TypeOK, appenderVars
  <2>3. CASE /\ Fails("create")
             /\ handle' = [handle EXCEPT ![s] = "gone"]
             /\ Proceed
    BY <1>4, <1>6, <2>1, <2>3, FailsTyped DEF SealRename, TypeOK
  <2> QED  BY <1>6, <2>2, <2>3 DEF SealRename
<1>7. CASE StartRound
  BY <1>7 DEF StartRound, TypeOK, files, appenderVars, counters
<1>8. CASE ReadSealed
  <2>1. Segment \in Lines
    BY DEF TypeOK, Segment
  <2>2. batch' \in [Keys -> Numbers] /\ left' \subseteq Keys
    BY <1>8, <2>1, DedupeTyped DEF ReadSealed
  <2> QED  BY <1>8, <2>2 DEF ReadSealed, TypeOK, files, appenderVars, counters
<1>9. CASE SpinOnTornLine
  BY <1>9 DEF SpinOnTornLine, TypeOK, vars
<1>10. CASE FlushChunk
  <2>1. store' \in [Keys -> Numbers] /\ left' \subseteq Keys
    BY <1>10 DEF FlushChunk, TypeOK
  <2> QED  BY <1>10, <2>1 DEF FlushChunk, TypeOK, files, appenderVars, counters
<1>11. CASE UpdateMemory
  <2>1. mem' \in [Keys -> Numbers]
    BY <1>11 DEF UpdateMemory, TypeOK
  <2> QED  BY <1>11, <2>1 DEF UpdateMemory, TypeOK, files, appenderVars, counters
<1>12. CASE Remove
  <2>0. /\ sealed \in [Shards -> [Stamps -> Lines]]
        /\ cur.shard \in Shards /\ cur.stamp \in Stamps
    BY DEF TypeOK
  <2>1. sealed' \in [Shards -> [Stamps -> Lines]]
    <3>1. sealed' = sealed \/ sealed' = [sealed EXCEPT ![cur.shard][cur.stamp] = << >>]
      BY <1>12 DEF Remove
    <3> QED  BY <1>0, <2>0, <3>1
  <2>2. faults' \in 0 .. MaxFaults
    BY <1>12, FailsTyped DEF Remove, TypeOK
  <2> QED  BY <1>4, <1>12, <2>1, <2>2 DEF Remove, TypeOK
<1>13. CASE GiveUp
  <2>1. faults' \in 0 .. MaxFaults
    BY <1>13, FailsTyped DEF GiveUp
  <2> QED  BY <1>4, <1>13, <2>1 DEF GiveUp, TypeOK, files
<1>14. CASE Start
  <2>1. SealedFiles \subseteq [shard : Shards, stamp : Stamps]
    BY DEF SealedFiles
  <2> QED  BY <1>14, <2>1, FirstSegment, WalAssumption
           DEF Start, TypeOK, appenderVars, counters, Numbers
<1>15. CASE ReplayNext
  BY <1>15 DEF ReplayNext, TypeOK, files, appenderVars, counters
<1>16. CASE ReplayDone
  BY <1>16 DEF ReplayDone, TypeOK, files, appenderVars, counters
<1>17. CASE Crash
  BY <1>17, FirstSegment, WalAssumption DEF Crash, TypeOK, files
<1>18. CASE Tick
  BY <1>18, WalAssumption
  DEF Tick, TypeOK, files, appenderVars, workerVars, Stamps
<1>19. CASE UNCHANGED vars
  BY <1>19 DEF vars, TypeOK
<1> QED
  BY <1>1, <1>3, <1>5, <1>6, <1>7, <1>8, <1>9, <1>10, <1>11, <1>12, <1>13, <1>14,
     <1>15, <1>16, <1>17, <1>18, <1>19
  DEF Next, WorkerStep

(* The first start.                                                        *)
LEMMA TypeInit == Init => TypeInv
<1> SUFFICES ASSUME Init PROVE TypeInv
  OBVIOUS
<1>1. << >> \in Lines
  BY EmptySeq DEF Lines
<1> QED  BY <1>1, FirstSegment, WalAssumption DEF Init, TypeInv, TypeOK, Numbers, Stamps

LEMMA Types == Spec => []TypeInv
<1> QED  BY TypeInit, TypeStep, PTL DEF Spec

(* Files, tables, locals and counters of the cold path hold only what they *)
(* can hold: shards and seconds in range, whole or torn lines, numbers of  *)
(* events that were appended.                                              *)
THEOREM TypeCorrect == Spec => []TypeOK
<1>1. TypeInv => TypeOK
  BY DEF TypeInv
<1> QED  BY <1>1, Types, PTL

-----------------------------------------------------------------------------
(* The worker *)

Busy == wpc \in {"read", "flush", "remove"}

(* The failures after which a segment stays on disk though the worker has  *)
(* gone on.                                                                *)
KeepingFaults == {"create", "read", "flush", "remove"}

(* None of them has happened.                                              *)
NothingKept == faults = 0 \/ Faults \cap KeepingFaults = {}

(* Where the worker is in each mode; what its locals say of its segment    *)
(* and of the store; and, as long as nothing failed that keeps a segment,  *)
(* that the sealed segments are those it has in hand or still to replay.   *)
ModeInv ==
    /\ mode = "down" => wpc = "idle"
    /\ mode = "replay" => wpc = "pick" \/ Busy
    /\ mode = "run" => wpc # "pick" /\ todo = {}

BatchInv ==
    /\ wpc \in {"flush", "remove"} => batch = Dedupe(Segment)
    /\ wpc \notin {"flush", "remove"} => batch = Nothing
    /\ left \subseteq {k \in Keys : batch[k] # 0}
    /\ wpc # "flush" => left = {}

FlushInv ==
    /\ \A k \in Keys : batch[k] # 0 /\ k \notin left => store[k] = batch[k]
    /\ wpc = "remove" => \A k \in Keys : batch[k] # 0 => mem[k] = store[k]

KeptInv ==
    NothingKept /\ mode # "down" =>
        \A f \in SealedFiles : f \in todo \/ (Busy /\ f = cur)

WorkerInv == ModeInv /\ BatchInv /\ FlushInv /\ KeptInv

(* The worker before its first round.                                      *)
LEMMA WorkerInit == Init => WorkerInv
<1> SUFFICES ASSUME Init PROVE WorkerInv
  OBVIOUS
<1>1. SealedFiles = {}
  BY DEF Init, SealedFiles
<1>2. Nothing \in [Keys -> Numbers] /\ \A k \in Keys : Nothing[k] = 0
  BY FirstSegment DEF Nothing
<1> QED
  BY <1>1, <1>2
  DEF Init, WorkerInv, ModeInv, BatchInv, FlushInv, KeptInv

(* After Proceed the worker has nothing in hand.                           *)
LEMMA ProceedWorker ==
    ASSUME TypeInv, ModeInv, KeptInv, Proceed, mode # "down",
           UNCHANGED <<mode, todo>>,
           mode = "run" \/ Busy,
           NothingKept' => \A f \in SealedFiles' : f \in SealedFiles /\ ~ (Busy /\ f = cur),
           NothingKept' => NothingKept
    PROVE  WorkerInv'
<1>1. /\ mode = "replay" => wpc' = "pick"
      /\ mode # "replay" => wpc' \in {"idle", "seal"}
  BY DEF Proceed
<1>2. batch' = Nothing /\ left' = {}
  BY DEF Proceed
<1>3. ModeInv'
  BY <1>1 DEF ModeInv, TypeInv, TypeOK
<1>4. BatchInv'
  BY <1>1, <1>2 DEF BatchInv
<1>5. FlushInv'
  <2>1. \A k \in Keys : batch'[k] = 0
    BY <1>2 DEF Nothing
  <2> QED  BY <2>1 DEF FlushInv
<1>6. KeptInv'
  BY DEF KeptInv
<1> QED  BY <1>3, <1>4, <1>5, <1>6 DEF WorkerInv

(* Steps that leave the worker, its files and the tables alone.            *)
LEMMA WorkerIdle ==
    ASSUME WorkerInv,
           UNCHANGED <<sealed, store, mem, mode, workerVars>>,
           NothingKept' => NothingKept
    PROVE  WorkerInv'
<1>1. ModeInv' /\ FlushInv'
  BY DEF WorkerInv, ModeInv, FlushInv, Busy, workerVars
<1>2. BatchInv'
  BY DEF WorkerInv, BatchInv, Segment, workerVars
<1>3. KeptInv'
  BY DEF WorkerInv, KeptInv, SealedFiles, Busy, workerVars
<1> QED  BY <1>1, <1>2, <1>3 DEF WorkerInv

(* An operation that fails counts: afterwards nothing is kept only if the  *)
(* failures of this kind never keep anything.                              *)
LEMMA FailsKeeps ==
    ASSUME TypeInv, NEW what, Fails(what)
    PROVE  NothingKept' => NothingKept /\ what \notin KeepingFaults
BY WalAssumption DEF Fails, NothingKept, TypeInv, TypeOK

(* The worker's locals stay true to the files and the table.               *)
LEMMA WorkerPreserved ==
    ASSUME TypeInv, WorkerInv, [Next]_vars
    PROVE  WorkerInv'
<1>0. UNCHANGED faults => (NothingKept' <=> NothingKept)
  BY DEF NothingKept
<1>1. ASSUME NEW a \in Appenders, NEW k \in Keys, TakeSeq(a, k)
      PROVE  WorkerInv'
  BY <1>0, <1>1, WorkerIdle DEF TakeSeq, files
<1>2. ASSUME NEW a \in Appenders, AppenderStep(a)
      PROVE  WorkerInv'
  <2>1. NothingKept' => NothingKept
    BY <1>0, <1>2, FailsKeeps
    DEF AppenderStep, WriteLine, WriteLineNoHandle, WriteLineShort
  <2>2. UNCHANGED <<sealed, store, mem, mode, workerVars>>
    BY <1>2
    DEF AppenderStep, WriteLine, WriteLineNoHandle, WriteLineShort, AppendReturns
  <2> QED  BY <2>1, <2>2, WorkerIdle
<1>3. ASSUME NEW s \in Shards,
             SealEmpty(s) \/ SealStatFails(s) \/ SealRecreate(s) \/ SealRenameFails(s)
      PROVE  WorkerInv'
  <2>1. Proceed /\ UNCHANGED <<sealed, mode, todo>> /\ mode = "run" /\ wpc = "seal"
    BY <1>3
    DEF SealEmpty, SealStatFails, SealRecreate, SealRenameFails, Sealing, files
  <2>2. NothingKept' => NothingKept
    BY <1>0, <1>3, FailsKeeps
    DEF SealEmpty, SealStatFails, SealRecreate, SealRenameFails, counters
  <2>3. SealedFiles' = SealedFiles
    BY <2>1 DEF SealedFiles
  <2> QED  BY <2>1, <2>2, <2>3, ProceedWorker DEF WorkerInv, Busy
<1>4. ASSUME NEW s \in Shards, SealRename(s)
      PROVE  WorkerInv'
  <2>1. mode = "run" /\ wpc = "seal" /\ todo = {} /\ UNCHANGED <<mode, store, mem, todo>>
    BY <1>4 DEF SealRename, Sealing, WorkerInv, ModeInv
  <2>2. CASE /\ wpc' = "read"
             /\ cur' = [shard |-> s, stamp |-> clock]
             /\ UNCHANGED <<batch, left, faults>>
    <3>1. ModeInv' /\ BatchInv' /\ FlushInv'
      BY <2>1, <2>2 DEF WorkerInv, ModeInv, BatchInv, FlushInv
    <3>2. ASSUME NothingKept', NEW f \in SealedFiles'
          PROVE  f = cur'
      <4>1. SealedFiles = {}
        BY <1>0, <2>1, <2>2, <3>2 DEF WorkerInv, KeptInv, Busy
      <4>2. f \in [shard : Shards, stamp : Stamps] /\ sealed'[f.shard][f.stamp] # << >>
        BY <3>2 DEF SealedFiles
      <4>3. sealed[f.shard][f.stamp] = << >>
        BY <4>1, <4>2 DEF SealedFiles
      <4>4. sealed' = [sealed EXCEPT ![s][clock] = live[s]]
        BY <1>4 DEF SealRename
      <4>5. f.shard = s /\ f.stamp = clock
        BY <4>2, <4>3, <4>4 DEF TypeInv, TypeOK
      <4> QED  BY <2>2, <4>2, <4>5
    <3>3. KeptInv'
      BY <2>2, <3>2 DEF KeptInv, Busy
    <3> QED  BY <3>1, <3>3 DEF WorkerInv
  <2>3. CASE Fails("create") /\ Proceed
    <3>1. ~ NothingKept'
      BY <2>3, FailsKeeps DEF KeepingFaults
    <3> QED  BY <2>1, <2>3, <3>1, ProceedWorker DEF WorkerInv
  <2> QED  BY <1>4, <2>2, <2>3 DEF SealRename
<1>5. CASE StartRound
  <2>1. ModeInv' /\ BatchInv' /\ FlushInv'
    BY <1>5 DEF StartRound, WorkerInv, ModeInv, BatchInv, FlushInv
  <2>2. KeptInv'
    BY <1>0, <1>5 DEF StartRound, WorkerInv, KeptInv, SealedFiles, Busy, files, counters
  <2> QED  BY <2>1, <2>2 DEF WorkerInv
<1>6. CASE ReadSealed
  <2>1. ModeInv'
    BY <1>6 DEF ReadSealed, WorkerInv, ModeInv, Busy
  <2>2. Segment' = Segment
    BY <1>6 DEF ReadSealed, Segment, files
  <2>3. BatchInv'
    BY <1>6, <2>2 DEF ReadSealed, BatchInv
  <2>4. FlushInv'
    BY <1>6 DEF ReadSealed, FlushInv
  <2>5. KeptInv'
    BY <1>0, <1>6 DEF ReadSealed, WorkerInv, KeptInv, SealedFiles, Busy, files, counters
  <2> QED  BY <2>1, <2>3, <2>4, <2>5 DEF WorkerInv
<1>7. CASE FlushChunk
  <2>1. PICK chunk \in SUBSET left :
               /\ store' = [k \in Keys |-> IF k \in chunk THEN batch[k] ELSE store[k]]
               /\ left' = left \ chunk
    BY <1>7 DEF FlushChunk
  <2>2. ModeInv'
    BY <1>7 DEF FlushChunk, WorkerInv, ModeInv, Busy
  <2>3. Segment' = Segment
    BY <1>7 DEF FlushChunk, Segment, files
  <2>4. BatchInv'
    BY <1>7, <2>1, <2>3 DEF FlushChunk, WorkerInv, BatchInv
  <2>5. FlushInv'
    BY <1>7, <2>1 DEF FlushChunk, WorkerInv, FlushInv
  <2>6. KeptInv'
    BY <1>0, <1>7 DEF FlushChunk, WorkerInv, KeptInv, SealedFiles, Busy, files, counters
  <2> QED  BY <2>2, <2>4, <2>5, <2>6 DEF WorkerInv
<1>8. CASE UpdateMemory
  <2>1. ModeInv'
    BY <1>8 DEF UpdateMemory, WorkerInv, ModeInv, Busy
  <2>2. Segment' = Segment
    BY <1>8 DEF UpdateMemory, Segment, files
  <2>3. BatchInv'
    BY <1>8, <2>2 DEF UpdateMemory, WorkerInv, BatchInv
  <2>4. FlushInv'
    BY <1>8 DEF UpdateMemory, WorkerInv, FlushInv
  <2>5. KeptInv'
    BY <1>0, <1>8 DEF UpdateMemory, WorkerInv, KeptInv, SealedFiles, Busy, files, counters
  <2> QED  BY <2>1, <2>3, <2>4, <2>5 DEF WorkerInv
<1>9. CASE Remove
  <2>1. Proceed /\ UNCHANGED <<mode, todo>> /\ Busy /\ mode # "down"
    BY <1>9 DEF Remove, Busy, WorkerInv, ModeInv
  <2>2. CASE Fails("remove")
    <3>1. ~ NothingKept'
      BY <2>2, FailsKeeps DEF KeepingFaults
    <3> QED  BY <2>1, <3>1, ProceedWorker DEF WorkerInv
  <2>3. CASE sealed' = [sealed EXCEPT ![cur.shard][cur.stamp] = << >>] /\ UNCHANGED faults
    <3>1. ASSUME NEW f \in SealedFiles'
          PROVE  f \in SealedFiles /\ f # cur
      <4>1. f \in [shard : Shards, stamp : Stamps] /\ sealed'[f.shard][f.stamp] # << >>
        BY DEF SealedFiles
      <4>2. cur.shard \in Shards /\ cur.stamp \in Stamps /\ sealed \in [Shards -> [Stamps -> Lines]]
        BY DEF TypeInv, TypeOK
      <4>3. f # cur
        BY <2>3, <4>1, <4>2
      <4>4. sealed'[f.shard][f.stamp] = sealed[f.shard][f.stamp]
        BY <2>3, <4>1, <4>2
      <4> QED  BY <4>1, <4>3, <4>4 DEF SealedFiles
    <3> QED  BY <1>0, <2>1, <2>3, <3>1, ProceedWorker DEF WorkerInv
  <2> QED  BY <1>9, <2>2, <2>3 DEF Remove
<1>10. CASE GiveUp
  <2>1. Proceed /\ UNCHANGED <<mode, todo>> /\ Busy /\ mode # "down"
    BY <1>10 DEF GiveUp, Busy, WorkerInv, ModeInv
  <2>2. ~ NothingKept'
    BY <1>10, FailsKeeps DEF GiveUp, KeepingFaults
  <2> QED  BY <2>1, <2>2, ProceedWorker DEF WorkerInv
<1>11. CASE Start
  <2>1. ModeInv' /\ BatchInv' /\ FlushInv'
    BY <1>11 DEF Start, WorkerInv, ModeInv, BatchInv, FlushInv, Busy
  <2>2. KeptInv'
    BY <1>11 DEF Start, KeptInv, SealedFiles
  <2> QED  BY <2>1, <2>2 DEF WorkerInv
<1>12. CASE ReplayNext
  <2>1. ModeInv' /\ BatchInv' /\ FlushInv'
    BY <1>12 DEF ReplayNext, WorkerInv, ModeInv, BatchInv, FlushInv, Busy
  <2>2. KeptInv'
    BY <1>0, <1>12 DEF ReplayNext, WorkerInv, KeptInv, SealedFiles, Busy, files, counters
  <2> QED  BY <2>1, <2>2 DEF WorkerInv
<1>13. CASE ReplayDone
  <2>1. ModeInv' /\ BatchInv' /\ FlushInv'
    BY <1>13 DEF ReplayDone, WorkerInv, ModeInv, BatchInv, FlushInv
  <2>2. KeptInv'
    BY <1>0, <1>13 DEF ReplayDone, WorkerInv, KeptInv, SealedFiles, Busy, files, counters
  <2> QED  BY <2>1, <2>2 DEF WorkerInv
<1>14. CASE Crash
  <2>1. \A k \in Keys : Nothing[k] = 0
    BY DEF Nothing
  <2> QED
    BY <1>14, <2>1 DEF Crash, WorkerInv, ModeInv, BatchInv, FlushInv, KeptInv
<1>15. CASE Tick
  BY <1>0, <1>15, WorkerIdle DEF Tick, files
<1>16. CASE UNCHANGED vars
  BY <1>0, <1>16, WorkerIdle DEF vars, workerVars
<1>17. CASE SpinOnTornLine
  BY <1>16, <1>17 DEF SpinOnTornLine
<1> QED
  BY <1>1, <1>2, <1>3, <1>4, <1>5, <1>6, <1>7, <1>8, <1>9, <1>10, <1>11, <1>12, <1>13,
     <1>14, <1>15, <1>16, <1>17
  DEF Next, WorkerStep

LEMMA WorkerHolds == Spec => [](TypeInv /\ WorkerInv)
<1>1. TypeInv /\ WorkerInv /\ [Next]_vars => (TypeInv /\ WorkerInv)'
  BY TypeStep, WorkerPreserved
<1> QED  BY <1>1, TypeInit, WorkerInit, PTL DEF Spec

-----------------------------------------------------------------------------
(* What is on disk *)

(* Sealing never writes over a segment: the second in its name is a new    *)
(* one, or no failure of this deployment leaves a segment behind.          *)
NeverOverwritten == FreshStamps \/ Faults \cap KeepingFaults = {}

LEMMA FreshSeal ==
    ASSUME TypeInv, WorkerInv, FreshStamps \/ NothingKept,
           NEW s \in Shards, SealRename(s)
    PROVE  sealed[s][clock] = << >>
<1>1. CASE FreshStamps
  BY <1>1 DEF SealRename
<1>2. CASE NothingKept
  <2>1. SealedFiles = {}
    BY <1>2 DEF SealRename, Sealing, WorkerInv, ModeInv, KeptInv, Busy
  <2>2. [shard |-> s, stamp |-> clock] \in [shard : Shards, stamp : Stamps]
    BY DEF TypeInv, TypeOK
  <2>3. [shard |-> s, stamp |-> clock] \notin SealedFiles
    BY <2>1
  <2> QED  BY <2>2, <2>3 DEF SealedFiles
<1> QED  BY <1>1, <1>2

LEMMA OnDiskIs ==
    ASSUME NEW k
    PROVE  \A e : e \in OnDisk(k) <=> \/ \E s \in Shards : e \in EventsOf(k, live[s])
                                      \/ \E s \in Shards, t \in Stamps :
                                            e \in EventsOf(k, sealed[s][t])
<1>1. \A e : e \in OnDisk(k) <=> \E f \in AllFiles : e \in EventsOf(k, f)
  BY DEF OnDisk
<1>2. \A f : f \in AllFiles <=> \/ \E s \in Shards : f = live[s]
                                \/ \E s \in Shards, t \in Stamps : f = sealed[s][t]
  BY DEF AllFiles
<1> QED  BY <1>1, <1>2

(* A file without lines owes nothing.                                      *)
LEMMA EmptyFile == \A k \in Keys : EventsOf(k, << >>) = {}
<1>1. << >> \in Lines
  BY EmptySeq DEF Lines
<1>2. LinesIn(<< >>) = {}
  BY <1>1, LinesTyped
<1> QED  BY <1>2 DEF EventsOf

(* The events of a player after a line was appended.                       *)
LEMMA EventsOfAppend ==
    ASSUME NEW f \in Lines, NEW e \in Events \cup {Torn}, NEW k \in Keys
    PROVE  EventsOf(k, Append(f, e)) =
              EventsOf(k, f) \cup (IF e # Torn /\ e.key = k THEN {e} ELSE {})
BY LinesOfAppend DEF EventsOf

(* The steps that change which events of a player are on disk: one Append, *)
(* and the removal of the segment in hand.  Sealing only moves them.       *)
LEMMA DiskStep ==
    ASSUME TypeInv, WorkerInv, [Next]_vars, FreshStamps \/ NothingKept, NEW k \in Keys
    PROVE  \/ OnDisk(k)' = OnDisk(k)
           \/ \E a \in Appenders :
                 /\ WriteLine(a)
                 /\ OnDisk(k)' = OnDisk(k) \cup (IF aev[a].key = k THEN {aev[a]} ELSE {})
           \/ /\ Remove
              /\ OnDisk(k)' \subseteq OnDisk(k)
              /\ OnDisk(k) \ OnDisk(k)' \subseteq EventsOf(k, Segment)
<1> DEFINE OnLive(e) == \E s \in Shards : e \in EventsOf(k, live[s])
           OnSealed(e) == \E s \in Shards, t \in Stamps : e \in EventsOf(k, sealed[s][t])
<1>a. \A e : e \in OnDisk(k) <=> OnLive(e) \/ OnSealed(e)
  BY OnDiskIs
<1>b. \A e : e \in OnDisk(k)' <=> OnLive(e)' \/ OnSealed(e)'
  <2>1. \A e : e \in OnDisk(k)' <=> \E f \in AllFiles' : e \in EventsOf(k, f)
    BY DEF OnDisk
  <2>2. \A f : f \in AllFiles' <=> \/ \E s \in Shards : f = live'[s]
                                   \/ \E s \in Shards, t \in Stamps : f = sealed'[s][t]
    BY DEF AllFiles
  <2> QED  BY <2>1, <2>2
<1>c. live \in [Shards -> Lines] /\ sealed \in [Shards -> [Stamps -> Lines]] /\ clock \in Stamps
      /\ cur.shard \in Shards /\ cur.stamp \in Stamps
  BY DEF TypeInv, TypeOK
<1>1. CASE UNCHANGED <<live, sealed>>
  <2>1. OnDisk(k)' = OnDisk(k)
    BY <1>1 DEF OnDisk, AllFiles
  <2> QED  BY <2>1
<1>2. ASSUME NEW a \in Appenders, NEW e \in Events \cup {Torn}, NEW s \in Shards,
             live' = [live EXCEPT ![s] = Append(@, e)], UNCHANGED sealed
      PROVE  OnDisk(k)' = OnDisk(k) \cup (IF e # Torn /\ e.key = k THEN {e} ELSE {})
  <2>1. EventsOf(k, live'[s]) = EventsOf(k, live[s]) \cup (IF e # Torn /\ e.key = k THEN {e} ELSE {})
    BY <1>c, <1>2, EventsOfAppend
  <2>2. \A r \in Shards \ {s} : live'[r] = live[r]
    BY <1>c, <1>2
  <2>3. \A x : OnLive(x)' <=> OnLive(x) \/ x \in (IF e # Torn /\ e.key = k THEN {e} ELSE {})
    BY <2>1, <2>2
  <2>4. \A x : OnSealed(x)' <=> OnSealed(x)
    BY <1>2
  <2> QED  BY <1>a, <1>b, <2>3, <2>4
<1>3. ASSUME NEW a \in Appenders, AppenderStep(a), ~ UNCHANGED <<live, sealed>>
      PROVE  \/ OnDisk(k)' = OnDisk(k)
             \/ /\ WriteLine(a)
                /\ OnDisk(k)' = OnDisk(k) \cup (IF aev[a].key = k THEN {aev[a]} ELSE {})
  <2>1. aev[a] \in Events /\ ShardOf[aev[a].key] \in Shards /\ UNCHANGED sealed
    BY <1>3, WalAssumption
    DEF AppenderStep, WriteLine, WriteLineNoHandle, WriteLineShort, AppendReturns,
        TypeInv, TypeOK, Events
  <2>2. aev[a] # Torn
    BY <2>1, WalAssumption DEF Events, Torn
  <2>3. CASE WriteLine(a)
    BY <1>2, <2>1, <2>2, <2>3 DEF WriteLine
  <2>4. CASE WriteLineShort(a)
    <3>1. live' = [live EXCEPT ![ShardOf[aev[a].key]] = Append(@, Torn)]
      BY <2>4 DEF WriteLineShort
    <3> QED  BY <1>2, <2>1, <3>1
  <2>5. ~ WriteLineNoHandle(a)
    BY <1>3, <2>1 DEF WriteLineNoHandle
  <2> QED  BY <1>3, <2>3, <2>4, <2>5 DEF AppenderStep
<1>4. ASSUME NEW s \in Shards, SealRename(s)
      PROVE  OnDisk(k)' = OnDisk(k)
  <2>1. sealed' = [sealed EXCEPT ![s][clock] = live[s]] /\ live' = [live EXCEPT ![s] = << >>]
    BY <1>4 DEF SealRename
  <2>2. EventsOf(k, sealed[s][clock]) = {} /\ EventsOf(k, live'[s]) = {}
    BY <1>c, <1>4, <2>1, FreshSeal, EmptyFile
  <2>3. sealed'[s][clock] = live[s]
    BY <1>c, <2>1
  <2>4. \A r \in Shards, t \in Stamps : ~ (r = s /\ t = clock) => sealed'[r][t] = sealed[r][t]
    BY <1>c, <2>1
  <2>5. \A r \in Shards \ {s} : live'[r] = live[r]
    BY <1>c, <2>1
  <2>6. \A x : OnLive(x)' <=> \E r \in Shards \ {s} : x \in EventsOf(k, live[r])
    BY <2>2, <2>5
  <2>7. \A x : OnSealed(x)' <=> OnSealed(x) \/ x \in EventsOf(k, live[s])
    BY <1>c, <2>2, <2>3, <2>4
  <2> QED  BY <1>a, <1>b, <2>6, <2>7
<1>5. ASSUME Remove, ~ UNCHANGED <<live, sealed>>
      PROVE  /\ OnDisk(k)' \subseteq OnDisk(k)
             /\ OnDisk(k) \ OnDisk(k)' \subseteq EventsOf(k, Segment)
  <2>1. sealed' = [sealed EXCEPT ![cur.shard][cur.stamp] = << >>] /\ UNCHANGED live
    BY <1>5 DEF Remove
  <2>2. \A r \in Shards, t \in Stamps :
           ~ (r = cur.shard /\ t = cur.stamp) => sealed'[r][t] = sealed[r][t]
    BY <1>c, <2>1
  <2>3. EventsOf(k, sealed'[cur.shard][cur.stamp]) = {}
    BY <1>c, <2>1, EmptyFile
  <2>4. \A x : OnLive(x)' <=> OnLive(x)
    BY <2>1
  <2>5. \A x : OnSealed(x)' => OnSealed(x)
    BY <2>2, <2>3
  <2>6. \A x : OnSealed(x) => OnSealed(x)' \/ x \in EventsOf(k, Segment)
    BY <2>2 DEF Segment
  <2> QED  BY <1>a, <1>b, <2>4, <2>5, <2>6
<1>6. \/ UNCHANGED <<live, sealed>>
      \/ \E a \in Appenders : AppenderStep(a)
      \/ \E s \in Shards : SealRename(s)
      \/ Remove
  BY DEF Next, vars, WorkerStep, TakeSeq, StartRound, SealEmpty, SealStatFails, SealRecreate,
         SealRenameFails, ReadSealed, SpinOnTornLine, FlushChunk, UpdateMemory, GiveUp, Start,
         ReplayNext, ReplayDone, Crash, Tick, files
<1> QED  BY <1>1, <1>3, <1>4, <1>5, <1>6

(* The one step that changes the row of a player: a transaction commits    *)
(* the event the batch has of it, which the segment in hand holds.         *)
LEMMA StoreStep ==
    ASSUME TypeInv, WorkerInv, [Next]_vars, NEW k \in Keys, store'[k] # store[k]
    PROVE  /\ FlushChunk /\ wpc = "flush" /\ k \in left
           /\ store'[k] = batch[k] /\ batch[k] # 0
           /\ EventsOf(k, Segment) # {} /\ batch[k] = Kept(k, Segment).n
<1>1. FlushChunk
  BY DEF Next, vars, AppenderStep, AppendReturns, WriteLine, WriteLineNoHandle, WriteLineShort,
         WorkerStep, TakeSeq, StartRound, SealEmpty, SealStatFails, SealRecreate,
         SealRenameFails, SealRename, ReadSealed, SpinOnTornLine, UpdateMemory, Remove, GiveUp,
         Start, ReplayNext, ReplayDone, Crash, Tick
<1>2. PICK chunk \in SUBSET left :
             store' = [x \in Keys |-> IF x \in chunk THEN batch[x] ELSE store[x]]
  BY <1>1 DEF FlushChunk
<1>3. k \in chunk /\ store'[k] = batch[k]
  BY <1>2
<1>4. k \in left /\ batch[k] # 0 /\ wpc = "flush" /\ batch = Dedupe(Segment)
  BY <1>1, <1>3 DEF FlushChunk, WorkerInv, BatchInv
<1>5. Segment \in Lines
  BY DEF TypeInv, TypeOK, Segment
<1> QED  BY <1>1, <1>3, <1>4, <1>5, DedupeTyped

(* A player of the segment the worker is about to remove is in the store.  *)
LEMMA RemovedIsStored ==
    ASSUME TypeInv, WorkerInv, wpc = "remove", NEW k \in Keys, EventsOf(k, Segment) # {}
    PROVE  store[k] = Kept(k, Segment).n /\ store[k] # 0 /\ mem[k] = store[k]
<1>1. Segment \in Lines
  BY DEF TypeInv, TypeOK, Segment
<1>2. batch[k] # 0 /\ batch[k] = Kept(k, Segment).n
  BY <1>1, DedupeTyped DEF WorkerInv, BatchInv
<1> QED  BY <1>2 DEF WorkerInv, BatchInv, FlushInv

-----------------------------------------------------------------------------
(* Nothing is lost *)

LEMMA NeverLostStep ==
    ASSUME TypeInv, WorkerInv, PlayerNeverLost, FreshStamps \/ NothingKept, [Next]_vars
    PROVE  PlayerNeverLost'
<1> DEFINE Safe(k) == acked[k] # 0 => store[k] # 0 \/ OnDisk(k) # {}
<1>1. PlayerNeverLost <=> \A k \in Keys : Safe(k)
  BY DEF PlayerNeverLost, Owed
<1>2. PlayerNeverLost' <=> \A k \in Keys : Safe(k)'
  BY DEF PlayerNeverLost, Owed
<1> SUFFICES ASSUME NEW k \in Keys, acked'[k] # 0, store'[k] = 0
             PROVE  OnDisk(k)' # {}
  BY <1>2
<1>3. store[k] = 0
  BY StoreStep
<1>4. CASE acked[k] = 0
  <2>1. PICK a \in Appenders : WriteLine(a)
    BY <1>4
    DEF Next, vars, AppenderStep, AppendReturns, WriteLineNoHandle, WriteLineShort,
        WorkerStep, TakeSeq, StartRound, SealEmpty, SealStatFails, SealRecreate,
        SealRenameFails, SealRename, ReadSealed, SpinOnTornLine, FlushChunk, UpdateMemory,
        Remove, GiveUp, Start, ReplayNext, ReplayDone, Crash, Tick
  <2>2. aev[a].key = k /\ aev[a] \in Events /\ ShardOf[k] \in Shards
    BY <1>4, <2>1, WalAssumption DEF WriteLine, TypeInv, TypeOK
  <2>3. live[ShardOf[k]] \in Lines /\ live'[ShardOf[k]] = Append(live[ShardOf[k]], aev[a])
    BY <2>1, <2>2 DEF WriteLine, TypeInv, TypeOK
  <2>4. aev[a] \in EventsOf(k, live'[ShardOf[k]])
    <3>1. aev[a] # Torn
      BY <2>2, WalAssumption DEF Events, Torn
    <3> QED  BY <2>2, <2>3, <3>1, EventsOfAppend
  <2> QED  BY <2>2, <2>4 DEF OnDisk, AllFiles
<1>5. CASE acked[k] # 0
  <2>1. OnDisk(k) # {}
    BY <1>1, <1>3, <1>5
  <2>2. OnDisk(k) \ OnDisk(k)' = {}
    <3>1. CASE Remove /\ OnDisk(k) \ OnDisk(k)' \subseteq EventsOf(k, Segment)
      <4>1. EventsOf(k, Segment) = {}
        BY <1>3, <3>1, RemovedIsStored DEF Remove
      <4> QED  BY <3>1, <4>1
    <3> QED  BY <3>1, DiskStep
  <2> QED  BY <2>1, <2>2
<1> QED  BY <1>4, <1>5

(* "enqueued" in the answer of /admin/seed: a player whose Append returned *)
(* nil is in the table, or one of its lines is on disk, through any        *)
(* failures, crashes and replays, as long as no segment is overwritten.    *)
THEOREM EnqueuedIsNeverLost == NeverOverwritten => (Spec => []PlayerNeverLost)
<1> SUFFICES ASSUME NeverOverwritten PROVE Spec => []PlayerNeverLost
  OBVIOUS
<1>1. FreshStamps \/ NothingKept
  BY DEF NeverOverwritten, NothingKept
<1>2. Init => PlayerNeverLost
  BY DEF Init, PlayerNeverLost, Nothing
<1>3. TypeInv /\ WorkerInv /\ PlayerNeverLost /\ [Next]_vars => PlayerNeverLost'
  BY <1>1, NeverLostStep
<1> QED  BY <1>2, <1>3, WorkerHolds, PTL DEF Spec

(* SPEC 13.3.3, a sealed segment is immutable: it disappears only when the *)
(* worker that has flushed it removes it, every player in it being in the  *)
(* table, and no sealing writes over it.                                   *)
THEOREM SegmentsAreImmutable == NeverOverwritten => (Spec => SealedIsImmutable)
<1> SUFFICES ASSUME NeverOverwritten PROVE Spec => SealedIsImmutable
  OBVIOUS
<1> DEFINE Undisturbed == \A s \in Shards, t \in Stamps :
              sealed[s][t] \notin {<< >>, sealed'[s][t]} =>
                 /\ sealed'[s][t] = << >>
                 /\ wpc = "remove" /\ cur = [shard |-> s, stamp |-> t]
                 /\ \A k \in Keys : EventsOf(k, sealed[s][t]) # {} => store[k] # 0
<1>1. ASSUME TypeInv, WorkerInv, [Next]_vars PROVE Undisturbed
  <2> SUFFICES ASSUME NEW s \in Shards, NEW t \in Stamps,
                      sealed[s][t] # << >>, sealed'[s][t] # sealed[s][t]
               PROVE  /\ sealed'[s][t] = << >>
                      /\ wpc = "remove" /\ cur = [shard |-> s, stamp |-> t]
                      /\ \A k \in Keys : EventsOf(k, sealed[s][t]) # {} => store[k] # 0
    OBVIOUS
  <2>0. FreshStamps \/ NothingKept
    BY DEF NeverOverwritten, NothingKept
  <2>1. sealed \in [Shards -> [Stamps -> Lines]] /\ cur \in [shard : Shards, stamp : Stamps]
        /\ clock \in Stamps
    BY <1>1 DEF TypeInv, TypeOK
  <2>2. ASSUME NEW r \in Shards, SealRename(r) PROVE FALSE
    <3>1. sealed' = [sealed EXCEPT ![r][clock] = live[r]]
      BY <2>2 DEF SealRename
    <3>2. sealed[r][clock] = << >>
      BY <1>1, <2>0, <2>2, FreshSeal
    <3> QED  BY <2>1, <3>1, <3>2
  <2>3. Remove
    BY <1>1, <2>2
    DEF Next, vars, AppenderStep, AppendReturns, WriteLine, WriteLineNoHandle, WriteLineShort,
        WorkerStep, TakeSeq, StartRound, SealEmpty, SealStatFails, SealRecreate,
        SealRenameFails, ReadSealed, SpinOnTornLine, FlushChunk, UpdateMemory, GiveUp, Start,
        ReplayNext, ReplayDone, Crash, Tick, files
  <2>4. sealed' = [sealed EXCEPT ![cur.shard][cur.stamp] = << >>] /\ wpc = "remove"
    BY <2>3 DEF Remove
  <2>5. s = cur.shard /\ t = cur.stamp /\ sealed'[s][t] = << >>
    BY <2>1, <2>4
  <2>6. cur = [shard |-> s, stamp |-> t] /\ Segment = sealed[s][t]
    BY <2>1, <2>5 DEF Segment
  <2> QED  BY <1>1, <2>4, <2>5, <2>6, RemovedIsStored
<1>2. TypeInv /\ WorkerInv /\ [Next]_vars => [Undisturbed]_vars
  BY <1>1
<1> QED  BY <1>2, WorkerHolds, PTL DEF Spec, SealedIsImmutable

-----------------------------------------------------------------------------
(* The ranking and the store *)

(* The players whose row the running flush has not committed, and all      *)
(* others outside a flush, are on the ranking what they are in the store,  *)
(* unless a flush may fail half-way.                                       *)
MemInv ==
    "flush" \notin Faults /\ mode # "down" =>
        \A k \in Keys : wpc # "flush" \/ batch[k] = 0 \/ k \in left => mem[k] = store[k]

(* Where it may, the players that lag are in a sealed segment.             *)
Retained(k) == \E s \in Shards, t \in Stamps : EventsOf(k, sealed[s][t]) # {}

LagInv == mode # "down" => \A k \in Keys : mem[k] # store[k] => Retained(k)

(* The steps that change the tables, the board or the worker's locals.     *)
LEMMA TableSteps ==
    ASSUME TypeInv, [Next]_vars
    PROVE  \/ UNCHANGED <<store, mem, mode, wpc, batch, left>>
           \/ StartRound \/ (\E s \in Shards : SealRename(s)) \/ ReadSealed \/ FlushChunk
           \/ UpdateMemory \/ Remove \/ GiveUp \/ Start \/ ReplayNext \/ ReplayDone \/ Crash
           \/ wpc = "seal" /\ Proceed /\ UNCHANGED <<store, mem, mode>>
BY DEF Next, vars, AppenderStep, AppendReturns, WriteLine, WriteLineNoHandle, WriteLineShort,
       WorkerStep, TakeSeq, SealEmpty, SealStatFails, SealRecreate,
       SealRenameFails, SpinOnTornLine, Tick, files, Sealing, workerVars

LEMMA ProceedLeavesFlush ==
    ASSUME Proceed
    PROVE  wpc' # "flush"
BY DEF Proceed

LEMMA MemStep ==
    ASSUME TypeInv, WorkerInv, MemInv, [Next]_vars
    PROVE  MemInv'
<1> SUFFICES ASSUME "flush" \notin Faults, mode' # "down", NEW k \in Keys,
                    wpc' # "flush" \/ batch'[k] = 0 \/ k \in left'
             PROVE  mem'[k] = store'[k]
  BY DEF MemInv
<1>0. mode # "down" => (wpc # "flush" \/ batch[k] = 0 \/ k \in left => mem[k] = store[k])
  BY DEF MemInv
<1>1. CASE UNCHANGED <<store, mem, mode, wpc, batch, left>>
  BY <1>0, <1>1
<1>2. CASE wpc # "flush" /\ mode # "down" /\ UNCHANGED <<store, mem>>
  BY <1>0, <1>2
<1>3. CASE FlushChunk
  <2>1. PICK chunk \in SUBSET left :
               /\ store' = [x \in Keys |-> IF x \in chunk THEN batch[x] ELSE store[x]]
               /\ left' = left \ chunk
    BY <1>3 DEF FlushChunk
  <2>2. batch'[k] = 0 \/ k \in left'
    BY <1>3 DEF FlushChunk
  <2>3. k \notin chunk
    BY <1>3, <2>1, <2>2 DEF FlushChunk, WorkerInv, BatchInv
  <2> QED  BY <1>0, <1>3, <2>1, <2>2, <2>3 DEF FlushChunk
<1>4. CASE UpdateMemory
  <2>1. batch[k] = 0 => mem[k] = store[k]
    BY <1>0, <1>4 DEF UpdateMemory
  <2> QED  BY <1>4, <2>1 DEF UpdateMemory
<1>5. CASE Start
  BY <1>5 DEF Start
<1>6. CASE StartRound \/ (\E s \in Shards : SealRename(s)) \/ ReadSealed \/ Remove
           \/ ReplayNext \/ ReplayDone \/ (wpc = "seal" /\ Proceed /\ UNCHANGED <<store, mem, mode>>)
  <2>1. wpc # "flush" /\ mode # "down" /\ UNCHANGED <<store, mem>>
    BY <1>6
    DEF StartRound, SealRename, Sealing, ReadSealed, Remove, ReplayNext, ReplayDone, files,
        WorkerInv, ModeInv
  <2> QED  BY <1>2, <2>1
<1>7. CASE GiveUp
  <2>1. wpc = "read" /\ mode # "down" /\ UNCHANGED <<store, mem>>
    BY <1>7 DEF GiveUp, Fails, WorkerInv, ModeInv
  <2> QED  BY <1>2, <2>1
<1>8. CASE Crash
  BY <1>8 DEF Crash
<1> QED  BY <1>1, <1>3, <1>4, <1>5, <1>6, <1>7, <1>8, TableSteps

(* The ranking shows exactly the store whenever no flush is between its    *)
(* first commit and the memory update, through crashes and replays, as     *)
(* long as no transaction of a flush fails.                                *)
THEOREM RankingIsStore == "flush" \notin Faults => (Spec => []MemoryShowsStore)
<1> SUFFICES ASSUME "flush" \notin Faults PROVE Spec => []MemoryShowsStore
  OBVIOUS
<1>1. Init => MemInv
  BY DEF Init, MemInv
<1>2. TypeInv /\ WorkerInv /\ MemInv /\ [Next]_vars => MemInv'
  BY MemStep
<1>3. TypeInv /\ MemInv => MemoryShowsStore
  <2> SUFFICES ASSUME TypeInv, MemInv, mode # "down", wpc # "flush" PROVE mem = store
    BY DEF MemoryShowsStore
  <2>1. \A k \in Keys : mem[k] = store[k]
    BY DEF MemInv
  <2>2. mem \in [Keys -> Numbers] /\ store \in [Keys -> Numbers]
    BY DEF TypeInv, TypeOK
  <2> QED  BY <2>1, <2>2
<1> QED  BY <1>1, <1>2, <1>3, WorkerHolds, PTL DEF Spec

LEMMA RetainedStep ==
    ASSUME TypeInv, WorkerInv, FreshStamps \/ NothingKept, [Next]_vars,
           NEW k \in Keys, Retained(k), ~ Retained(k)'
    PROVE  Remove /\ EventsOf(k, Segment) # {}
<1> USE DEF Retained
<1>0. /\ sealed \in [Shards -> [Stamps -> Lines]] /\ clock \in Stamps
      /\ cur.shard \in Shards /\ cur.stamp \in Stamps
  BY DEF TypeInv, TypeOK
<1>1. PICK s \in Shards, t \in Stamps : EventsOf(k, sealed[s][t]) # {}
  OBVIOUS
<1>2. sealed'[s][t] # sealed[s][t]
  BY <1>1
<1>3. ASSUME NEW r \in Shards, SealRename(r) PROVE FALSE
  <2>1. sealed' = [sealed EXCEPT ![r][clock] = live[r]]
    BY <1>3 DEF SealRename
  <2>2. sealed[r][clock] = << >>
    BY <1>3, FreshSeal
  <2>3. s = r /\ t = clock
    BY <1>0, <1>2, <2>1
  <2> QED  BY <1>1, <2>2, <2>3, EmptyFile
<1>4. Remove
  BY <1>2, <1>3
  DEF Next, vars, AppenderStep, AppendReturns, WriteLine, WriteLineNoHandle, WriteLineShort,
      WorkerStep, TakeSeq, StartRound, SealEmpty, SealStatFails, SealRecreate,
      SealRenameFails, ReadSealed, SpinOnTornLine, FlushChunk, UpdateMemory, GiveUp, Start,
      ReplayNext, ReplayDone, Crash, Tick, files
<1>5. s = cur.shard /\ t = cur.stamp
  BY <1>0, <1>2, <1>4 DEF Remove
<1> QED  BY <1>1, <1>4, <1>5 DEF Segment

LEMMA LagStep ==
    ASSUME TypeInv, WorkerInv, LagInv, FreshStamps \/ NothingKept, [Next]_vars
    PROVE  LagInv'
<1> SUFFICES ASSUME mode' # "down", NEW k \in Keys, mem'[k] # store'[k]
             PROVE  Retained(k)'
  BY DEF LagInv
<1>1. ~ Start /\ ~ Crash
  BY DEF Start, Crash
<1>2. CASE mem[k] = store[k]
  <2>1. mem'[k] = mem[k] \/ UpdateMemory
    BY <1>1, TableSteps
    DEF StartRound, SealRename, ReadSealed, FlushChunk, Remove, GiveUp, ReplayNext, ReplayDone
  <2>2. ~ UpdateMemory
    BY <1>2 DEF UpdateMemory
  <2>3. store'[k] # store[k]
    BY <1>2, <2>1, <2>2
  <2>4. FlushChunk /\ EventsOf(k, Segment) # {}
    BY <2>3, StoreStep
  <2>5. sealed' = sealed /\ cur.shard \in Shards /\ cur.stamp \in Stamps
    BY <2>4 DEF FlushChunk, files, TypeInv, TypeOK
  <2> QED  BY <2>4, <2>5 DEF Retained, Segment
<1>3. CASE mem[k] # store[k]
  <2>1. mode # "down"
    BY <1>1, TableSteps
    DEF StartRound, SealRename, Sealing, ReadSealed, FlushChunk, UpdateMemory, Remove, GiveUp,
        ReplayNext, ReplayDone, WorkerInv, ModeInv
  <2>2. Retained(k)
    BY <1>3, <2>1 DEF LagInv
  <2>3. ASSUME Remove, EventsOf(k, Segment) # {} PROVE FALSE
    BY <1>3, <2>3, RemovedIsStored DEF Remove
  <2> QED  BY <2>2, <2>3, RetainedStep
<1> QED  BY <1>2, <1>3

(* Where flushes can fail half-way, the ranking lags behind the store only *)
(* for players of a segment that is kept and will be replayed.             *)
THEOREM LagIsTemporary == NeverOverwritten => (Spec => []LagIsRetained)
<1> SUFFICES ASSUME NeverOverwritten PROVE Spec => []LagIsRetained
  OBVIOUS
<1>1. FreshStamps \/ NothingKept
  BY DEF NeverOverwritten, NothingKept
<1>2. Init => LagInv
  BY DEF Init, LagInv
<1>3. TypeInv /\ WorkerInv /\ LagInv /\ [Next]_vars => LagInv'
  BY <1>1, LagStep
<1>4. LagInv => LagIsRetained
  BY DEF LagInv, LagIsRetained, Retained
<1> QED  BY <1>2, <1>3, <1>4, WorkerHolds, PTL DEF Spec

-----------------------------------------------------------------------------
(* Wal implements Inbox *)

(* Nobody is accepted and nobody stored.                                   *)
LEMMA InitRefines == Init => IB!Init
<1> SUFFICES ASSUME Init PROVE IB!Init
  OBVIOUS
<1>1. \A k \in Keys : store[k] = 0
  BY DEF Init, Nothing
<1>2. \A k \in Keys : OnDisk(k) = {}
  <2>1. \A s \in Shards : live[s] = << >> /\ \A t \in Stamps : sealed[s][t] = << >>
    BY DEF Init
  <2> QED  BY <2>1, OnDiskIs, EmptyFile
<1> QED  BY <1>1, <1>2 DEF IB!Init, Owed

(* An Append accepts its player, a transaction delivers the players it     *)
(* inserts, and every other step is a stutter: sealing moves lines, what   *)
(* is removed is delivered already.                                        *)
LEMMA StepRefines ==
    ASSUME TypeInv, WorkerInv, FreshStamps \/ NothingKept, [Next]_vars
    PROVE  IB!Next \/ UNCHANGED IB!vars
<1> DEFINE Stored == {k \in Keys : store[k] # 0}
           New == {k \in Keys : store[k] = 0 /\ store'[k] # 0}
<1>0. \A k \in Keys : store[k] # 0 => store'[k] # 0
  BY StoreStep
<1>1. Stored' = Stored \cup New
  BY <1>0
<1>2. New \subseteq Owed
  <2> SUFFICES ASSUME NEW k \in New PROVE OnDisk(k) # {}
    BY DEF Owed
  <2>1. EventsOf(k, Segment) # {}
    BY StoreStep
  <2>2. cur.shard \in Shards /\ cur.stamp \in Stamps
    BY DEF TypeInv, TypeOK
  <2> QED  BY <2>1, <2>2, OnDiskIs DEF Segment
<1>3. CASE \A k \in Keys : store[k] = 0 /\ store'[k] = 0 => (OnDisk(k) # {} <=> OnDisk(k)' # {})
  <2>1. Owed' = Owed \ New
    BY <1>0, <1>3 DEF Owed
  <2>2. CASE New = {}
    <3>1. Owed' = Owed /\ Stored' = Stored
      BY <1>1, <2>1, <2>2
    <3>2. UNCHANGED IB!vars
      BY <3>1 DEF IB!vars
    <3> QED  BY <3>2
  <2>3. CASE New # {}
    <3>1. New # {} /\ New \in SUBSET Owed /\ Owed' = Owed \ New /\ Stored' = Stored \cup New
      BY <1>1, <1>2, <2>1, <2>3
    <3>2. \E d \in SUBSET Owed : d # {} /\ Owed' = Owed \ d /\ Stored' = Stored \cup d
      <4> HIDE DEF New, Stored
      <4> QED  BY <3>1
    <3> QED  BY <3>2 DEF IB!Next, IB!Deliver
  <2> QED  BY <2>2, <2>3
<1>4. ASSUME NEW k \in Keys, store[k] = 0, store'[k] = 0,
             ~ (OnDisk(k) # {} <=> OnDisk(k)' # {})
      PROVE  \E p \in Keys : IB!Accept(p)
  <2>1. ~ Remove
    <3> SUFFICES ASSUME Remove PROVE FALSE
      OBVIOUS
    <3>1. OnDisk(k) # OnDisk(k)' /\ ~ \E a \in Appenders : WriteLine(a)
      <4>1. ~ \E a \in Appenders : WriteLine(a)
        BY DEF Remove, WriteLine, AppendReturns, WorkerInv, ModeInv, TypeInv, TypeOK, Proceed, workerVars
      <4> QED  BY <1>4, <4>1
    <3>2. OnDisk(k)' \subseteq OnDisk(k) /\ OnDisk(k) \ OnDisk(k)' \subseteq EventsOf(k, Segment)
      BY <3>1, DiskStep
    <3>3. EventsOf(k, Segment) # {}
      BY <3>1, <3>2
    <3> QED  BY <1>4, <3>3, RemovedIsStored DEF Remove
  <2>2. PICK a \in Appenders :
               /\ WriteLine(a)
               /\ OnDisk(k)' = OnDisk(k) \cup (IF aev[a].key = k THEN {aev[a]} ELSE {})
    BY <1>4, <2>1, DiskStep
  <2>3. aev[a].key = k /\ OnDisk(k) = {} /\ OnDisk(k)' # {}
    BY <1>4, <2>2
  <2>4. UNCHANGED store
    BY <2>2 DEF WriteLine, AppendReturns
  <2>5. \A q \in Keys \ {k} : OnDisk(q)' = OnDisk(q)
    <3> SUFFICES ASSUME NEW q \in Keys, q # k PROVE OnDisk(q)' = OnDisk(q)
      OBVIOUS
    <3>1. \A b \in Appenders : WriteLine(b) => b = a
      <4> SUFFICES ASSUME NEW b \in Appenders, WriteLine(b), b # a PROVE FALSE
        OBVIOUS
      <4>1. apc[b] = "write" /\ apc' = [apc EXCEPT ![a] = "idle"] /\ apc' = [apc EXCEPT ![b] = "idle"]
        BY <2>2 DEF WriteLine, AppendReturns
      <4> QED  BY <4>1 DEF TypeInv, TypeOK
    <3>2. CASE \E b \in Appenders :
                  /\ WriteLine(b)
                  /\ OnDisk(q)' = OnDisk(q) \cup (IF aev[b].key = q THEN {aev[b]} ELSE {})
      BY <2>3, <3>1, <3>2
    <3> QED  BY <2>1, <3>2, DiskStep
  <2>6. Owed' = Owed \cup {k} /\ k \notin Owed \cup Stored /\ Stored' = Stored
    BY <1>4, <2>3, <2>4, <2>5 DEF Owed
  <2> QED  BY <2>6 DEF IB!Accept
<1> QED  BY <1>3, <1>4 DEF IB!Next

(* If no segment is overwritten, the log delivers every accepted player to *)
(* the table, once and for good, whatever else fails and however often the *)
(* process starts.                                                         *)
THEOREM ImplementsInbox == NeverOverwritten => (Spec => NothingLost)
<1> SUFFICES ASSUME NeverOverwritten PROVE Spec => NothingLost
  OBVIOUS
<1>1. FreshStamps \/ NothingKept
  BY DEF NeverOverwritten, NothingKept
<1>2. TypeInv /\ WorkerInv /\ [Next]_vars => [IB!Next]_(IB!vars)
  BY <1>1, StepRefines
<1> QED  BY <1>2, InitRefines, WorkerHolds, PTL DEF Spec, NothingLost, IB!Spec

=============================================================================
