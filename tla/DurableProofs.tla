---------------------------- MODULE DurableProofs ----------------------------
(***************************************************************************)
(* Proofs about TaskProgress, for every number of pieces, handlers and     *)
(* crashes: what the row of a torrent says is true of the disk.            *)
(*                                                                         *)
(* On top of the invariants of ProgressProofs, Backed says that what is    *)
(* recorded, or lies below an offset, is written, and Counted that a       *)
(* FileWriter is only ever dropped when there is nothing left to write.    *)
(***************************************************************************)
EXTENDS ProgressProofs, FiniteSetTheorems

\* A piece can be resumed at this offset, from what the file reads.
OffOK(disk, p, o) ==
    /\ \A b \in Block : b < o => disk[p][b] = "good"
    /\ PowerLoss => o = 0
UbOK(disk, ub) == \A p \in Piece : ub[p] # None => OffOK(disk, p, ub[p].off)

\* What a handler knows of its block and of its piece is so.
TaskBacked(disk, k) ==
    /\ UbOK(disk, k.row.ub)
    /\ Fetches(k) => k.good = TRUE /\ OffOK(disk, k.piece, k.off)
    /\ Wrote(k) => disk[k.piece][k.block] = "good"
    /\ Owns(k) => IntactOn(disk, k.piece)
    /\ k.pc \notin {"reset", "uncount"}

Above(disk, other) ==
    \A p \in Piece, b \in Block : other[p][b] = "good" => disk[p][b] = "good"
RecordOK(disk, rec) ==
    \A p \in Piece : rec[p] # None => \A b \in rec[p] : disk[p][b] = "good"

\* What is recorded, or has an offset beyond it, is stored.
Backed ==
    /\ Above(cache, durable)
    /\ RecordOK(cache, record)
    /\ UbOK(cache, underway)
    /\ db # None => UbOK(cache, db.ub)
    /\ \A t \in Task : TaskBacked(cache, task[t])

\* The blocks that nobody will write any more.
DoneAt(p, b) ==
    \/ p \in bytefield
    \/ record[p] # None /\ b \in record[p]
    \/ \E t \in Task : /\ task[t].piece = p
                       /\ Owns(task[t]) \/ (Wrote(task[t]) /\ task[t].block = b)
Done == {pb \in Piece \X Block : DoneAt(pb[1], pb[2])}

Synced == durable = cache

\* A writer is dropped when nothing is left to write, and what was written is synced
\* before it is verified.
Counted ==
    /\ writer # None => writer.len + writer.buf <= Cardinality(Done)
    /\ \A t \in Task :
          /\ task[t].drop = TRUE => Done = Piece \X Block /\ Synced
          /\ Wrote(task[t]) \/ task[t].pc \in {"count", "check", "flush"} =>
                writer # None \/ Synced
          /\ task[t].pc \in {"drop", "hash", "mark"} => IntactOn(durable, task[t].piece)
          /\ task[t].pc = "unmark" => task[t].piece \in bytefield
    /\ \A p \in bytefield : IntactOn(durable, p)
    /\ ~Up => RowDurable /\ FinishedComplete

-----------------------------------------------------------------------------
(* What is recorded is stored *)

\* What is good stays good.
LEMMA AboveKeeps ==
    ASSUME NEW d1, NEW d2, Above(d2, d1)
    PROVE  /\ \A p \in Piece : IntactOn(d1, p) => IntactOn(d2, p)
           /\ \A p \in Piece, o \in 0 .. Blocks : OffOK(d1, p, o) => OffOK(d2, p, o)
           /\ \A ub : UbOK(d1, ub) => UbOK(d2, ub)
           /\ \A k : TaskOK(k) /\ TaskBacked(d1, k) => TaskBacked(d2, k)
           /\ \A rec \in [Piece -> {None} \cup SUBSET Block] :
                 RecordOK(d1, rec) => RecordOK(d2, rec)
<1>1. \A p \in Piece : IntactOn(d1, p) => IntactOn(d2, p)
  BY Zenon DEF Above, IntactOn
<1>2. \A p \in Piece : \A o : OffOK(d1, p, o) => OffOK(d2, p, o)
  BY Zenon DEF Above, OffOK
<1>3. \A ub : UbOK(d1, ub) => UbOK(d2, ub)
  BY <1>2, Zenon DEF UbOK
<1>4. ASSUME NEW k, TaskOK(k), TaskBacked(d1, k) PROVE TaskBacked(d2, k)
  <2>1. Fetches(k) \/ Wrote(k) \/ Owns(k) => k.piece \in Piece
    BY <1>4, Zenon DEF TaskOK, Fetches, Wrote, Owns, FetchPC, WrotePC, OwnPC, BlockPC, FlushPC
  <2>2. k.block \in Block
    BY <1>4, ZenonT(30) DEF TaskOK, TaskType
  <2>3. Wrote(k) => d2[k.piece][k.block] = "good"
    BY <1>4, <2>1, <2>2, ZenonT(30) DEF TaskBacked, Above
  <2> QED BY <1>1, <1>2, <1>3, <1>4, <2>1, <2>3, ZenonT(30) DEF TaskBacked
<1>5. \A rec \in [Piece -> {None} \cup SUBSET Block] : RecordOK(d1, rec) => RecordOK(d2, rec)
  BY Zenon DEF Above, RecordOK
<1> QED BY <1>1, <1>2, <1>3, <1>4, <1>5, ZenonT(30)

LEMMA AboveSame == ASSUME NEW d PROVE Above(d, d)
BY Zenon DEF Above

LEMMA IdleBacked == ASSUME NEW d PROVE TaskBacked(d, Idle)
BY IdleIs, EmptyRowIs, ZenonT(30) DEF TaskBacked, UbOK

LEMMA WriteGood ==
    ASSUME Types, Backed, NEW t \in Task, Write(t)
    PROVE  /\ task[t].piece \in Piece /\ task[t].block \in Block /\ Fetches(task[t])
           /\ cache' = [cache EXCEPT ![task[t].piece][task[t].block] = "good"]
           /\ cache'[task[t].piece][task[t].block] = "good"
           /\ Above(cache', cache)
           /\ UNCHANGED <<bytefield, record, underway, durable, db>>
<1> DEFINE p == task[t].piece
           b == task[t].block
<1>1. /\ p \in Piece /\ b \in Block /\ Fetches(task[t]) /\ cache \in Content
  BY AtIs, TypesSplit, ZenonT(30) DEF Write, DataTypes, TaskType, Fetches, FetchPC, BlockPC
<1>2. task[t].good = TRUE
  BY <1>1, Zenon DEF Backed, TaskBacked
<1>3. /\ cache' = [cache EXCEPT ![p][b] = "good"]
      /\ UNCHANGED <<bytefield, record, underway, durable, db>>
  BY <1>2, Zenon DEF Write, memVars
<1> HIDE DEF p, b
<1>4. cache'[p][b] = "good" /\ Above(cache', cache)
  BY <1>1, <1>3, Zenon DEF Content, Above
<1> QED BY <1>1, <1>3, <1>4, ZenonT(30) DEF p, b

LEMMA PowerAbove ==
    ASSUME Types, Backed, LosePower
    PROVE  /\ durable' = cache' /\ Above(cache', durable)
<1>1. durable' = cache'
  BY Zenon DEF LosePower
<1>2. cache \in Content /\ durable \in Content
  BY TypesSplit, Zenon DEF DataTypes
<1>3. PICK kept : cache' = [p \in Piece |-> [b \in Block |->
                       IF <<p, b>> \in kept THEN cache[p][b] ELSE durable[p][b]]]
  BY ZenonT(30) DEF LosePower
<1>4. \A p \in Piece, b \in Block : cache'[p][b] \in {cache[p][b], durable[p][b]}
  BY <1>3, Zenon
<1>5. Above(cache', durable)
  BY <1>4, ZenonT(30) DEF Above, Backed
<1> QED BY <1>1, <1>5, Zenon

LEMMA BackedKept ==
    BadLimit = 0 /\ AgainLimit = 0 /\ (PowerLoss = FALSE \/ Blocks = 1)
        /\ Types /\ Within /\ Backed /\ [Next]_vars
    => Backed'
<1>BackedMove.
      ASSUME Types, Backed, NEW t \in Task, NEW k, Step(t, k), Above(cache', cache),
             Above(cache', durable'), RecordOK(cache', record'), UbOK(cache', underway'),
             db' = db \/ UbOK(cache', db'.ub), TaskBacked(cache', k)
      PROVE  Backed'
  <2> USE <1>BackedMove
  <2>1. task'[t] = k /\ \A u \in Task : u # t => task'[u] = task[u]
    BY Stepped, ZenonT(30)
  <2>2. \A u \in Task : TaskOK(task[u]) /\ TaskBacked(cache, task[u])
    BY TypesSplit, ZenonT(30) DEF Backed
  <2>3. \A u \in Task : TaskBacked(cache', task[u])
    BY <2>2, AboveKeeps, ZenonT(30)
  <2>4. db' # None => UbOK(cache', db'.ub)
    BY AboveKeeps, Zenon DEF Backed
  <2>5. \A u \in Task : TaskBacked(cache', task'[u])
    BY <2>1, <2>3, Zenon
  <2> QED BY <2>4, <2>5, ZenonT(30) DEF Backed
\* The state of the store and of the task is as before, but for the flush.
<1>BackedStays.
      ASSUME Types, Backed, NEW t \in Task, NEW k, Step(t, k), UNCHANGED <<cache, record, underway>>,
             durable' \in {durable, cache}, db' = db \/ db' = task[t].row, TaskBacked(cache, k)
      PROVE  Backed'
  <2> USE <1>BackedStays
  <2>1. Above(cache', cache) /\ Above(cache', durable')
    BY AboveSame, Zenon DEF Backed
  <2>2. RecordOK(cache', record') /\ UbOK(cache', underway')
    BY Zenon DEF Backed
  <2>3. db' = db \/ UbOK(cache', db'.ub)
    BY Zenon DEF Backed, TaskBacked
  <2>4. TaskBacked(cache', k)
    BY Zenon
  <2> QED BY <2>1, <2>2, <2>3, <2>4, <1>BackedMove, ZenonT(30)
<1>AsideBacked.
      ASSUME Types, Backed, NEW t \in Task, Aside(t)
      PROVE  Backed'
  <2> USE <1>AsideBacked
  <2>1. PICK k : Step(t, k) /\ AsideTo(k, task[t])
    BY AsideStep, Zenon
  <2>2. UNCHANGED <<cache, durable, record, underway>>
    BY AsideStep, Zenon DEF memVars, storeVars
  <2>3. db' = db \/ db' = task[t].row
    BY AsideStep, Zenon
  <2>4. ~Fetches(k) /\ ~Wrote(k) /\ ~Owns(k) /\ k.pc \notin {"reset", "uncount"}
    BY <2>1, NoBlockIs, Zenon DEF AsideTo, BlockPC
  <2>5. UbOK(cache, task[t].row.ub) /\ UbOK(cache, PausedUb) /\ UbOK(cache, EmptyUb)
    <3>1. UbOK(cache, task[t].row.ub)
      BY Zenon DEF Backed, TaskBacked
    <3>2. UbOK(cache, PausedUb)
      BY PausedUbIs, Zenon DEF Backed, UbOK
    <3>3. UbOK(cache, EmptyUb)
      BY EmptyRowIs, Zenon DEF UbOK
    <3> QED BY <3>1, <3>2, <3>3, ZenonT(30)
  <2>6. UbOK(cache, k.row.ub)
    BY <2>1, <2>5, Zenon DEF AsideTo
  <2>7. TaskBacked(cache, k)
    BY <2>4, <2>6, Zenon DEF TaskBacked
  <2> QED BY <2>1, <2>2, <2>3, <2>7, <1>BackedStays, ZenonT(30)
\* The offset of a received block is below what is recorded; no damaged block arrives.
<1>ReceiveBacked.
      ASSUME Types, Backed, BadLimit = 0, PowerLoss = FALSE \/ Blocks = 1, AgainLimit = 0,
             NEW t \in Task, NEW p \in Piece, NEW b \in Block, NEW good \in BOOLEAN,
             Receive(t, p, b, good)
      PROVE  Backed'
  <2> USE <1>ReceiveBacked
  <2>1. PICK k : Step(t, k) /\ IsReceived(k, p, b, good, BlockOffset(p))
    BY ReceiveIs, Zenon
  <2>2. good
    <3>1. bads \in Nat
      BY TypesSplit, Zenon DEF DataTypes
    <3>2. ~good => bads < BadLimit
      BY Zenon DEF Receive
    <3> QED BY <3>1, <3>2
  <2>3. UNCHANGED <<cache, durable, record, underway, db>>
    BY Zenon DEF Receive, memVars, storeVars
  <2>4. /\ k.pc = "reserve" /\ k.piece = p /\ k.good = TRUE /\ k.off = BlockOffset(p)
        /\ k.row.ub = EmptyUb
    BY <2>1, <2>2, EmptyRowIs, ZenonT(30) DEF IsReceived
  <2>5. BlockOffset(p) \in 0 .. Blocks /\ \A c \in Block : c < BlockOffset(p) => c \in record[p]
    BY ReceiveIs, Zenon
  <2>6. record[p] # None
    BY Zenon DEF Receive
  <2>7. \A c \in Block : c < BlockOffset(p) => cache[p][c] = "good"
    BY <2>5, <2>6, ZenonT(30) DEF Backed, RecordOK
  <2>8. PowerLoss => BlockOffset(p) = 0
    <3> SUFFICES ASSUME PowerLoss PROVE BlockOffset(p) = 0
      BY Zenon
    <3>1. Blocks = 1 /\ Block = {0}
      BY DEF Block
    <3>2. Awaited(p, b)
      <4>1. agains \in Nat
        BY TypesSplit, Zenon DEF DataTypes
      <4> QED BY <4>1 DEF Receive
    <3>3. b \notin record[p]
      BY <3>2, Zenon DEF Awaited
    <3> QED BY <2>5, <3>1, <3>3
  <2>9. OffOK(cache, p, BlockOffset(p))
    BY <2>7, <2>8, Zenon DEF OffOK
  <2>10. UbOK(cache, k.row.ub)
    BY <2>4, EmptyRowIs, Zenon DEF UbOK
  <2>11. ~Wrote(k) /\ ~Owns(k) /\ k.pc \notin {"reset", "uncount"}
    BY <2>4, ZenonT(30) DEF Wrote, Owns, WrotePC, OwnPC, FlushPC
  <2>12. TaskBacked(cache, k)
    BY <2>4, <2>9, <2>10, <2>11, ZenonT(30) DEF TaskBacked
  <2> QED BY <2>1, <2>3, <2>12, <1>BackedStays, ZenonT(30)
<1>QuietTaskBacked.
      ASSUME Types, Backed, NEW t \in Task, Quiet(t), ~Write(t), NEW k, QuietTo(k, task[t])
      PROVE  TaskBacked(cache, k)
  <2> USE <1>QuietTaskBacked
  <2>1. task[t].pc # "write"
    BY Zenon DEF Quiet, Reserve, CheckLimit, FlushAll, FlushAllRemove, FlushAllZero, UpdateOffset,
           CountBlock, Flush, FlushRemove, Hash, UncountPiece, CheckFinished, At
  <2>2. CASE k = Idle
    BY <2>2, IdleBacked, Zenon
  <2>3. CASE k # Idle
    <3>1. /\ Same(k, task[t]) /\ k.pc # "uncount"
          /\ Fetches(k) => Fetches(task[t])
          /\ Wrote(k) => Wrote(task[t])
          /\ Owns(k) => Owns(task[t])
          /\ k.pc = "reset" => Owns(k) /\ ~IntactOn(cache, task[t].piece)
      BY <2>1, <2>3, ZenonT(30) DEF QuietTo, Same, Fetches, Wrote, Owns, OwnPC
    <3>2. TaskBacked(cache, task[t])
      BY Zenon DEF Backed
    <3> QED BY <3>1, <3>2, ZenonT(30) DEF TaskBacked, Same
  <2> QED BY <2>2, <2>3, Zenon
<1>OffsetBacked.
      ASSUME Types, Backed, NEW t \in Task, UpdateOffset(t)
      PROVE  UbOK(cache, underway')
  <2> USE <1>OffsetBacked
  <2> DEFINE p == task[t].piece
             off == task[t].off
  <2>1. /\ p \in Piece /\ off \in 0 .. Blocks /\ Fetches(task[t]) /\ underway \in UbType
    BY AtIs, TypesSplit, ZenonT(30) DEF UpdateOffset, DataTypes, TaskType, Fetches, FetchPC, BlockPC
  <2>2. OffOK(cache, p, off)
    BY <2>1, Zenon DEF Backed, TaskBacked
  <2>3. \/ underway' = underway
        \/ underway[p] # None /\ underway' = [underway EXCEPT ![p].off = off]
    BY Zenon DEF UpdateOffset
  <2> HIDE DEF p, off
  <2>4. CASE underway' = underway
    BY <2>4, ZenonT(30) DEF Backed
  <2>5. CASE underway[p] # None /\ underway' = [underway EXCEPT ![p].off = off]
    <3>1. underway[p] \in [st : {"Ing", "Pause"}, off : 0 .. Blocks]
      BY <2>1, <2>5, ZenonT(30) DEF UbType
    <3>2. underway'[p].off = off /\ \A q \in Piece : q # p => underway'[q] = underway[q]
      BY <2>1, <2>5, <3>1, ZenonT(30) DEF UbType
    <3> QED BY <2>2, <3>2, Zenon DEF Backed, UbOK
  <2> QED BY <2>3, <2>4, <2>5, ZenonT(30)
<1>FlushDurable.
      ASSUME NEW t \in Task, NEW pc, FlushWriter(t, pc)
      PROVE  durable' \in {durable, cache}
  BY <1>FlushDurable, Zenon DEF FlushWriter
<1>QuietBacked.
      ASSUME Types, Backed, NEW t \in Task, Quiet(t), ~Write(t)
      PROVE  Backed'
  <2> USE <1>QuietBacked
  <2>1. PICK k : Step(t, k) /\ QuietTo(k, task[t])
    BY QuietStep, Zenon
  <2>2. TaskBacked(cache, k)
    BY <2>1, <1>QuietTaskBacked, Zenon
  <2>3. /\ UNCHANGED <<cache, record, db>> /\ durable' \in {durable, cache}
    BY <1>FlushDurable, Zenon
       DEF Quiet, Reserve, CheckLimit, FlushAll, FlushAllRemove, FlushAllZero, UpdateOffset,
           CountBlock, Flush, FlushRemove, Hash, UncountPiece, CheckFinished, memVars, storeVars
  <2>4. UNCHANGED underway \/ UpdateOffset(t)
    BY Zenon DEF Quiet, Reserve, CheckLimit, FlushAll, FlushAllRemove, FlushAllZero,
           CountBlock, Flush, FlushRemove, Hash, UncountPiece, CheckFinished, memVars
  <2>5. CASE UNCHANGED underway
    BY <2>1, <2>2, <2>3, <2>5, <1>BackedStays, ZenonT(30)
  <2>6. CASE UpdateOffset(t)
    <3>1. UbOK(cache, underway')
      BY <2>6, <1>OffsetBacked, Zenon
    <3>2. Above(cache', cache) /\ Above(cache', durable') /\ RecordOK(cache', record')
      BY <2>3, AboveSame, ZenonT(30) DEF Backed
    <3> QED BY <2>1, <2>2, <2>3, <3>1, <3>2, <1>BackedMove, ZenonT(30)
  <2> QED BY <2>4, <2>5, <2>6, ZenonT(30)
<1>WriteBacked.
      ASSUME Types, Backed, NEW t \in Task, Write(t)
      PROVE  Backed'
  <2> USE <1>WriteBacked
  <2>1. PICK k : Step(t, k) /\ Same(k, task[t]) /\ k.pc = "limit"
    BY MovedSame DEF Write, PC, BlockPC
  <2>2. /\ Above(cache', cache) /\ UNCHANGED <<record, underway, durable, db>>
        /\ cache'[task[t].piece][task[t].block] = "good" /\ Fetches(task[t])
    BY WriteGood, Zenon
  <2>3. TaskOK(task[t]) /\ TaskBacked(cache, task[t])
    BY TypesSplit, Zenon DEF Backed
  <2>4. TaskBacked(cache', task[t])
    BY <2>2, <2>3, AboveKeeps, Zenon
  <2>5. TaskBacked(cache', k)
    BY <2>1, <2>2, <2>4, ZenonT(30) DEF TaskBacked, Same, Owns, OwnPC
  <2>6. Above(cache', durable')
    BY <2>2, Zenon DEF Backed, Above
  <2>7. RecordOK(cache', record') /\ UbOK(cache', underway')
    BY <2>2, AboveKeeps, TypesSplit, ZenonT(30) DEF Backed, DataTypes
  <2> QED BY <2>1, <2>2, <2>5, <2>6, <2>7, <1>BackedMove, ZenonT(30)
\* A complete record is a piece that passes its hash, and is not reset.
<1>MarksBacked.
      ASSUME Types, Backed, NEW t \in Task, Marks(t)
      PROVE  Backed'
  <2> USE <1>MarksBacked
  <2> USE DEF PC, BlockPC
  <2> DEFINE p == task[t].piece
             b == task[t].block
  <2>0. /\ p \in Piece /\ b \in Block /\ underway \in UbType
        /\ record \in [Piece -> {None} \cup SUBSET Block] /\ TaskBacked(cache, task[t])
    BY AtIs, TypesSplit, ZenonT(30) DEF Marks, UpdateRecord, CheckRecvFinish, ResetUnderway, MarkFinish,
                            RemoveUnderway, DataTypes, TaskType, Backed
  <2>1. UNCHANGED <<cache, durable, db>>
    BY Zenon DEF Marks, UpdateRecord, CheckRecvFinish, ResetUnderway, MarkFinish, RemoveUnderway,
           storeVars
  <2>2. ~ResetUnderway(t)
    BY <2>0, Zenon DEF ResetUnderway, At, TaskBacked
  <2>3. CASE UpdateRecord(t)
    <3>1. PICK k : Step(t, k) /\ Same(k, task[t]) /\ k.pc = "count"
      BY <2>3, MovedSame, ZenonT(30) DEF UpdateRecord
    <3>2. TaskBacked(cache, k)
      BY <2>0, <3>1, Zenon DEF TaskBacked, Same, Fetches, Wrote, Owns, FetchPC, WrotePC, OwnPC, FlushPC
    <3>3. cache[p][b] = "good"
      BY <2>0, <2>3, AtIs, Zenon DEF TaskBacked, UpdateRecord, Wrote, WrotePC
    <3>4. /\ record[p] # None => record' = [record EXCEPT ![p] = record[p] \cup {b}]
          /\ record[p] = None => record' = record
      BY <2>3, ZenonT(30) DEF UpdateRecord
    <3> HIDE DEF p, b
    <3>5. RecordOK(cache, record')
      BY <2>0, <3>3, <3>4, SMTT(30) DEF RecordOK, Backed
    <3>6. UbOK(cache', underway') /\ Above(cache', cache) /\ Above(cache', durable')
      BY <2>1, <2>3, AboveSame, Zenon DEF UpdateRecord, Backed
    <3> QED BY <2>1, <3>1, <3>2, <3>5, <3>6, <1>BackedMove, ZenonT(30)
  <2>4. CASE CheckRecvFinish(t) /\ record[p] = Block
    <3>1. PICK k : Step(t, k) /\ Same(k, task[t]) /\ k.pc = "flush"
      BY <2>4, MovedSame DEF CheckRecvFinish
    <3>2. Block # None
      BY ProgressAssumption, Zenon DEF Block
    <3>3. IntactOn(cache, p)
      BY <2>0, <2>4, <3>2, Zenon DEF Backed, RecordOK, IntactOn
    <3>4. TaskBacked(cache, k)
      BY <2>0, <3>1, <3>3, ZenonT(30) DEF TaskBacked, Same, Fetches, Wrote, FetchPC, WrotePC, FlushPC
    <3>5. RecordOK(cache, record')
      <4>1. record' = [record EXCEPT ![p] = None]
        BY <2>4, Zenon DEF CheckRecvFinish
      <4> HIDE DEF p
      <4> QED BY <2>0, <4>1, Zenon DEF RecordOK, Backed
    <3>6. UbOK(cache', underway') /\ Above(cache', cache) /\ Above(cache', durable')
      BY <2>1, <2>4, AboveSame, ZenonT(30) DEF CheckRecvFinish, Backed
    <3> QED BY <2>1, <3>1, <3>4, <3>5, <3>6, <1>BackedMove, ZenonT(30)
  <2>5. CASE CheckRecvFinish(t) /\ record[p] # Block
    BY <2>1, <2>5, EndStep, IdleBacked, <1>BackedStays, ZenonT(30) DEF CheckRecvFinish
  <2>6. CASE MarkFinish(t) \/ RemoveUnderway(t)
    <3>1. PICK k : Step(t, k) /\ Same(k, task[t]) /\ k.pc \in {"unmark", "finished"}
      BY <2>6, MovedSame DEF MarkFinish, RemoveUnderway
    <3>2. Owns(task[t])
      BY <2>6, Zenon DEF MarkFinish, RemoveUnderway, At, Owns, OwnPC
    <3>3. TaskBacked(cache, k)
      BY <2>0, <3>1, <3>2, ZenonT(30) DEF TaskBacked, Same, Fetches, Wrote, FetchPC, WrotePC, FlushPC
    <3>4. UNCHANGED record /\ \A q \in Piece : underway'[q] \in {None, underway[q]}
      BY <2>0, <2>6, ZenonT(30) DEF MarkFinish, RemoveUnderway, UbType
    <3>5. UbOK(cache, underway')
      BY <3>4, ZenonT(30) DEF Backed, UbOK
    <3>6. RecordOK(cache', record') /\ Above(cache', cache) /\ Above(cache', durable')
      BY <2>1, <3>4, AboveSame, ZenonT(30) DEF Backed
    <3> QED BY <2>1, <3>1, <3>3, <3>5, <3>6, <1>BackedMove, ZenonT(30)
  <2> QED BY <2>2, <2>3, <2>4, <2>5, <2>6, ZenonT(30) DEF Marks
<1>ApplyBacked.
      ASSUME Types, Backed, NEW p \in Piece, Apply(p)
      PROVE  Backed'
  <2> USE <1>ApplyBacked
  <2> DEFINE off == IF underway[p] = None THEN 0 ELSE underway[p].off
  <2>0. /\ underway \in UbType /\ off \in 0 .. Blocks
        /\ record \in [Piece -> {None} \cup SUBSET Block]
    BY TypesSplit, ProgressAssumption, SMTT(30) DEF DataTypes, UbType
  <2>1. /\ underway' = [underway EXCEPT ![p] = [st |-> "Ing", off |-> off]]
        /\ record' = [record EXCEPT ![p] = 0 .. off - 1]
        /\ UNCHANGED <<cache, durable, db, task>>
    BY Zenon DEF Apply, storeVars
  <2>2. OffOK(cache, p, off)
    <3>1. OffOK(cache, p, 0)
      BY DEF OffOK, Block
    <3>2. underway[p] # None => OffOK(cache, p, underway[p].off)
      BY Zenon DEF Backed, UbOK
    <3> QED BY <3>1, <3>2, Zenon
  <2> HIDE DEF off
  <2>3. underway'[p].off = off /\ \A q \in Piece : q # p => underway'[q] = underway[q]
    BY <2>0, <2>1, Zenon DEF UbType
  <2>4. UbOK(cache, underway')
    BY <2>2, <2>3, Zenon DEF UbOK, Backed
  <2>5. 0 .. off - 1 \subseteq {b \in Block : b < off}
    BY <2>0, ProgressAssumption DEF Block
  <2>6. record'[p] = 0 .. off - 1 /\ \A q \in Piece : q # p => record'[q] = record[q]
    BY <2>0, <2>1, Zenon
  <2>7. RecordOK(cache, record')
    BY <2>2, <2>5, <2>6, ZenonT(30) DEF RecordOK, OffOK, Backed
  <2> QED BY <2>1, <2>4, <2>7, ZenonT(30) DEF Backed
<1>LifeBacked.
      ASSUME Types, Within, Backed, AddTorrent \/ StartTask \/ InsertTask
      PROVE  Backed'
  <2> USE <1>LifeBacked
  <2>1. CASE AddTorrent
    BY <2>1, EmptyRowIs, Zenon DEF AddTorrent, memVars, storeVars, Backed, UbOK
  <2>2. CASE StartTask
    <3>1. UNCHANGED <<cache, durable, db, task>> /\ record' = EmptyUb
      BY <2>2, ZenonT(30) DEF StartTask, storeVars
    <3>2. underway' = db.ub /\ db # None
      BY <2>2, Zenon DEF StartTask
    <3>3. RecordOK(cache, EmptyUb)
      BY EmptyRowIs, Zenon DEF RecordOK
    <3> QED BY <3>1, <3>2, <3>3, ZenonT(30) DEF Backed
  <2>3. CASE InsertTask
    BY <2>3, ZenonT(30) DEF InsertTask, memVars, storeVars, Backed
  <2> QED BY <2>1, <2>2, <2>3, Zenon
\* The pages that are lost are beyond every offset of the row.
<1>StopBacked.
      ASSUME Types, Within, Backed, Kill \/ LosePower \/ \E t \in Task : Exit(t)
      PROVE  Backed'
  <2> USE <1>StopBacked
  <2>1. Ends
    BY Zenon DEF Kill, LosePower, Exit
  <2>2. /\ underway' = EmptyUb /\ record' = EmptyUb /\ UNCHANGED db
        /\ \A t \in Task : task'[t] = Idle
    BY <2>1, ZenonT(30) DEF Ends
  <2>3. Above(cache', durable')
    BY PowerAbove, AboveSame, ZenonT(30) DEF Kill, LosePower, Exit, Backed
  <2>4. db # None => UbOK(cache', db.ub)
    <3>1. CASE cache' = cache
      BY <3>1, Zenon DEF Backed
    <3>2. CASE PowerLoss
      <4>1. \A p \in Piece : OffOK(cache', p, 0)
        BY DEF OffOK, Block
      <4>2. db # None => \A p \in Piece : db.ub[p] # None => db.ub[p].off = 0
        BY <3>2, Zenon DEF Backed, UbOK, OffOK
      <4> QED BY <4>1, <4>2, Zenon DEF UbOK
    <3> QED BY <3>1, <3>2, ZenonT(30) DEF Kill, LosePower, Exit
  <2>5. RecordOK(cache', EmptyUb) /\ UbOK(cache', EmptyUb)
    BY EmptyRowIs, Zenon DEF RecordOK, UbOK
  <2>6. \A t \in Task : TaskBacked(cache', task'[t])
    BY <2>2, IdleBacked, Zenon
  <2> QED BY <2>2, <2>3, <2>4, <2>5, <2>6, ZenonT(30) DEF Backed
<1> SUFFICES ASSUME BadLimit = 0, AgainLimit = 0, PowerLoss = FALSE \/ Blocks = 1,
                    Types, Within, Backed, [Next]_vars
             PROVE  Backed'
  BY Zenon
<1>1. CASE UNCHANGED vars
  BY <1>1, Zenon DEF vars, memVars, storeVars, Backed
<1>2. CASE \E t \in Task : BlockAction(t)
  BY <1>2, <1>WriteBacked, <1>QuietBacked, <1>MarksBacked, ZenonT(30) DEF BlockAction, Quiet, Marks
<1>3. CASE Others
  BY <1>3, <1>AsideBacked, <1>ReceiveBacked, <1>LifeBacked, <1>StopBacked, <1>ApplyBacked, ZenonT(30) DEF Others
<1> QED BY <1>1, <1>2, <1>3, NextSplit, ZenonT(30)

LEMMA InitBacked ==
    Init => Backed
<1> SUFFICES ASSUME Init PROVE Backed
  BY Zenon
<1>1. /\ durable = cache /\ record = EmptyUb /\ underway = EmptyUb /\ db = None
      /\ \A t \in Task : task[t] = Idle
  BY Zenon DEF Init
<1> QED BY <1>1, AboveSame, IdleBacked, EmptyRowIs, ZenonT(30) DEF Backed, RecordOK, UbOK

-----------------------------------------------------------------------------
(* A FileWriter is dropped when nothing is left to write *)

\* What a handler that moves on keeps.
Onward(k, m) ==
    /\ Same(k, m)
    /\ Wrote(m) <=> Wrote(k)
    /\ Owns(m) <=> Owns(k)
    /\ k.pc \in {"count", "check", "flush"} => m.pc \in {"count", "check", "flush"}
    /\ k.pc # "unmark"

Walks(t) ==
    \/ Reserve(t) \/ CheckLimit(t) \/ FlushAllZero(t) \/ UpdateOffset(t) \/ CountBlock(t)
    \/ Hash(t) \/ CheckFinished(t) \/ FlushAllRemove(t) \/ FlushRemove(t)

\* What the row says follows from what the bit map says.
LEMMA CountedRow ==
    ASSUME Types, Within, Counted
    PROVE  RowDurable /\ FinishedComplete
BY Zenon DEF Within, Counted, RowWithin, RowDurable, FinishedComplete

LEMMA CountedKept ==
    AgainLimit = 0 /\ Types /\ Within /\ Owned /\ Backed /\ Counted /\ [Next]_vars
    => Counted'
<1>DoneIs.
      /\ Cardinality(Done) \in Nat
      /\ Cardinality(Done) >= FileLen => Done = Piece \X Block
  <2>1. IsFiniteSet(Block) /\ Cardinality(Block) = Blocks
    <3> DEFINE b == Blocks - 1
    <3>1. b \in Int /\ ~(0 > b) /\ b - 0 + 1 = Blocks
      BY ProgressAssumption
    <3>2. Block = 0 .. b
      BY Zenon DEF Block
    <3> HIDE DEF b
    <3>3. IsFiniteSet(0 .. b) /\ Cardinality(0 .. b) = b - 0 + 1
      BY <3>1, FS_Interval, SMTT(30)
    <3> QED BY <3>1, <3>2, <3>3, ZenonT(30)
  <2>2. IsFiniteSet(Piece \X Block) /\ Cardinality(Piece \X Block) = FileLen
    BY <2>1, FS_Product, ProgressAssumption, Zenon DEF FileLen
  <2>3. Done \subseteq Piece \X Block
    BY Zenon DEF Done
  <2>4. /\ IsFiniteSet(Done) /\ Cardinality(Done) <= Cardinality(Piece \X Block)
        /\ Cardinality(Done) = Cardinality(Piece \X Block) => Done = Piece \X Block
    BY <2>2, <2>3, FS_Subset, Zenon
  <2>5. Cardinality(Done) \in Nat /\ Cardinality(Piece \X Block) \in Nat
    BY <2>2, <2>4, FS_CardinalityType, Zenon
  <2> QED BY <2>2, <2>4, <2>5
<1>DoneGrows.
      ASSUME Done \subseteq Done'
      PROVE  /\ Cardinality(Done) \in Nat /\ Cardinality(Done') \in Nat
             /\ Cardinality(Done) <= Cardinality(Done')
             /\ \A pb \in Done' : pb \notin Done => Cardinality(Done) + 1 <= Cardinality(Done')
             /\ Done = Piece \X Block => Done' = Piece \X Block
  <2> USE <1>DoneGrows
  <2>1. IsFiniteSet(Block)
    BY FS_Interval, ProgressAssumption DEF Block
  <2>2. IsFiniteSet(Piece \X Block)
    BY <2>1, FS_Product, ProgressAssumption, Zenon
  <2>3. Done \subseteq Piece \X Block /\ Done' \subseteq Piece \X Block
    BY Zenon DEF Done
  <2>4. IsFiniteSet(Done) /\ IsFiniteSet(Done')
    BY <2>2, <2>3, FS_Subset, Zenon
  <2>5. Cardinality(Done) \in Nat /\ Cardinality(Done') \in Nat
    BY <2>4, FS_CardinalityType, Zenon
  <2>6. /\ Cardinality(Done) <= Cardinality(Done')
        /\ Cardinality(Done) = Cardinality(Done') => Done = Done'
    BY <2>4, FS_Subset, ZenonT(30)
  <2> QED BY <2>3, <2>5, <2>6, SMTT(30)
<1>DoneStep.
      ASSUME Types, NEW t \in Task, NEW k, Step(t, k), bytefield \subseteq bytefield',
             \A p \in Piece : record[p] # None =>
                \/ record'[p] # None /\ record[p] \subseteq record'[p]
                \/ Owns(k) /\ k.piece = p,
             Owns(task[t]) =>
                \/ Owns(k) /\ k.piece = task[t].piece
                \/ task[t].piece \in bytefield',
             Wrote(task[t]) =>
                \/ Wrote(k) /\ k.piece = task[t].piece /\ k.block = task[t].block
                \/ record'[task[t].piece] # None /\ task[t].block \in record'[task[t].piece]
      PROVE  Done \subseteq Done'
  <2> USE <1>DoneStep
  <2>1. task'[t] = k /\ \A u \in Task : u # t => task'[u] = task[u]
    BY Stepped, Zenon
  <2>2. ASSUME NEW p \in Piece, NEW b \in Block, DoneAt(p, b)
        PROVE  DoneAt(p, b)'
    <3>1. CASE p \in bytefield
      BY <3>1, Zenon DEF DoneAt
    <3>2. CASE record[p] # None /\ b \in record[p]
      BY <2>1, <3>2, Zenon DEF DoneAt
    <3>3. ASSUME NEW u \in Task, task[u].piece = p,
                 Owns(task[u]) \/ (Wrote(task[u]) /\ task[u].block = b)
          PROVE  DoneAt(p, b)'
      <4>1. CASE u = t
        BY <2>1, <3>3, <4>1, ZenonT(30) DEF DoneAt
      <4>2. CASE u # t
        BY <2>1, <3>3, <4>2, ZenonT(30) DEF DoneAt
      <4> QED BY <4>1, <4>2, Zenon
    <3> QED BY <2>2, <3>1, <3>2, <3>3, ZenonT(30) DEF DoneAt
  <2> QED BY <2>2, Zenon DEF Done
\* A step that writes nothing to the file.
<1>CountedMove.
      ASSUME Types, Types', Above(cache, durable), Counted, Up', NEW t \in Task, NEW k, Step(t, k),
             Done \subseteq Done', cache' = cache, durable' \in {durable, cache},
             \/ writer' = writer
             \/ writer' = None /\ Synced
             \/ /\ writer # None /\ durable' = cache
                /\ writer' # None /\ writer'.len + writer'.buf = writer.len + writer.buf,
             bytefield \subseteq bytefield', \A p \in bytefield' : IntactOn(durable', p),
             k.drop = TRUE => Done' = Piece \X Block /\ durable' = cache',
             Wrote(k) \/ k.pc \in {"count", "check", "flush"} => writer' # None \/ durable' = cache',
             k.pc \in {"drop", "hash", "mark"} => IntactOn(durable', k.piece),
             k.pc = "unmark" => k.piece \in bytefield'
      PROVE  Counted'
  <2> USE <1>CountedMove
  <2>1. task'[t] = k /\ \A u \in Task : u # t => task'[u] = task[u]
    BY Stepped, Zenon
  <2>2. Above(durable', durable) /\ (Synced => durable' = cache')
    BY AboveSame, Zenon DEF Synced
  <2>3. writer' # None => writer'.len + writer'.buf <= Cardinality(Done')
    <3>1. Cardinality(Done) \in Nat /\ Cardinality(Done') \in Nat
          /\ Cardinality(Done) <= Cardinality(Done')
      BY <1>DoneGrows, Zenon
    <3>2. writer # None => writer.len \in Nat /\ writer.buf \in Nat
      BY TypesSplit, Zenon DEF DataTypes, Writer
    <3> QED BY <3>1, <3>2 DEF Counted
  <2>4. ASSUME NEW u \in Task, u # t
        PROVE  /\ task[u].drop = TRUE => Done' = Piece \X Block /\ durable' = cache'
               /\ Wrote(task[u]) \/ task[u].pc \in {"count", "check", "flush"} =>
                     writer' # None \/ durable' = cache'
               /\ task[u].pc \in {"drop", "hash", "mark"} => IntactOn(durable', task[u].piece)
               /\ task[u].pc = "unmark" => task[u].piece \in bytefield'
    <3>1. task[u].drop = TRUE => Done' = Piece \X Block /\ durable' = cache'
      BY <2>2, <1>DoneGrows, ZenonT(30) DEF Counted
    <3>2. Wrote(task[u]) \/ task[u].pc \in {"count", "check", "flush"} =>
              writer' # None \/ durable' = cache'
      BY <2>2, Zenon DEF Counted
    <3>3. task[u].pc \in {"drop", "hash", "mark"} => task[u].piece \in Piece
      BY TypesSplit, Zenon DEF TaskOK, BlockPC
    <3>4. task[u].pc \in {"drop", "hash", "mark"} => IntactOn(durable', task[u].piece)
      BY <2>2, <3>3, AboveKeeps, ZenonT(30) DEF Counted
    <3> QED BY <3>1, <3>2, <3>4, ZenonT(30) DEF Counted
  <2>5. \A u \in Task :
           /\ task'[u].drop = TRUE => Done' = Piece \X Block /\ durable' = cache'
           /\ Wrote(task'[u]) \/ task'[u].pc \in {"count", "check", "flush"} =>
                 writer' # None \/ durable' = cache'
           /\ task'[u].pc \in {"drop", "hash", "mark"} => IntactOn(durable', task'[u].piece)
           /\ task'[u].pc = "unmark" => task'[u].piece \in bytefield'
    BY <2>1, <2>4, ZenonT(30)
  <2> QED BY <2>3, <2>5, ZenonT(30) DEF Counted, Synced
\* What the record says of a piece, when it has a handler.
<1>OwnedPieces.
      ASSUME Types, Owned, Backed, NEW t \in Task
      PROVE  /\ Fetches(task[t]) => /\ task[t].piece \in Piece /\ task[t].block \in Block
                                    /\ ~DoneAt(task[t].piece, task[t].block) \/ Wrote(task[t])
             /\ Wrote(task[t]) => Fetches(task[t])
  <2> USE <1>OwnedPieces
  <2>1. Wrote(task[t]) => Fetches(task[t])
    BY Zenon DEF Wrote, Fetches, WrotePC, FetchPC
  <2>2. Fetches(task[t]) => task[t].piece \in Piece /\ task[t].block \in Block
    BY TypesSplit, Zenon DEF TaskOK, TaskType, Fetches, FetchPC, BlockPC, FlushPC
  <2>3. ASSUME Fetches(task[t]), ~Wrote(task[t]), DoneAt(task[t].piece, task[t].block)
        PROVE  FALSE
    <3> DEFINE p == task[t].piece
               b == task[t].block
    <3>1. record[p] # None /\ b \notin record[p] /\ p \notin bytefield
      BY <2>2, <2>3, Zenon DEF Owned
    <3>2. PICK u \in Task : task[u].piece = p /\ (Owns(task[u]) \/ (Wrote(task[u]) /\ task[u].block = b))
      BY <2>3, <3>1, Zenon DEF DoneAt
    <3>3. ~Owns(task[u])
      BY <3>1, <3>2, Zenon DEF Owned
    <3>4. Fetches(task[u])
      BY <3>2, <3>3, Zenon DEF Wrote, Fetches, WrotePC, FetchPC
    <3>5. u = t
      BY <2>3, <3>2, <3>3, <3>4, ZenonT(30) DEF Owned
    <3> QED BY <2>3, <3>2, <3>3, <3>5, ZenonT(30)
  <2> QED BY <2>1, <2>2, <2>3, ZenonT(30)
<1>WalksStep.
      ASSUME Types, NEW t \in Task, Walks(t)
      PROVE  \E k : /\ Step(t, k) /\ Onward(k, task[t]) /\ k.drop = task[t].drop
                    /\ k.pc \in {"drop", "hash", "mark"} => task[t].pc \in {"drop", "hash", "mark"}
  <2> USE <1>WalksStep
  <2> USE DEF PC, BlockPC, FlushPC, SavePC, WrotePC, OwnPC
  <2> DEFINE Goes == \E k : /\ Step(t, k) /\ Onward(k, task[t]) /\ k.drop = task[t].drop
                            /\ k.pc \in {"drop", "hash", "mark"} =>
                                  task[t].pc \in {"drop", "hash", "mark"}
  <2>1. ASSUME NEW pc \in PC, Goto(t, pc), pc # "unmark",
               (task[t].pc \in WrotePC /\ task[t].then = "after")
                  <=> (pc \in WrotePC /\ task[t].then = "after"),
               task[t].pc \in OwnPC <=> pc \in OwnPC,
               pc \in {"count", "check", "flush"} => task[t].pc \in {"count", "check", "flush"},
               pc \in {"drop", "hash", "mark"} => task[t].pc \in {"drop", "hash", "mark"}
        PROVE  Goes
    <3>1. PICK k : Step(t, k) /\ Same(k, task[t]) /\ k.pc = pc /\ k.drop = task[t].drop
      BY <2>1, MovedSame, ZenonT(30)
    <3>2. Wrote(task[t]) <=> Wrote(k)
      BY <2>1, <3>1, ZenonT(30) DEF Wrote, Same
    <3>3. Owns(task[t]) <=> Owns(k)
      BY <2>1, <3>1, ZenonT(30) DEF Owns
    <3> QED BY <2>1, <3>1, <3>2, <3>3, ZenonT(30) DEF Onward
  <2>2. CASE Reserve(t) \/ CheckLimit(t)
    BY <2>1, <2>2, ZenonT(30) DEF Reserve, CheckLimit, At
  <2>3. CASE FlushAllZero(t)
    <3>1. task[t].then \in {"after", "exit"}
      BY <2>3, AtIs, ZenonT(30) DEF FlushAllZero
    <3> QED BY <2>1, <2>3, <3>1, ZenonT(30) DEF FlushAllZero, At
  <2>4. CASE UpdateOffset(t) \/ CountBlock(t)
    BY <2>1, <2>4, ZenonT(30) DEF UpdateOffset, CountBlock, At
  <2>5. CASE Hash(t) \/ CheckFinished(t)
    BY <2>1, <2>5, ZenonT(30) DEF Hash, CheckFinished, At
  <2>6. CASE FlushAllRemove(t) \/ FlushRemove(t)
    BY <2>1, <2>6, ZenonT(30) DEF FlushAllRemove, FlushRemove, At
  <2> QED BY <2>2, <2>3, <2>4, <2>5, <2>6, ZenonT(30) DEF Walks
<1>WalksCounted.
      ASSUME Types, Types', Within, Backed, Counted, NEW t \in Task, Walks(t)
      PROVE  Counted'
  <2> USE <1>WalksCounted
  <2>1. PICK k : /\ Step(t, k) /\ Onward(k, task[t]) /\ k.drop = task[t].drop
                 /\ k.pc \in {"drop", "hash", "mark"} => task[t].pc \in {"drop", "hash", "mark"}
    BY <1>WalksStep, Zenon
  <2>2. UNCHANGED <<bytefield, record, cache, durable>>
    BY Zenon DEF Walks, Reserve, CheckLimit, FlushAllZero, UpdateOffset, CountBlock, Hash,
           CheckFinished, FlushAllRemove, FlushRemove, memVars, storeVars
  <2>3. Up'
    BY BlockUp, Zenon DEF Walks, BlockAction, Up
  <2>4. k.piece = task[t].piece /\ k.block = task[t].block
    BY <2>1, Zenon DEF Onward, Same
  <2>5. Done \subseteq Done'
    BY <2>1, <2>2, <2>4, <1>DoneStep, ZenonT(30) DEF Onward
  <2>6. writer' = writer \/ (writer' = None /\ Synced)
    <3>1. writer' = writer \/ (writer' = None /\ task[t].drop = TRUE)
      <4>1. task[t].drop \in BOOLEAN
        BY TypesSplit, Zenon DEF TaskType
      <4> QED BY <4>1, Zenon DEF Walks, Reserve, CheckLimit, FlushAllZero, UpdateOffset, CountBlock,
                          Hash, CheckFinished, FlushAllRemove, FlushRemove, storeVars
    <3> QED BY <3>1, Zenon DEF Counted
  <2>7. k.drop = TRUE => Done' = Piece \X Block /\ durable' = cache'
    BY <2>1, <2>2, <2>5, <1>DoneGrows, ZenonT(30) DEF Counted, Synced
  <2>8. Wrote(k) \/ k.pc \in {"count", "check", "flush"} => writer' # None \/ durable' = cache'
    BY <2>1, <2>2, <2>6, ZenonT(30) DEF Onward, Counted, Synced
  <2>9. k.pc \in {"drop", "hash", "mark"} => IntactOn(durable', k.piece)
    BY <2>1, <2>2, <2>4, ZenonT(30) DEF Counted
  <2>10. \A p \in bytefield' : IntactOn(durable', p)
    BY <2>2, Zenon DEF Counted
  <2>11. k.pc # "unmark" /\ Above(cache, durable)
    BY <2>1, Zenon DEF Onward, Backed
  <2> QED BY <2>1, <2>2, <2>3, <2>5, <2>6, <2>7, <2>8, <2>9, <2>10, <2>11, <1>CountedMove, ZenonT(30)
\* FileWriter::flush says that the writer is done only when everything is written.
<1>FlushCounted.
      ASSUME Types, Types', Within, Backed, Counted, NEW t \in Task, FlushAll(t) \/ Flush(t)
      PROVE  Counted'
  <2> USE <1>FlushCounted
  <2> USE DEF PC, BlockPC, FlushPC
  <2>1. PICK pc \in {"flushdrop", "drop"} :
           /\ FlushWriter(t, pc)
           /\ pc = "flushdrop" <=> task[t].pc = "flushall"
           /\ pc = "drop" <=> task[t].pc = "flush"
    BY Zenon DEF FlushAll, Flush, At
  <2>2. PICK d \in BOOLEAN : LET m == Flushed(task[t], pc, d)
                IN  /\ Step(t, m) /\ Same(m, task[t]) /\ m.pc = pc /\ m.drop = d
                    /\ writer = None => d = FALSE
                    /\ writer # None => d = (writer.len + writer.buf >= FileLen)
    BY <2>1, FlushedSame, ZenonT(30)
  <2>3. PICK k : /\ Step(t, k) /\ Same(k, task[t]) /\ k.pc = pc
                 /\ writer = None => k.drop = FALSE
                 /\ writer # None => k.drop = (writer.len + writer.buf >= FileLen)
    BY <2>2, Zenon
  <2>4. UNCHANGED <<bytefield, record, cache>>
    BY Zenon DEF FlushAll, Flush, memVars
  <2>5. /\ writer = None => UNCHANGED <<writer, durable>>
        /\ writer # None => /\ durable' = cache
                            /\ writer' = [buf |-> 0, len |-> writer.len + writer.buf]
    BY <2>1, ZenonT(30) DEF FlushWriter
  <2>6. Wrote(task[t]) <=> Wrote(k)
    BY <2>1, <2>3, ZenonT(30) DEF Wrote, WrotePC, Same
  <2>7. Owns(task[t]) <=> Owns(k)
    BY <2>1, <2>3, ZenonT(30) DEF Owns, OwnPC
  <2>8. Up'
    BY BlockUp, ZenonT(30) DEF BlockAction, Up
  <2>9. k.piece = task[t].piece /\ k.block = task[t].block
    BY <2>3, ZenonT(30) DEF Same
  <2>10. Done \subseteq Done'
    BY <2>3, <2>4, <2>6, <2>7, <2>9, <1>DoneStep, ZenonT(30)
  <2>11. writer # None => /\ writer.len \in Nat /\ writer.buf \in Nat
                          /\ writer' # None /\ writer'.len + writer'.buf = writer.len + writer.buf
    <3> SUFFICES ASSUME writer # None
                 PROVE  /\ writer.len \in Nat /\ writer.buf \in Nat
                        /\ writer' # None /\ writer'.len + writer'.buf = writer.len + writer.buf
      BY Zenon
    <3>1. writer.len \in Nat /\ writer.buf \in Nat
      BY TypesSplit, ZenonT(30) DEF DataTypes, Writer
    <3>2. [buf |-> 0, len |-> writer.len + writer.buf] \in [buf : Nat, len : Nat]
      BY <3>1
    <3>3. writer' # None
      BY <2>5, <3>2, ProgressAssumption, ZenonT(30)
    <3> QED BY <2>5, <3>1, <3>3, SMTT(30)
  <2>12. k.drop = TRUE => Done' = Piece \X Block /\ durable' = cache'
    <3> SUFFICES ASSUME k.drop = TRUE PROVE Done' = Piece \X Block /\ durable' = cache'
      BY Zenon
    <3>1. writer # None /\ writer.len + writer.buf >= FileLen
      BY <2>3, ZenonT(30)
    <3>2. writer.len + writer.buf <= Cardinality(Done) /\ Cardinality(Done) \in Nat
      BY <3>1, <1>DoneIs, ZenonT(30) DEF Counted
    <3>3. FileLen \in Int
      BY FS_CardinalityType, ProgressAssumption, SMTT(30) DEF FileLen
    <3>4. Cardinality(Done) >= FileLen
      BY <2>11, <3>1, <3>2, <3>3, SMTT(30)
    <3> QED BY <2>4, <2>5, <2>10, <3>1, <3>4, <1>DoneIs, <1>DoneGrows, ZenonT(30)
  <2>13. Wrote(k) \/ k.pc \in {"count", "check", "flush"} => writer' # None \/ durable' = cache'
    BY <2>1, <2>3, <2>4, <2>5, <2>6, <2>11, Zenon DEF Counted, Synced
  <2>14. k.pc \in {"drop", "hash", "mark"} => IntactOn(durable', k.piece)
    <3> SUFFICES ASSUME k.pc = "drop" PROVE IntactOn(durable', task[t].piece)
      BY <2>1, <2>3, <2>9, ZenonT(30)
    <3>1. task[t].pc = "flush"
      BY <2>1, <2>3, ZenonT(30)
    <3>2. IntactOn(cache, task[t].piece)
      BY <3>1, ZenonT(30) DEF Backed, TaskBacked, Owns, OwnPC
    <3>3. durable' = cache
      BY <2>5, <3>1, ZenonT(30) DEF Counted, Synced
    <3> QED BY <3>2, <3>3, ZenonT(30)
  <2>15. Above(durable', durable) /\ bytefield \subseteq Piece
    BY <2>5, AboveSame, TypesSplit, ZenonT(30) DEF Backed, DataTypes
  <2>16. \A p \in bytefield' : IntactOn(durable', p)
    BY <2>4, <2>15, AboveKeeps, ZenonT(30) DEF Counted
  <2>17. k.pc # "unmark" /\ Above(cache, durable) /\ durable' \in {durable, cache}
    BY <2>1, <2>3, <2>5, ZenonT(30) DEF Backed
  <2>18. \/ writer' = writer
         \/ /\ writer # None /\ durable' = cache
            /\ writer' # None /\ writer'.len + writer'.buf = writer.len + writer.buf
    BY <2>5, <2>11, ZenonT(30)
  <2> QED BY <2>3, <2>4, <2>8, <2>10, <2>12, <2>13, <2>14, <2>16, <2>17, <2>18, <1>CountedMove, ZenonT(30)
\* A block is written once, so a write is one more of the blocks that are done.
<1>WriteCounted.
      ASSUME Types, Types', Within, Owned, Backed, Counted, NEW t \in Task, Write(t)
      PROVE  Counted'
  <2> USE <1>WriteCounted
  <2> DEFINE p == task[t].piece
             b == task[t].block
  <2>1. PICK k : Step(t, k) /\ Same(k, task[t]) /\ k.pc = "limit" /\ k.drop = task[t].drop
    BY MovedSame, ZenonT(30) DEF Write, PC, BlockPC
  <2>2. /\ p \in Piece /\ b \in Block /\ Fetches(task[t])
        /\ UNCHANGED <<bytefield, record, durable>>
    BY WriteGood, Zenon
  <2>3. task'[t] = k /\ \A u \in Task : u # t => task'[u] = task[u]
    BY <2>1, Stepped, ZenonT(30)
  <2>4. task[t].pc = "write" /\ task[t].then = "after"
    BY AtIs, ZenonT(30) DEF Write, BlockPC
  <2>5. ~Wrote(task[t]) /\ ~Owns(task[t])
    BY <2>4, ZenonT(30) DEF Wrote, WrotePC, FlushPC, Owns, OwnPC
  <2>6. Wrote(k) /\ k.piece = p /\ k.block = b
    BY <2>1, <2>4, ZenonT(30) DEF Same, Wrote, WrotePC
  <2>7. Done \subseteq Done'
    BY <2>1, <2>2, <2>5, <1>DoneStep, ZenonT(30)
  <2>8. <<p, b>> \in Done' /\ <<p, b>> \notin Done
    <3>1. ~DoneAt(p, b)
      BY <2>2, <2>5, <1>OwnedPieces, ZenonT(30)
    <3>2. DoneAt(task[t].piece, task[t].block) <=> DoneAt(p, b)
      BY ZenonT(30)
    <3> HIDE DEF p, b
    <3>3. \E u \in Task : /\ task'[u].piece = p
                          /\ Owns(task'[u]) \/ (Wrote(task'[u]) /\ task'[u].block = b)
      BY <2>3, <2>6, Zenon
    <3>4. <<p, b>> \in Done'
      BY <2>2, <3>3, ZenonT(30) DEF Done, DoneAt
    <3> QED BY <3>1, <3>4, ZenonT(30) DEF Done
  <2> HIDE DEF p, b
  <2>9. /\ Cardinality(Done) \in Nat /\ Cardinality(Done') \in Nat
        /\ Cardinality(Done) + 1 <= Cardinality(Done')
    BY <2>7, <2>8, <1>DoneGrows, ZenonT(30)
  <2>10. writer' # None /\ writer'.len + writer'.buf <= Cardinality(Done')
    <3> DEFINE w == IF writer = None THEN NewWriter ELSE writer
    <3>1. w.len \in Nat /\ w.buf \in Nat /\ w \in [buf : Nat, len : Nat]
      BY TypesSplit, Zenon DEF DataTypes, Writer, NewWriter
    <3>2. w.len + w.buf <= Cardinality(Done)
      BY <2>9 DEF NewWriter, Counted
    <3>3. writer' = [w EXCEPT !.buf = w.buf + 1]
      BY Zenon DEF Write
    <3> HIDE DEF w
    <3>4. writer'.len = w.len /\ writer'.buf = w.buf + 1 /\ writer' \in [buf : Nat, len : Nat]
      BY <3>1, <3>3, SMTT(30)
    <3> QED BY <2>9, <3>1, <3>2, <3>4, ProgressAssumption, SMTT(30)
  <2>11. \A u \in Task : task[u].drop # TRUE
    BY <2>2, <2>8, Zenon DEF Counted
  <2>12. Up'
    BY BlockUp, Zenon DEF BlockAction, Up
  <2>13. \A u \in Task :
           /\ task'[u].drop # TRUE
           /\ task'[u].pc \in {"drop", "hash", "mark"} => IntactOn(durable', task'[u].piece)
           /\ task'[u].pc = "unmark" => task'[u].piece \in bytefield'
    BY <2>1, <2>2, <2>3, <2>11, ZenonT(30) DEF Counted
  <2>14. \A q \in bytefield' : IntactOn(durable', q)
    BY <2>2, ZenonT(30) DEF Counted
  <2> QED BY <2>10, <2>12, <2>13, <2>14, ZenonT(30) DEF Counted
\* A step that touches neither the file nor its writer.
<1>CountedStays.
      ASSUME Types, Types', Backed, Counted, Up', NEW t \in Task, NEW k, Step(t, k),
             Done \subseteq Done', UNCHANGED <<cache, durable, writer>>,
             bytefield \subseteq bytefield', \A p \in bytefield' : IntactOn(durable, p),
             k.drop = task[t].drop \/ k.drop = FALSE,
             Wrote(k) \/ k.pc \in {"count", "check", "flush"} => writer # None \/ Synced,
             k.pc \notin {"drop", "hash", "mark"}, k.pc = "unmark" => k.piece \in bytefield'
      PROVE  Counted'
  <2> USE <1>CountedStays
  <2>1. Above(cache, durable)
    BY Zenon DEF Backed
  <2>2. k.drop = TRUE => Done' = Piece \X Block /\ durable' = cache'
    BY <1>DoneGrows, Zenon DEF Counted, Synced
  <2>3. Wrote(k) \/ k.pc \in {"count", "check", "flush"} => writer' # None \/ durable' = cache'
    BY Zenon DEF Synced
  <2>4. \A p \in bytefield' : IntactOn(durable', p)
    BY Zenon
  <2> QED BY <2>1, <2>2, <2>3, <2>4, <1>CountedMove, ZenonT(30)
<1>MarksCounted.
      ASSUME Types, Types', Within, Owned, Backed, Counted, NEW t \in Task, Marks(t)
      PROVE  Counted'
  <2> USE <1>MarksCounted
  <2> USE DEF PC, BlockPC
  <2> DEFINE p == task[t].piece
             b == task[t].block
  <2>0. /\ p \in Piece /\ b \in Block /\ task[t].then = "after"
        /\ record \in [Piece -> {None} \cup SUBSET Block]
    BY AtIs, TypesSplit, ZenonT(30) DEF Marks, UpdateRecord, CheckRecvFinish, ResetUnderway, MarkFinish,
                            RemoveUnderway, DataTypes, TaskType
  <2>1. UNCHANGED <<cache, durable, writer>>
    BY Zenon DEF Marks, UpdateRecord, CheckRecvFinish, ResetUnderway, MarkFinish, RemoveUnderway,
           storeVars
  <2>2. Up'
    BY BlockUp, Zenon DEF Marks, BlockAction, Up
  <2>3. \A q \in bytefield : IntactOn(durable, q)
    BY Zenon DEF Counted
  <2>4. CASE UpdateRecord(t)
    <3>1. PICK k : Step(t, k) /\ Same(k, task[t]) /\ k.pc = "count" /\ k.drop = task[t].drop
      BY <2>4, MovedSame, ZenonT(30) DEF UpdateRecord
    <3>2. Wrote(task[t]) /\ ~Owns(task[t])
      BY <2>0, <2>4, Zenon DEF UpdateRecord, At, Wrote, WrotePC, Owns, OwnPC
    <3>3. UNCHANGED bytefield
      BY <2>4, Zenon DEF UpdateRecord
    <3>4. record' = [record EXCEPT ![p] = record[p] \cup {b}] \/ record[p] = None
      BY <2>4, Zenon DEF UpdateRecord
    <3>5. record[p] # None
      BY <3>2, <1>OwnedPieces, ZenonT(30) DEF Owned
    <3>6. record[p] \cup {b} # None
      BY <2>0, <3>5, ProgressAssumption, ZenonT(30) DEF Block
    <3> HIDE DEF p, b
    <3>7. record'[p] = record[p] \cup {b} /\ \A q \in Piece : q # p => record'[q] = record[q]
      BY <2>0, <3>4, <3>5, ZenonT(30)
    <3>8. Done \subseteq Done'
      BY <2>0, <3>1, <3>2, <3>3, <3>6, <3>7, <1>DoneStep, ZenonT(30) DEF p, b
    <3>9. writer # None \/ Synced
      BY <3>2, ZenonT(30) DEF Counted
    <3> QED BY <2>1, <2>2, <2>3, <3>1, <3>3, <3>8, <3>9, <1>CountedStays, ZenonT(30)
  <2>5. CASE CheckRecvFinish(t) /\ record[p] = Block
    <3>1. PICK k : Step(t, k) /\ Same(k, task[t]) /\ k.pc = "flush" /\ k.drop = task[t].drop
      BY <2>5, MovedSame, ZenonT(30) DEF CheckRecvFinish
    <3>2. ~Wrote(task[t]) /\ ~Owns(task[t]) /\ task[t].pc = "check"
      BY <2>5, Zenon DEF CheckRecvFinish, At, Wrote, WrotePC, FlushPC, Owns, OwnPC
    <3>3. UNCHANGED bytefield /\ record' = [record EXCEPT ![p] = None]
      BY <2>5, Zenon DEF CheckRecvFinish
    <3>4. Owns(k) /\ k.piece = p
      BY <3>1, Zenon DEF Owns, OwnPC, Same
    <3> HIDE DEF p, b
    <3>5. \A q \in Piece : q # p => record'[q] = record[q]
      BY <2>0, <3>3, ZenonT(30)
    <3>6. Done \subseteq Done'
      BY <3>1, <3>2, <3>3, <3>4, <3>5, <1>DoneStep, ZenonT(30)
    <3>7. writer # None \/ Synced
      BY <3>2, Zenon DEF Counted
    <3> QED BY <2>1, <2>2, <2>3, <3>1, <3>3, <3>6, <3>7, <1>CountedStays, ZenonT(30)
  <2>6. CASE CheckRecvFinish(t) /\ record[p] # Block
    <3>1. Step(t, Idle) /\ UNCHANGED <<record, bytefield>>
      BY <2>6, EndStep, ZenonT(30) DEF CheckRecvFinish
    <3>2. ~Wrote(task[t]) /\ ~Owns(task[t])
      BY <2>6, Zenon DEF CheckRecvFinish, At, Wrote, WrotePC, FlushPC, Owns, OwnPC
    <3>3. Done \subseteq Done'
      BY <3>1, <3>2, <1>DoneStep, ZenonT(30)
    <3> QED BY <2>1, <2>2, <2>3, <3>1, <3>3, IdleIs, <1>CountedStays, ZenonT(30)
  <2>7. CASE MarkFinish(t)
    <3>1. PICK k : Step(t, k) /\ Same(k, task[t]) /\ k.pc = "unmark" /\ k.drop = task[t].drop
      BY <2>7, MovedSame, ZenonT(30) DEF MarkFinish
    <3>2. /\ ~Wrote(task[t]) /\ Owns(k) /\ k.piece = p /\ IntactOn(durable, p)
      BY <2>7, <3>1, ZenonT(30) DEF MarkFinish, At, Wrote, WrotePC, FlushPC, Owns, OwnPC, Same, Counted
    <3>3. UNCHANGED record /\ bytefield' = bytefield \cup {p}
      BY <2>7, ZenonT(30) DEF MarkFinish
    <3>4. ~Wrote(k)
      BY <3>1, ZenonT(30) DEF Wrote, WrotePC, FlushPC
    <3>5. Done \subseteq Done'
      BY <3>1, <3>2, <3>3, <1>DoneStep, ZenonT(30)
    <3>6. \A q \in bytefield' : IntactOn(durable, q)
      BY <2>3, <3>2, <3>3, ZenonT(30)
    <3> QED BY <2>1, <2>2, <3>1, <3>2, <3>3, <3>4, <3>5, <3>6, <1>CountedStays, ZenonT(30)
  <2>8. CASE RemoveUnderway(t)
    <3>1. PICK k : Step(t, k) /\ Same(k, task[t]) /\ k.pc = "finished" /\ k.drop = task[t].drop
      BY <2>8, MovedSame, ZenonT(30) DEF RemoveUnderway
    <3>2. ~Wrote(task[t]) /\ p \in bytefield /\ ~Wrote(k)
      BY <2>8, <3>1, Zenon DEF RemoveUnderway, At, Wrote, WrotePC, FlushPC, Counted
    <3>3. UNCHANGED <<record, bytefield>>
      BY <2>8, Zenon DEF RemoveUnderway
    <3>4. Done \subseteq Done'
      BY <3>1, <3>2, <3>3, <1>DoneStep, ZenonT(30)
    <3> QED BY <2>1, <2>2, <2>3, <3>1, <3>2, <3>3, <3>4, <1>CountedStays, ZenonT(30)
  <2>9. ~ResetUnderway(t)
    BY Zenon DEF ResetUnderway, At, Backed, TaskBacked
  <2> QED BY <2>4, <2>5, <2>6, <2>7, <2>8, <2>9, ZenonT(30) DEF Marks
<1>AsideCounted.
      ASSUME Types, Types', Within, Backed, Counted, NEW t \in Task, Aside(t)
      PROVE  Counted'
  <2> USE <1>AsideCounted
  <2>1. PICK k : Step(t, k) /\ AsideTo(k, task[t])
    BY AsideStep, Zenon
  <2>2. UNCHANGED <<bytefield, record, cache, durable, writer>>
    BY AsideStep, Zenon DEF memVars, storeVars
  <2>3. ~Wrote(task[t]) /\ ~Owns(task[t])
    BY AsideStep, ZenonT(30) DEF SavePC, Wrote, WrotePC, FlushPC, Owns, OwnPC
  <2>4. /\ ~Wrote(k) /\ k.pc \notin BlockPC
        /\ k.drop = task[t].drop \/ k.drop = FALSE
    BY <2>1, NoBlockIs, ZenonT(30) DEF AsideTo
  <2>5. k.pc \notin {"count", "check", "flush", "drop", "hash", "mark", "unmark"}
    BY <2>4, Zenon DEF BlockPC
  <2>6. Done \subseteq Done'
    BY <2>1, <2>2, <2>3, <1>DoneStep, ZenonT(30)
  <2>7. Up'
    BY AsideUp, Zenon
  <2>8. \A p \in bytefield : IntactOn(durable, p)
    BY Zenon DEF Counted
  <2> QED BY <2>1, <2>2, <2>4, <2>5, <2>6, <2>7, <2>8, <1>CountedStays, ZenonT(30)
<1>ReceiveCounted.
      ASSUME Types, Types', Within, Backed, Counted, NEW t \in Task,
             NEW p \in Piece, NEW b \in Block, NEW good \in BOOLEAN, Receive(t, p, b, good)
      PROVE  Counted'
  <2> USE <1>ReceiveCounted
  <2>1. PICK k : Step(t, k) /\ IsReceived(k, p, b, good, BlockOffset(p))
    BY ReceiveIs, Zenon
  <2>2. UNCHANGED <<bytefield, record, cache, durable, writer>> /\ task[t].pc = "idle"
    BY Zenon DEF Receive, memVars, storeVars, At
  <2>3. Up'
    BY Zenon DEF Receive, Up
  <2>4. ~Wrote(task[t]) /\ ~Owns(task[t])
    BY <2>2, Zenon DEF Wrote, WrotePC, FlushPC, Owns, OwnPC
  <2>5. k.pc = "reserve" /\ k.drop = FALSE
    BY <2>1, Zenon DEF IsReceived
  <2>6. ~Wrote(k)
    BY <2>5, Zenon DEF Wrote, WrotePC, FlushPC
  <2>7. Done \subseteq Done'
    BY <2>1, <2>2, <2>4, <1>DoneStep, ZenonT(30)
  <2>8. \A q \in bytefield : IntactOn(durable, q)
    BY Zenon DEF Counted
  <2> QED BY <2>1, <2>2, <2>3, <2>5, <2>6, <2>7, <2>8, <1>CountedStays, ZenonT(30)
<1>ApplyCounted.
      ASSUME Types, Owned, Counted, NEW p \in Piece, Apply(p)
      PROVE  Counted'
  <2> USE <1>ApplyCounted
  <2>1. /\ UNCHANGED <<bytefield, task, cache, durable, writer>> /\ Up' /\ ~Ing(p)
    BY Zenon DEF Apply, storeVars, Up, Ing
  <2>2. \A q \in Piece : q # p => record'[q] = record[q]
    BY TypesSplit, Zenon DEF Apply, DataTypes
  <2>3. record[p] = None
    BY <2>1, Zenon DEF Owned
  <2>4. \A q \in Piece, b \in Block : DoneAt(q, b) => DoneAt(q, b)'
    BY <2>1, <2>2, <2>3, ZenonT(30) DEF DoneAt
  <2>5. Done \subseteq Done'
    BY <2>4, Zenon DEF Done
  <2>6. /\ Cardinality(Done) \in Nat /\ Cardinality(Done') \in Nat
        /\ Cardinality(Done) <= Cardinality(Done')
        /\ Done = Piece \X Block => Done' = Piece \X Block
    BY <2>5, <1>DoneGrows, ZenonT(30)
  <2>7. writer # None => writer.len \in Nat /\ writer.buf \in Nat
    BY TypesSplit, Zenon DEF DataTypes, Writer
  <2>8. writer' # None => writer'.len + writer'.buf <= Cardinality(Done')
    BY <2>1, <2>6, <2>7, SMTT(30) DEF Counted
  <2> QED BY <2>1, <2>6, <2>8, ZenonT(30) DEF Counted, Synced
<1>LifeCounted.
      ASSUME Types, Within, Counted, AddTorrent \/ StartTask \/ InsertTask
      PROVE  Counted'
  <2> USE <1>LifeCounted
  <2>1. CASE AddTorrent
    <3>1. UNCHANGED <<tasks, bytefield, record, cache, durable, writer, task>> /\ db' = EmptyRow
      BY <2>1, Zenon DEF AddTorrent, memVars, storeVars
    <3>2. Done' = Done
      BY <3>1, ZenonT(30) DEF Done, DoneAt
    <3>3. RowDurable' /\ FinishedComplete'
      BY <3>1, EmptyRowIs, Zenon DEF RowDurable, FinishedComplete
    <3> QED BY <3>1, <3>2, <3>3, ZenonT(30) DEF Counted, Synced, Up
  <2>2. CASE InsertTask
    <3>1. UNCHANGED <<bytefield, record, cache, durable, writer, task>> /\ Up'
      BY <2>2, Zenon DEF InsertTask, memVars, storeVars, Up
    <3>2. Done' = Done
      BY <3>1, Zenon DEF Done, DoneAt
    <3> QED BY <3>1, <3>2, ZenonT(30) DEF Counted, Synced
  <2>3. CASE StartTask
    <3>1. UNCHANGED <<durable, writer, task>> /\ Up' /\ ~Up /\ bytefield' = db.bits /\ db # None
      BY <2>3, Zenon DEF StartTask, storeVars, Up
    <3>2. writer = None /\ \A t \in Task : task[t] = Idle
      BY <3>1, Zenon DEF Within
    <3>3. \A p \in bytefield' : IntactOn(durable', p)
      BY <3>1, Zenon DEF Counted, RowDurable
    <3> QED BY <3>1, <3>2, <3>3, IdleIs, ZenonT(30) DEF Counted
  <2> QED BY <2>1, <2>2, <2>3, ZenonT(30)
<1>StopCounted.
      ASSUME Types, Within, Backed, Counted, Kill \/ LosePower \/ \E t \in Task : Exit(t)
      PROVE  Counted'
  <2> USE <1>StopCounted
  <2>1. Ends
    BY Zenon DEF Kill, LosePower, Exit
  <2>2. /\ writer' = None /\ bytefield' = {} /\ db' = db /\ \A t \in Task : task'[t] = Idle
    BY <2>1, Zenon DEF Ends
  <2>3. Above(durable', durable)
    BY PowerAbove, AboveSame, Zenon DEF Kill, LosePower, Exit
  <2>4. db # None => db.bits \subseteq Piece
    BY TypesSplit, Zenon DEF DataTypes, RowType
  <2>5. RowDurable /\ FinishedComplete
    BY CountedRow, Zenon
  <2>6. \A p \in Piece : IntactOn(durable, p) => IntactOn(durable', p)
    BY <2>3, AboveKeeps, ZenonT(30)
  <2>7. RowDurable' /\ FinishedComplete'
    BY <2>2, <2>4, <2>5, <2>6, ZenonT(30) DEF RowDurable, FinishedComplete
  <2> QED BY <2>2, <2>7, IdleIs, ZenonT(30) DEF Counted
<1> SUFFICES ASSUME AgainLimit = 0, Types, Within, Owned, Backed, Counted, [Next]_vars
             PROVE  Counted'
  BY Zenon
<1>0. Types'
  BY TypesKept, Zenon
<1>1. CASE UNCHANGED vars
  <2>1. Done' = Done
    BY <1>1, Zenon DEF vars, memVars, storeVars, Done, DoneAt
  <2> QED BY <1>1, <2>1, ZenonT(30) DEF vars, memVars, storeVars, Counted, Synced, Up, RowDurable,
                           FinishedComplete
<1>2. ASSUME NEW t \in Task, BlockAction(t) PROVE Counted'
  <2>1. ~UncountPiece(t)
    BY Zenon DEF UncountPiece, At, Backed, TaskBacked
  <2>2. Write(t) \/ Walks(t) \/ Marks(t) \/ FlushAll(t) \/ Flush(t)
    BY <1>2, <2>1, Zenon DEF BlockAction, Walks, Marks
  <2>3. CASE Write(t)
    BY <1>0, <2>3, <1>WriteCounted, ZenonT(30)
  <2>4. CASE Walks(t)
    BY <1>0, <2>4, <1>WalksCounted, ZenonT(30)
  <2>5. CASE Marks(t)
    BY <1>0, <2>5, <1>MarksCounted, ZenonT(30)
  <2>6. CASE FlushAll(t) \/ Flush(t)
    BY <1>0, <2>6, <1>FlushCounted, ZenonT(30)
  <2> QED BY <2>2, <2>3, <2>4, <2>5, <2>6, ZenonT(30)
<1>3. CASE Others
  BY <1>0, <1>3, <1>AsideCounted, <1>ReceiveCounted, <1>LifeCounted, <1>StopCounted, <1>ApplyCounted, ZenonT(30) DEF Others
<1> QED BY <1>1, <1>2, <1>3, NextSplit, ZenonT(30)

LEMMA InitCounted ==
    Init => Counted
<1> SUFFICES ASSUME Init PROVE Counted
  BY Zenon
<1>1. writer = None /\ bytefield = {} /\ db = None /\ \A t \in Task : task[t] = Idle
  BY Zenon DEF Init
<1> QED BY <1>1, IdleIs, Zenon DEF Counted, RowDurable, FinishedComplete

\* The inductive invariant of a download in which no block is damaged or comes twice.
RowInv == Types /\ Within /\ Owned /\ Backed /\ Counted

LEMMA RowInvHolds ==
    ASSUME BadLimit = 0, AgainLimit = 0, PowerLoss = FALSE \/ Blocks = 1
    PROVE  Spec => []RowInv
<1>1. Init => RowInv
  BY InitSingle, InitBacked, InitCounted, Zenon DEF RowInv, Single
<1>2. RowInv /\ [Next]_vars => RowInv'
  BY TypesKept, WithinKept, OwnedKept, BackedKept, CountedKept, ZenonT(30) DEF RowInv
<1> QED BY <1>1, <1>2, PTL DEF Spec

\* RowDurable: a piece the row calls downloaded is on the disk, flushed, whichever
\* handler's snapshot the row holds and whenever the process ends.  Without damaged or
\* repeated blocks, and with one block to a piece where pages can be lost: a FileWriter
\* that counted a block twice would be dropped before everything is written.
THEOREM RowIsDurable ==
    ASSUME BadLimit = 0, AgainLimit = 0, PowerLoss = FALSE \/ Blocks = 1
    PROVE  Spec => []RowDurable
<1>1. RowInv => RowDurable
  BY CountedRow, Zenon DEF RowInv
<1> QED BY <1>1, RowInvHolds, PTL

\* FinishedComplete: a torrent the row calls finished, which is never loaded again, is
\* complete on the disk; under the same conditions.
THEOREM FinishedIsComplete ==
    ASSUME BadLimit = 0, AgainLimit = 0, PowerLoss = FALSE \/ Blocks = 1
    PROVE  Spec => []FinishedComplete
<1>1. RowInv => FinishedComplete
  BY CountedRow, Zenon DEF RowInv
<1> QED BY <1>1, RowInvHolds, PTL
=============================================================================
