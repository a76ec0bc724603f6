--------------------------- MODULE ProgressProofs ---------------------------
(***************************************************************************)
(* Proofs about TaskProgress, for every number of pieces, blocks, handlers *)
(* and crashes: what the row of a torrent says is true of its file.        *)
(*                                                                         *)
(* The row is written from a snapshot taken long before, by a handler that *)
(* may be overtaken, and the data is written by other handlers.  Within    *)
(* says that no snapshot, old or new, knows more than the bit map; Owned,  *)
(* that a piece in verification belongs to one handler and that nobody can *)
(* write to it.  DurableProofs goes on from here to the disk.              *)
(***************************************************************************)
EXTENDS TaskProgress, WellFoundedInduction, TLAPS

BlockPC == {"reserve", "write", "limit", "offset", "record", "count", "check", "flush",
            "drop", "hash", "reset", "uncount", "mark", "unmark", "finished"}
FlushPC == {"flushall", "flushdrop", "flushzero"}
SavePC == {"conn", "bits", "status", "execute", "after"}
PC == BlockPC \cup FlushPC \cup SavePC \cup {"idle", "exit"}
Writer == [buf : Nat, len : Nat]

TaskType ==
    [pc : PC, piece : Piece \cup {None}, block : Block, good : BOOLEAN, off : 0 .. Blocks,
     drop : BOOLEAN, row : RowType, then : {"after", "end", "exit"}]

\* A handler of a block has a piece; the shutdown has none.
TaskOK(k) ==
    /\ k \in TaskType
    /\ k.pc \in BlockPC => k.then = "after" /\ k.piece \in Piece
    /\ k.pc \in FlushPC => k.then \in {"after", "exit"}
    /\ k.pc \in FlushPC /\ k.then = "after" => k.piece \in Piece

Types ==
    /\ tasks \in {"absent", "started", "running", "removed"}
    /\ bytefield \subseteq Piece /\ underway \in UbType
    /\ record \in [Piece -> {None} \cup SUBSET Block]
    /\ status \in {"Download", "Finished"} /\ download \in 0 .. CounterSize - 1
    /\ cache \in Content /\ durable \in Content
    /\ writer \in {None} \cup Writer /\ buf_size \in 0 .. CounterSize - 1
    /\ db \in {None} \cup RowType
    /\ bads \in Nat /\ agains \in Nat
    /\ task \in [Task -> TaskType]
    /\ \A t \in Task : TaskOK(task[t])

\* What a row says is within what the bit map says.
RowWithin(row, bits) ==
    /\ row.bits \subseteq bits
    /\ row.status = "Finished" => bits = Piece

Within ==
    /\ \A t \in Task : RowWithin(task[t].row, bytefield)
    /\ status = "Finished" => bytefield = Piece
    /\ Up /\ db # None => RowWithin(db, bytefield)
    /\ ~Up => /\ bytefield = {} /\ status = "Download" /\ record = EmptyUb
              /\ task = [t \in Task |-> Idle] /\ writer = None

\* The block of a handler is neither recorded nor given up; it is written already;
\* the piece is complete and belongs to its handler.
FetchPC == {"reserve", "write", "limit", "offset", "record"} \cup FlushPC
Fetches(k) == k.pc \in FetchPC /\ k.then = "after"
WrotePC == {"limit", "offset", "record"} \cup FlushPC
Wrote(k) == k.pc \in WrotePC /\ k.then = "after"
OwnPC == {"flush", "drop", "hash", "reset", "mark", "unmark"}
Owns(k) == k.pc \in OwnPC

Ing(p) == underway[p] # None /\ underway[p].st = "Ing"

\* Who writes to a piece, and who verifies it, when no block is received twice.
Owned ==
    /\ \A t \in Task : Fetches(task[t]) =>
          record[task[t].piece] # None /\ task[t].block \notin record[task[t].piece]
    /\ \A t, u \in Task :
          Fetches(task[t]) /\ Fetches(task[u]) /\ task[t].piece = task[u].piece
              /\ task[t].block = task[u].block => t = u
    /\ \A p \in Piece : record[p] # None => p \notin bytefield /\ Ing(p)
    /\ \A t \in Task : Owns(task[t]) => record[task[t].piece] = None /\ Ing(task[t].piece)
    /\ \A t, u \in Task :
          Owns(task[t]) /\ Owns(task[u]) /\ task[t].piece = task[u].piece => t = u

Single == AgainLimit = 0 => Owned

-----------------------------------------------------------------------------
\* A piece the row calls downloaded is in the file.
RowInFile == db # None => \A p \in db.bits : IntactOn(cache, p)

\* A torrent the row calls finished is in the file.
FinishedInFile == db # None /\ db.status = "Finished" => Complete

Verified ==
    /\ BadLimit = 0 => \A t \in Task : Fetches(task[t]) => task[t].good = TRUE
    /\ \A t \in Task : task[t].pc = "mark" => IntactOn(cache, task[t].piece)
    /\ \A p \in bytefield : IntactOn(cache, p)
    /\ ~Up => RowInFile /\ FinishedInFile

-----------------------------------------------------------------------------
(* Steps of one handler *)

Moved(k, pc) == [k EXCEPT !.pc = pc]
Step(t, k) == task' = [task EXCEPT ![t] = k]

LEMMA GotoStep ==
    ASSUME Types, NEW t \in Task, NEW pc \in PC, Goto(t, pc)
    PROVE  Step(t, Moved(task[t], pc))
BY Zenon DEF Types, Goto, Step, Moved

LEMMA EndStep ==
    ASSUME NEW t \in Task, End(t)
    PROVE  Step(t, Idle)
BY Zenon DEF End, Step

\* Only the place in the code changes.
LEMMA MovedIs ==
    ASSUME NEW k \in TaskType, NEW pc \in PC
    PROVE  LET m == Moved(k, pc)
           IN  /\ m \in TaskType
               /\ m.pc = pc /\ m.piece = k.piece /\ m.block = k.block /\ m.good = k.good
               /\ m.off = k.off /\ m.drop = k.drop /\ m.row = k.row /\ m.then = k.then
BY Zenon DEF Moved, TaskType

LEMMA EmptyRowIs ==
    /\ EmptyRow \in RowType
    /\ EmptyRow.bits = {} /\ EmptyRow.status = "Download" /\ EmptyRow.ub = EmptyUb
    /\ EmptyUb \in UbType
    /\ EmptyUb \in [Piece -> {None} \cup SUBSET Block]
    /\ \A p \in Piece : EmptyUb[p] = None
BY ProgressAssumption DEF EmptyRow, RowType, EmptyUb, UbType

LEMMA IdleIs ==
    /\ TaskOK(Idle) /\ Idle.pc = "idle" /\ Idle.row = EmptyRow /\ Idle.drop = FALSE
    /\ ~Fetches(Idle) /\ ~Wrote(Idle) /\ ~Owns(Idle)
<1>1. 0 \in Block /\ 0 \in 0 .. Blocks
  BY ProgressAssumption DEF Block
<1>2. Idle \in TaskType
  BY <1>1, EmptyRowIs, Zenon DEF Idle, TaskType, PC
<1>3. Idle.pc = "idle" /\ Idle.row = EmptyRow /\ Idle.drop = FALSE
  BY Zenon DEF Idle
<1> QED BY <1>2, <1>3, Zenon DEF TaskOK, BlockPC, FlushPC, FetchPC, WrotePC, Fetches, Wrote,
        Owns, OwnPC

\* The handlers after a step of one of them.
LEMMA Stepped ==
    ASSUME Types, NEW t \in Task, NEW k, Step(t, k)
    PROVE  task'[t] = k /\ \A u \in Task : u # t => task'[u] = task[u]
BY Zenon DEF Types, Step

LEMMA StepTypes ==
    ASSUME Types, NEW t \in Task, NEW k, TaskOK(k), Step(t, k)
    PROVE  task' \in [Task -> TaskType] /\ \A u \in Task : TaskOK(task'[u])
BY Zenon DEF Types, Step, TaskOK

\* Types without the handlers.
DataTypes ==
    /\ tasks \in {"absent", "started", "running", "removed"}
    /\ bytefield \subseteq Piece /\ underway \in UbType
    /\ record \in [Piece -> {None} \cup SUBSET Block]
    /\ status \in {"Download", "Finished"} /\ download \in 0 .. CounterSize - 1
    /\ cache \in Content /\ durable \in Content
    /\ writer \in {None} \cup Writer /\ buf_size \in 0 .. CounterSize - 1
    /\ db \in {None} \cup RowType
    /\ bads \in Nat /\ agains \in Nat

LEMMA TypesSplit ==
    /\ Types => DataTypes /\ \A t \in Task : TaskOK(task[t]) /\ task[t] \in TaskType
    /\ DataTypes /\ task \in [Task -> TaskType] /\ (\A t \in Task : TaskOK(task[t]))
          => Types
BY Zenon DEF Types, DataTypes

LEMMA KeepTypes ==
    ASSUME Types, DataTypes', NEW t \in Task, NEW k, TaskOK(k), Step(t, k)
    PROVE  Types'
BY StepTypes, TypesSplit, Zenon DEF Types, DataTypes

\* One more thing about a handler at a place of the code: it is Up, has its piece.
LEMMA AtIs ==
    ASSUME Types, NEW t \in Task, NEW pc, At(t, pc)
    PROVE  /\ task[t].pc = pc /\ TaskOK(task[t]) /\ task[t] \in TaskType
           /\ pc \in BlockPC => task[t].then = "after" /\ task[t].piece \in Piece
           /\ pc \in FlushPC => /\ task[t].then \in {"after", "exit"}
                                /\ task[t].then = "after" => task[t].piece \in Piece
           /\ pc # "idle" /\ Within => Up
<1>1. task[t].pc = pc /\ TaskOK(task[t]) /\ task[t] \in TaskType
  BY TypesSplit, Zenon DEF At
<1>2. ASSUME pc # "idle", Within PROVE Up
  BY <1>1, <1>2, IdleIs, Zenon DEF Within
<1> QED BY <1>1, <1>2, Zenon DEF TaskOK

\* The writer after a flush, and the handler that flushed.
Flushed(k, pc, d) == [k EXCEPT !.pc = pc, !.drop = d]

LEMMA FlushedIs ==
    ASSUME NEW k \in TaskType, NEW pc \in PC, NEW d \in BOOLEAN
    PROVE  LET m == Flushed(k, pc, d)
           IN  /\ m \in TaskType
               /\ m.pc = pc /\ m.piece = k.piece /\ m.block = k.block /\ m.good = k.good
               /\ m.off = k.off /\ m.drop = d /\ m.row = k.row /\ m.then = k.then
BY Zenon DEF Flushed, TaskType

LEMMA FlushWriterIs ==
    ASSUME Types, NEW t \in Task, NEW pc \in PC, FlushWriter(t, pc)
    PROVE  /\ durable' \in Content /\ writer' \in {None} \cup Writer
           /\ writer = None => /\ durable' = durable /\ writer' = None
                               /\ Step(t, Flushed(task[t], pc, FALSE))
           /\ writer # None =>
                /\ durable' = cache /\ writer' \in Writer
                /\ writer'.len + writer'.buf = writer.len + writer.buf
                /\ Step(t, Flushed(task[t], pc, writer.len + writer.buf >= FileLen))
<1>1. cache \in Content /\ durable \in Content /\ writer \in {None} \cup Writer
  BY Zenon DEF Types
<1>2. CASE writer = None
  BY <1>1, <1>2, Zenon DEF FlushWriter, Types, Step, Flushed
<1>3. CASE writer # None
  <2>1. writer \in Writer
    BY <1>1, <1>3, Zenon
  <2>2. durable' = cache /\ writer' = [buf |-> 0, len |-> writer.len + writer.buf]
    BY <1>3, Zenon DEF FlushWriter
  <2>3. writer' \in Writer /\ writer'.len + writer'.buf = writer.len + writer.buf
    BY <2>1, <2>2 DEF Writer
  <2>4. Step(t, Flushed(task[t], pc, writer.len + writer.buf >= FileLen))
    BY <1>3, Zenon DEF FlushWriter, Types, Step, Flushed
  <2> QED BY <1>1, <1>3, <2>2, <2>3, <2>4, Zenon
<1> QED BY <1>2, <1>3, Zenon

-----------------------------------------------------------------------------
(* save_progress *)

WithRow(k, pc, row) == [k EXCEPT !.pc = pc, !.row = row]

LEMMA WithRowIs ==
    ASSUME NEW k \in TaskType, NEW pc \in SavePC, NEW row \in RowType
    PROVE  LET m == WithRow(k, pc, row)
           IN  /\ TaskOK(m) /\ m \in TaskType
               /\ m.pc = pc /\ m.piece = k.piece /\ m.block = k.block /\ m.good = k.good
               /\ m.off = k.off /\ m.drop = k.drop /\ m.row = row /\ m.then = k.then
<1> DEFINE m == WithRow(k, pc, row)
<1>1. /\ m \in TaskType
      /\ m.pc = pc /\ m.piece = k.piece /\ m.block = k.block /\ m.good = k.good
      /\ m.off = k.off /\ m.drop = k.drop /\ m.row = row /\ m.then = k.then
  BY Zenon DEF WithRow, TaskType, PC
<1>2. TaskOK(m)
  BY <1>1, Zenon DEF TaskOK, SavePC, BlockPC, FlushPC
<1> QED BY <1>1, <1>2, Zenon

\* The row of a handler changes in one place.
LEMMA RowUb ==
    ASSUME NEW row \in RowType, NEW ub \in UbType
    PROVE  LET r == [row EXCEPT !.ub = ub]
           IN  r \in RowType /\ r.ub = ub /\ r.bits = row.bits /\ r.status = row.status
BY Zenon DEF RowType

LEMMA RowBits ==
    ASSUME NEW row \in RowType, NEW bits \in SUBSET Piece
    PROVE  LET r == [row EXCEPT !.bits = bits]
           IN  r \in RowType /\ r.ub = row.ub /\ r.bits = bits /\ r.status = row.status
BY Zenon DEF RowType

StatusRow(row, n, s) == [row EXCEPT !.download = n, !.status = s]

LEMMA RowStatus ==
    ASSUME NEW row \in RowType, NEW n \in 0 .. CounterSize - 1,
           NEW s \in {"Download", "Finished"}
    PROVE  LET r == StatusRow(row, n, s)
           IN  r \in RowType /\ r.ub = row.ub /\ r.bits = row.bits /\ r.status = s
BY Zenon DEF RowType, StatusRow

PausedUb == [p \in Piece |-> Paused(underway[p])]

LEMMA PausedUbIs ==
    ASSUME Types
    PROVE  /\ PausedUb \in UbType
           /\ \A p \in Piece : PausedUb[p] # None =>
                 underway[p] # None /\ PausedUb[p].off = underway[p].off
BY Zenon DEF Types, PausedUb, Paused, UbType

\* What a snapshot step does: the row of t is now row, and t is at pc.
LEMMA SnapStep ==
    ASSUME Types, NEW t \in Task,
           SnapUnderway(t) \/ SnapBytefield(t) \/ SnapStatus(t)
    PROVE  \E pc \in SavePC, row \in RowType :
              /\ task[t].pc \in SavePC
              /\ Step(t, WithRow(task[t], pc, row))
              /\ row.bits = task[t].row.bits \/ row.bits = bytefield
              /\ row.status = task[t].row.status \/ row.status = status
              /\ row.ub = task[t].row.ub \/ row.ub = PausedUb
              /\ UNCHANGED <<tasks, memVars, storeVars, db, boundVars>>
<1> DEFINE row == task[t].row
<1>0. /\ row \in RowType /\ task \in [Task -> TaskType]
      /\ bytefield \in SUBSET Piece
      /\ download \in 0 .. CounterSize - 1 /\ status \in {"Download", "Finished"}
  BY TypesSplit, Zenon DEF TaskType, Types
<1>1. CASE SnapUnderway(t)
  <2> DEFINE r == [row EXCEPT !.ub = PausedUb]
  <2>1. Step(t, WithRow(task[t], "bits", r))
    BY <1>0, <1>1, Zenon DEF SnapUnderway, Step, WithRow, PausedUb
  <2>2. r \in RowType /\ r.bits = row.bits /\ r.status = row.status /\ r.ub = PausedUb
    BY <1>0, PausedUbIs, RowUb, ZenonT(30)
  <2>3. task[t].pc \in SavePC /\ "bits" \in SavePC
        /\ UNCHANGED <<tasks, memVars, storeVars, db, boundVars>>
    BY <1>1, Zenon DEF SnapUnderway, At, SavePC
  <2> QED BY <2>1, <2>2, <2>3, Zenon
<1>2. CASE SnapBytefield(t)
  <2> DEFINE r == [row EXCEPT !.bits = bytefield]
  <2>1. Step(t, WithRow(task[t], "status", r))
    BY <1>0, <1>2, Zenon DEF SnapBytefield, Step, WithRow
  <2>2. r \in RowType /\ r.bits = bytefield /\ r.status = row.status /\ r.ub = row.ub
    BY <1>0, RowBits, ZenonT(30)
  <2>3. task[t].pc \in SavePC /\ "status" \in SavePC
        /\ UNCHANGED <<tasks, memVars, storeVars, db, boundVars>>
    BY <1>2, Zenon DEF SnapBytefield, At, SavePC
  <2> QED BY <2>1, <2>2, <2>3, Zenon
<1>3. CASE SnapStatus(t)
  <2> DEFINE r == StatusRow(row, download, status)
  <2>1. Step(t, WithRow(task[t], "execute", r))
    <3> DEFINE k1 == [task[t] EXCEPT !.pc = "execute"]
               k2 == [k1 EXCEPT !.row.download = download]
               k3 == [k2 EXCEPT !.row.status = status]
    <3>1. task' = [task EXCEPT ![t].pc = "execute", ![t].row.download = download,
                               ![t].row.status = status]
      BY <1>3, Zenon DEF SnapStatus
    <3>2. task' = [task EXCEPT ![t] = k3]
      BY <1>0, <3>1, Zenon
    <3>3. task[t] \in TaskType
      BY <1>0, Zenon
    <3>4. k3 = WithRow(task[t], "execute", r)
      BY <3>3, Zenon DEF WithRow, StatusRow, TaskType, RowType
    <3> HIDE DEF k3
    <3> QED BY <3>2, <3>4, Zenon DEF Step
  <2>2. r \in RowType /\ r.bits = row.bits /\ r.status = status /\ r.ub = row.ub
    BY <1>0, RowStatus, Zenon
  <2>3. task[t].pc \in SavePC /\ "execute" \in SavePC
        /\ UNCHANGED <<tasks, memVars, storeVars, db, boundVars>>
    BY <1>3, Zenon DEF SnapStatus, At, SavePC
  <2> QED BY <2>1, <2>2, <2>3, Zenon
<1> QED BY <1>1, <1>2, <1>3, Zenon

\* FinishTask and the shutdown send a handler to save, and say what comes then.
Sent(k, pc, th) == [k EXCEPT !.pc = pc, !.then = th]

LEMMA SentIs ==
    ASSUME NEW k \in TaskType, NEW pc \in {"conn", "flushall"}, NEW th \in {"end", "exit"},
           pc = "conn" \/ th = "exit"
    PROVE  LET m == Sent(k, pc, th)
           IN  /\ TaskOK(m) /\ m \in TaskType
               /\ m.pc = pc /\ m.piece = k.piece /\ m.block = k.block /\ m.good = k.good
               /\ m.off = k.off /\ m.drop = k.drop /\ m.row = k.row /\ m.then = th
<1> DEFINE m == Sent(k, pc, th)
<1>1. pc \in PC
  BY Zenon DEF PC, SavePC, FlushPC
<1>2. /\ m \in TaskType
      /\ m.pc = pc /\ m.piece = k.piece /\ m.block = k.block /\ m.good = k.good
      /\ m.off = k.off /\ m.drop = k.drop /\ m.row = k.row /\ m.then = th
  BY <1>1, ZenonT(40) DEF Sent, TaskType
<1> HIDE DEF m
<1>3. TaskOK(m)
  BY <1>2, Zenon DEF TaskOK, BlockPC, FlushPC
<1> QED BY <1>2, <1>3, Zenon DEF m

LEMMA FinishTaskIs ==
    ASSUME Types, NEW t \in Task, FinishTask(t)
    PROVE  \/ /\ tasks = "running" /\ tasks' = "removed"
              /\ Step(t, Sent(task[t], "conn", "end"))
           \/ Step(t, Idle) /\ tasks' = tasks
<1>1. CASE tasks = "running"
  BY <1>1, Zenon DEF FinishTask, Types, Step, Sent
<1>2. CASE tasks # "running"
  BY <1>2, EndStep, Zenon DEF FinishTask
<1> QED BY <1>1, <1>2, Zenon

\* What the end of save_progress does.
LEMMA SavedStep ==
    ASSUME Types, NEW t \in Task, Execute(t) \/ AfterSave(t) \/ DropHandler(t) \/ NothingLeft(t)
    PROVE  \/ Step(t, Idle)
           \/ Step(t, Sent(task[t], "conn", "end"))
           \/ Step(t, Moved(task[t], "after")) /\ task[t].then = "after"
           \/ Step(t, Moved(task[t], "flushall")) /\ task[t].then = "exit"
<1>1. CASE Execute(t)
  <2>1. CASE task[t].then = "after"
    BY <1>1, <2>1, GotoStep, Zenon DEF Execute, PC, SavePC
  <2>2. CASE task[t].then = "exit"
    BY <1>1, <2>2, GotoStep, Zenon DEF Execute, PC, FlushPC
  <2>3. CASE task[t].then = "end"
    BY <1>1, <2>3, EndStep, Zenon DEF Execute
  <2>4. task[t].then \in {"after", "end", "exit"}
    BY TypesSplit, Zenon DEF TaskType
  <2> QED BY <2>1, <2>2, <2>3, <2>4, Zenon
<1>2. CASE AfterSave(t)
  BY <1>2, EndStep, FinishTaskIs, Zenon DEF AfterSave
<1>3. CASE DropHandler(t)
  BY <1>3, EndStep, Zenon DEF DropHandler
<1>4. CASE NothingLeft(t)
  BY <1>4, FinishTaskIs, Zenon DEF NothingLeft
<1> QED BY <1>1, <1>2, <1>3, <1>4, Zenon

-----------------------------------------------------------------------------
(* The task and the process *)

LEMMA LeastElement ==
    ASSUME NEW T, T \subseteq Nat, T # {}
    PROVE  \E x \in T : \A y \in T : x <= y
<1>1. PICK x \in T : \A y \in T : ~(<<y, x>> \in OpToRel(<, Nat))
  BY WFMin, NatLessThanWellFounded, Zenon
<1>2. \A y \in T : ~(y < x)
  BY <1>1, Zenon DEF OpToRel
<1> QED BY <1>2

\* Piece::block_offset: below it, every block is recorded; at it, none is.
LEMMA OffsetIs ==
    ASSUME NEW p \in Piece, record[p] \subseteq Block
    PROVE  /\ BlockOffset(p) \in 0 .. Blocks
           /\ \A b \in Block : b < BlockOffset(p) => b \in record[p]
<1> DEFINE S == {o \in 0 .. Blocks : 0 .. o - 1 \subseteq record[p]}
           T == {Blocks - o : o \in S}
<1>1. T \subseteq Nat /\ Blocks \in T
  <2>1. 0 \in S
    BY ProgressAssumption
  <2> QED BY <2>1, ProgressAssumption
<1>2. PICK x \in T : \A y \in T : x <= y
  BY <1>1, LeastElement, Zenon
<1>3. PICK o \in S : x = Blocks - o
  BY <1>2, Zenon
<1>4. ASSUME NEW y \in S PROVE o >= y
  <2>1. Blocks - y \in T
    BY Zenon
  <2>2. x <= Blocks - y
    BY <1>2, <2>1, Zenon
  <2> QED BY <1>3, <2>2, ProgressAssumption
<1>5. BlockOffset(p) \in S
  BY <1>4, Zenon DEF BlockOffset, Max
<1> QED BY <1>5, ProgressAssumption DEF Block

\* The handler of a received block.
Taken(k, p, b, good, off) ==
    [k EXCEPT !.pc = "reserve", !.piece = p, !.block = b, !.good = good, !.off = off]
Received(p, b, good, off) == Taken(Idle, p, b, good, off)

LEMMA TakenIs ==
    ASSUME NEW k \in TaskType, NEW p \in Piece, NEW b \in Block, NEW good \in BOOLEAN,
           NEW off \in 0 .. Blocks
    PROVE  LET m == Taken(k, p, b, good, off)
           IN  /\ m \in TaskType
               /\ m.pc = "reserve" /\ m.piece = p /\ m.block = b /\ m.good = good
               /\ m.off = off /\ m.drop = k.drop /\ m.row = k.row /\ m.then = k.then
<1>1. "reserve" \in PC
  BY Zenon DEF PC, BlockPC
<1> QED BY <1>1, ZenonT(60) DEF Taken, TaskType

IsReceived(m, p, b, good, off) ==
    /\ TaskOK(m) /\ m \in TaskType
    /\ m.pc = "reserve" /\ m.piece = p /\ m.block = b /\ (good => m.good = TRUE)
    /\ m.off = off /\ m.drop = FALSE /\ m.row = EmptyRow /\ m.then = "after"

LEMMA ReceivedIs ==
    ASSUME NEW p \in Piece, NEW b \in Block, NEW good \in BOOLEAN, NEW off \in 0 .. Blocks
    PROVE  IsReceived(Received(p, b, good, off), p, b, good, off)
<1> DEFINE m == Received(p, b, good, off)
<1>1. /\ Idle \in TaskType /\ Idle.drop = FALSE /\ Idle.row = EmptyRow
      /\ Idle.then = "after"
  BY IdleIs, Zenon DEF Idle, TaskOK
<1>2. /\ m \in TaskType
      /\ m.pc = "reserve" /\ m.piece = p /\ m.block = b /\ (good => m.good = TRUE)
      /\ m.off = off /\ m.drop = FALSE /\ m.row = EmptyRow /\ m.then = "after"
  BY <1>1, TakenIs DEF Received
<1> HIDE DEF m
<1>3. TaskOK(m)
  BY <1>2, Zenon DEF TaskOK, BlockPC, FlushPC
<1>4. IsReceived(m, p, b, good, off)
  BY <1>2, <1>3, Zenon DEF IsReceived
<1> QED BY <1>4, Zenon DEF m

LEMMA ReceiveIs ==
    ASSUME Types, NEW t \in Task, NEW p \in Piece, NEW b \in Block, NEW good \in BOOLEAN,
           Receive(t, p, b, good)
    PROVE  /\ \A c \in Block : c < BlockOffset(p) => c \in record[p]
           /\ BlockOffset(p) \in 0 .. Blocks
           /\ \E k : Step(t, k) /\ IsReceived(k, p, b, good, BlockOffset(p))
<1>1. record[p] \in SUBSET Block
  BY TypesSplit, Zenon DEF Receive, DataTypes
<1>2. BlockOffset(p) \in 0 .. Blocks
  BY <1>1, OffsetIs, Zenon
<1>3. Step(t, Received(p, b, good, BlockOffset(p)))
  BY Zenon DEF Receive, Step, Received, Taken
<1>4. IsReceived(Received(p, b, good, BlockOffset(p)), p, b, good, BlockOffset(p))
  BY <1>2, ReceivedIs, Zenon
<1> QED BY <1>1, <1>2, <1>3, <1>4, OffsetIs, Zenon

LEMMA TypesKept ==
    Types /\ [Next]_vars => Types'
<1>WrapIn.
      ASSUME NEW n \in Int PROVE Wrap(n) \in 0 .. CounterSize - 1
  BY <1>WrapIn, ProgressAssumption DEF Wrap
\* A handler moves to a place where it may be.
<1>MovedOK.
      ASSUME NEW k, TaskOK(k), NEW pc \in PC,
             pc \in BlockPC => k.then = "after" /\ k.piece \in Piece,
             pc \in FlushPC => /\ k.then \in {"after", "exit"}
                               /\ k.then = "after" => k.piece \in Piece
      PROVE  TaskOK(Moved(k, pc))
  BY <1>MovedOK, MovedIs, ZenonT(30) DEF TaskOK
<1>MoveTypes.
      ASSUME Types, DataTypes', NEW t \in Task, NEW pc \in PC, Goto(t, pc),
             pc \in BlockPC => task[t].then = "after" /\ task[t].piece \in Piece,
             pc \in FlushPC => /\ task[t].then \in {"after", "exit"}
                               /\ task[t].then = "after" => task[t].piece \in Piece
      PROVE  Types'
  <2> USE <1>MoveTypes
  <2>1. TaskOK(Moved(task[t], pc))
    BY <1>MovedOK, TypesSplit, Zenon
  <2> QED BY <2>1, GotoStep, KeepTypes, Zenon
<1>EndTypes.
      ASSUME Types, DataTypes', NEW t \in Task, End(t)
      PROVE  Types'
  BY <1>EndTypes, EndStep, IdleIs, KeepTypes, Zenon
\* A block is written: Store::write.
<1>WritingTypes.
      ASSUME Types, NEW t \in Task, Reserve(t) \/ Write(t) \/ CheckLimit(t)
      PROVE  Types'
  <2> USE <1>WritingTypes
  <2> USE DEF PC, BlockPC, FlushPC
  <2>1. CASE Reserve(t)
    <3>1. buf_size + 1 \in Int
      BY TypesSplit, ProgressAssumption DEF DataTypes
    <3>2. DataTypes'
      BY <2>1, <3>1, <1>WrapIn, TypesSplit, Zenon
         DEF Reserve, DataTypes, memVars, boundVars
    <3> QED BY <2>1, <3>2, AtIs, <1>MoveTypes, Zenon DEF Reserve
  <2>2. CASE Write(t)
    <3>1. writer' \in Writer
      BY <2>2, TypesSplit DEF Write, DataTypes, NewWriter, Writer
    <3>2. task[t].piece \in Piece /\ task[t].block \in Block
      BY <2>2, AtIs, Zenon DEF Write, TaskType
    <3>3. cache' \in Content
      BY <2>2, <3>2, TypesSplit, Zenon DEF Write, DataTypes, Content
    <3>4. DataTypes'
      BY <2>2, <3>1, <3>3, TypesSplit, ZenonT(30) DEF Write, DataTypes, memVars, boundVars
    <3> QED BY <2>2, <3>4, AtIs, <1>MoveTypes, Zenon DEF Write
  <2>3. CASE CheckLimit(t)
    <3>1. DataTypes'
      BY <2>3, TypesSplit, Zenon DEF CheckLimit, DataTypes, memVars, storeVars, boundVars
    <3> QED BY <2>3, <3>1, AtIs, <1>MoveTypes, Zenon DEF CheckLimit
  <2> QED BY <2>1, <2>2, <2>3, Zenon
<1>FlushTypes.
      ASSUME Types, NEW t \in Task, FlushAll(t) \/ Flush(t)
      PROVE  Types'
  <2> USE <1>FlushTypes
  <2> USE DEF PC, BlockPC, FlushPC
  <2>1. PICK pc \in {"flushdrop", "drop"} :
          /\ FlushWriter(t, pc)
          /\ pc = "flushdrop" => At(t, "flushall")
          /\ pc = "drop" => At(t, "flush")
    BY Zenon DEF FlushAll, Flush
  <2>2. buf_size' \in 0 .. CounterSize - 1
    <3>1. CASE FlushAll(t)
      BY <3>1, TypesSplit, Zenon DEF FlushAll, DataTypes
    <3>2. CASE Flush(t) /\ writer = None
      BY <3>2, TypesSplit, Zenon DEF Flush, DataTypes
    <3>3. CASE Flush(t) /\ writer # None
      <4>1. buf_size - writer.buf \in Int
        BY <3>3, TypesSplit, ProgressAssumption DEF DataTypes, Writer
      <4> QED BY <3>3, <4>1, <1>WrapIn, Zenon DEF Flush
    <3> QED BY <3>1, <3>2, <3>3, Zenon
  <2>3. DataTypes'
    BY <2>1, <2>2, FlushWriterIs, TypesSplit, Zenon
       DEF DataTypes, FlushAll, Flush, memVars, boundVars
  <2>4. PICK d \in BOOLEAN : Step(t, Flushed(task[t], pc, d))
    <3> DEFINE full == writer.len + writer.buf >= FileLen
    <3>1. full \in BOOLEAN
      OBVIOUS
    <3>2. Step(t, Flushed(task[t], pc, FALSE)) \/ Step(t, Flushed(task[t], pc, full))
      BY <2>1, FlushWriterIs, Zenon
    <3> HIDE DEF full
    <3> QED BY <3>1, <3>2, Zenon
  <2>5. TaskOK(Flushed(task[t], pc, d))
    <3> DEFINE k == task[t]
               m == Flushed(k, pc, d)
    <3>1. /\ k \in TaskType /\ pc \in PC
          /\ pc = "drop" => k.then = "after" /\ k.piece \in Piece
          /\ pc = "flushdrop" => /\ k.then \in {"after", "exit"}
                                 /\ k.then = "after" => k.piece \in Piece
      BY <2>1, AtIs, Zenon
    <3>2. m \in TaskType /\ m.pc = pc /\ m.piece = k.piece /\ m.then = k.then
      BY <3>1, FlushedIs
    <3> HIDE DEF m, k
    <3>3. TaskOK(m)
      BY <2>1, <3>1, <3>2, Zenon DEF TaskOK
    <3> QED BY <3>3, Zenon DEF m, k
  <2> QED BY <2>3, <2>4, <2>5, KeepTypes, ZenonT(30)
\* The rest of flush_all and flush.
<1>RemoveTypes.
      ASSUME Types, NEW t \in Task,
             FlushAllRemove(t) \/ FlushAllZero(t) \/ FlushRemove(t)
      PROVE  Types'
  <2> USE <1>RemoveTypes
  <2> USE DEF PC, BlockPC, FlushPC
  <2>1. CASE FlushAllRemove(t)
    <3>1. DataTypes'
      BY <2>1, TypesSplit, Zenon DEF FlushAllRemove, DataTypes, memVars, boundVars
    <3> QED BY <2>1, <3>1, AtIs, <1>MoveTypes, Zenon DEF FlushAllRemove
  <2>2. CASE FlushAllZero(t)
    <3>1. DataTypes'
      BY <2>2, TypesSplit, ProgressAssumption DEF FlushAllZero, DataTypes, memVars, boundVars
    <3>2. CASE task[t].then = "exit"
      BY <2>2, <3>1, <3>2, AtIs, <1>MoveTypes, Zenon DEF FlushAllZero
    <3>3. CASE task[t].then # "exit"
      BY <2>2, <3>1, <3>3, AtIs, <1>MoveTypes, Zenon DEF FlushAllZero
    <3> QED BY <3>2, <3>3, Zenon
  <2>3. CASE FlushRemove(t)
    <3>1. DataTypes'
      BY <2>3, TypesSplit, Zenon DEF FlushRemove, DataTypes, memVars, boundVars
    <3> QED BY <2>3, <3>1, AtIs, <1>MoveTypes, Zenon DEF FlushRemove
  <2> QED BY <2>1, <2>2, <2>3, Zenon
\* What a handler does with its block once it is written.
<1>RecordingTypes.
      ASSUME Types, NEW t \in Task,
             UpdateOffset(t) \/ UpdateRecord(t) \/ CountBlock(t) \/ CheckRecvFinish(t)
      PROVE  Types'
  <2> USE <1>RecordingTypes
  <2> USE DEF PC, BlockPC, FlushPC
  <2>1. CASE UpdateOffset(t)
    <3>1. task[t].piece \in Piece /\ task[t].off \in 0 .. Blocks
      BY <2>1, AtIs, Zenon DEF UpdateOffset, TaskType
    <3>2. underway' \in UbType
      BY <2>1, <3>1, TypesSplit, ZenonT(30) DEF UpdateOffset, DataTypes, UbType
    <3>3. DataTypes'
      BY <2>1, <3>2, TypesSplit, Zenon DEF UpdateOffset, DataTypes, storeVars, boundVars
    <3> QED BY <2>1, <3>3, AtIs, <1>MoveTypes, Zenon DEF UpdateOffset
  <2>2. CASE UpdateRecord(t)
    <3>1. task[t].piece \in Piece /\ task[t].block \in Block
      BY <2>2, AtIs, Zenon DEF UpdateRecord, TaskType
    <3>2. record' \in [Piece -> {None} \cup SUBSET Block]
      BY <2>2, <3>1, TypesSplit, Zenon DEF UpdateRecord, DataTypes
    <3>3. DataTypes'
      BY <2>2, <3>2, TypesSplit, Zenon DEF UpdateRecord, DataTypes, storeVars, boundVars
    <3> QED BY <2>2, <3>3, AtIs, <1>MoveTypes, Zenon DEF UpdateRecord
  <2>3. CASE CountBlock(t)
    <3>1. download + 1 \in Int
      BY TypesSplit, ProgressAssumption DEF DataTypes
    <3>2. DataTypes'
      BY <2>3, <3>1, <1>WrapIn, TypesSplit, Zenon DEF CountBlock, DataTypes, storeVars, boundVars
    <3> QED BY <2>3, <3>2, AtIs, <1>MoveTypes, Zenon DEF CountBlock
  <2>4. CASE CheckRecvFinish(t)
    <3>1. task[t].piece \in Piece
      BY <2>4, AtIs, Zenon DEF CheckRecvFinish
    <3>2. record' \in [Piece -> {None} \cup SUBSET Block]
      BY <2>4, <3>1, TypesSplit, Zenon DEF CheckRecvFinish, DataTypes
    <3>3. DataTypes'
      BY <2>4, <3>2, TypesSplit, Zenon DEF CheckRecvFinish, DataTypes, storeVars, boundVars
    <3> QED BY <2>4, <3>3, AtIs, <1>MoveTypes, <1>EndTypes, Zenon DEF CheckRecvFinish
  <2> QED BY <2>1, <2>2, <2>3, <2>4, Zenon
\* The verdict of the hash, and what follows it.
<1>VerdictTypes.
      ASSUME Types, NEW t \in Task,
             \/ Hash(t) \/ ResetUnderway(t) \/ UncountPiece(t)
             \/ MarkFinish(t) \/ RemoveUnderway(t) \/ CheckFinished(t)
      PROVE  Types'
  <2> USE <1>VerdictTypes
  <2> USE DEF PC, BlockPC, FlushPC
  <2>1. CASE Hash(t)
    <3>1. DataTypes'
      BY <2>1, TypesSplit, Zenon DEF Hash, DataTypes, memVars, storeVars, boundVars
    <3> QED BY <2>1, <3>1, AtIs, <1>MoveTypes, Zenon DEF Hash
  <2>2. CASE ResetUnderway(t)
    <3>0. [st |-> "Pause", off |-> 0] \in [st : {"Ing", "Pause"}, off : 0 .. Blocks]
      BY ProgressAssumption
    <3>1. underway' \in UbType
      BY <2>2, <3>0, TypesSplit, Zenon DEF ResetUnderway, DataTypes, UbType
    <3>2. DataTypes'
      BY <2>2, <3>1, TypesSplit, Zenon DEF ResetUnderway, DataTypes, storeVars, boundVars
    <3> QED BY <2>2, <3>2, AtIs, <1>MoveTypes, Zenon DEF ResetUnderway
  <2>3. CASE UncountPiece(t)
    <3>1. download - Blocks \in Int
      BY TypesSplit, ProgressAssumption DEF DataTypes
    <3>2. DataTypes'
      BY <2>3, <3>1, <1>WrapIn, TypesSplit, Zenon DEF UncountPiece, DataTypes, storeVars, boundVars
    <3> QED BY <2>3, <3>2, <1>EndTypes, Zenon DEF UncountPiece
  <2>4. CASE MarkFinish(t)
    <3>1. DataTypes'
      BY <2>4, AtIs, TypesSplit DEF MarkFinish, DataTypes, storeVars, boundVars
    <3> QED BY <2>4, <3>1, AtIs, <1>MoveTypes, Zenon DEF MarkFinish
  <2>5. CASE RemoveUnderway(t)
    <3>1. underway' \in UbType
      BY <2>5, TypesSplit, Zenon DEF RemoveUnderway, DataTypes, UbType
    <3>2. DataTypes'
      BY <2>5, <3>1, TypesSplit, Zenon DEF RemoveUnderway, DataTypes, storeVars, boundVars
    <3> QED BY <2>5, <3>2, AtIs, <1>MoveTypes, Zenon DEF RemoveUnderway
  <2>6. CASE CheckFinished(t)
    <3>1. DataTypes'
      BY <2>6, TypesSplit, Zenon DEF CheckFinished, DataTypes, storeVars, boundVars
    <3> QED BY <2>6, <3>1, AtIs, <1>MoveTypes, Zenon DEF CheckFinished, SavePC
  <2> QED BY <2>1, <2>2, <2>3, <2>4, <2>5, <2>6, ZenonT(30)
<1>SaveTypes.
      ASSUME Types, NEW t \in Task,
             \/ SnapUnderway(t) \/ SnapBytefield(t) \/ SnapStatus(t)
             \/ Execute(t) \/ AfterSave(t) \/ DropHandler(t) \/ NothingLeft(t)
      PROVE  Types'
  <2> USE <1>SaveTypes
  <2>0. task[t] \in TaskType /\ TaskOK(task[t]) /\ DataTypes /\ task[t].row \in RowType
    BY TypesSplit, Zenon DEF TaskType
  <2>1. CASE SnapUnderway(t) \/ SnapBytefield(t) \/ SnapStatus(t)
    <3>1. PICK pc \in SavePC, row \in RowType :
            /\ Step(t, WithRow(task[t], pc, row))
            /\ UNCHANGED <<tasks, memVars, storeVars, db, boundVars>>
      BY <2>1, SnapStep, Zenon
    <3>2. DataTypes'
      BY <2>0, <3>1, Zenon DEF DataTypes, memVars, storeVars, boundVars
    <3> QED BY <2>0, <3>1, <3>2, WithRowIs, KeepTypes, ZenonT(30)
  <2>2. CASE Execute(t) \/ AfterSave(t) \/ DropHandler(t) \/ NothingLeft(t)
    <3>1. /\ UNCHANGED <<memVars, storeVars, boundVars>>
          /\ db' = db \/ db' = task[t].row
      BY <2>2, Zenon DEF Execute, AfterSave, DropHandler, NothingLeft
    <3>2. tasks' \in {tasks, "removed"}
      BY <2>2, FinishTaskIs, Zenon DEF Execute, AfterSave, DropHandler, NothingLeft
    <3>3. DataTypes'
      BY <2>0, <3>1, <3>2, Zenon DEF DataTypes, memVars, storeVars, boundVars
    <3>4. TaskOK(Idle) /\ TaskOK(Sent(task[t], "conn", "end"))
      BY <2>0, IdleIs, SentIs, Zenon
    <3>5. TaskOK(Moved(task[t], "after"))
      BY <2>0, <1>MovedOK, Zenon DEF PC, SavePC, BlockPC, FlushPC
    <3>6. task[t].then = "exit" => TaskOK(Moved(task[t], "flushall"))
      BY <2>0, <1>MovedOK, Zenon DEF PC, BlockPC, FlushPC
    <3> QED BY <2>2, <3>3, <3>4, <3>5, <3>6, SavedStep, KeepTypes, ZenonT(30)
  <2> QED BY <2>1, <2>2, Zenon
<1>LifeTypes.
      ASSUME Types, AddTorrent \/ StartTask \/ InsertTask
      PROVE  Types'
  <2> USE <1>LifeTypes
  <2>1. DataTypes'
    <3>1. CASE AddTorrent
      BY <3>1, TypesSplit, EmptyRowIs, Zenon DEF AddTorrent, DataTypes, memVars, storeVars, boundVars
    <3>2. CASE StartTask
      <4>1. db \in RowType
        BY <3>2, TypesSplit, Zenon DEF StartTask, DataTypes
      <4>2. db.bits \subseteq Piece /\ db.ub \in UbType /\ db.download \in 0 .. CounterSize - 1
        BY <4>1, Zenon DEF RowType
      <4> QED BY <3>2, <4>2, TypesSplit, EmptyRowIs, Zenon
              DEF StartTask, DataTypes, storeVars, boundVars
    <3>3. CASE InsertTask
      BY <3>3, TypesSplit, Zenon DEF InsertTask, DataTypes, memVars, storeVars, boundVars
    <3> QED BY <3>1, <3>2, <3>3, Zenon
  <2>2. task' = task
    BY Zenon DEF AddTorrent, StartTask, InsertTask
  <2> QED BY <2>1, <2>2, TypesSplit, Zenon DEF Types, DataTypes
<1>EndsTypes.
      ASSUME Types, Ends, cache' \in Content, durable' \in Content
      PROVE  Types'
  <2> USE <1>EndsTypes
  <2>1. DataTypes'
    BY TypesSplit, EmptyRowIs, ProgressAssumption DEF Ends, DataTypes
  <2>2. task' \in [Task -> TaskType] /\ \A t \in Task : TaskOK(task'[t])
    BY IdleIs, Zenon DEF Ends, TaskOK
  <2> QED BY <2>1, <2>2, Zenon DEF Types, DataTypes
\* What a power loss leaves: what was synced, and what happened to be written out.
<1>PowerIs.
      ASSUME Types, LosePower
      PROVE  /\ cache' \in Content /\ durable' = cache'
             /\ \A p \in Piece, b \in Block :
                   cache'[p][b] = durable[p][b] \/ cache'[p][b] = cache[p][b]
  <2> USE <1>PowerIs
  <2>1. PICK kept :
          cache' = [p \in Piece |-> [b \in Block |->
                       IF <<p, b>> \in kept THEN cache[p][b] ELSE durable[p][b]]]
    BY ZenonT(30) DEF LosePower
  <2>2. durable' = cache' /\ cache \in Content /\ durable \in Content
    BY Zenon DEF LosePower, Types
  <2> QED BY <2>1, <2>2, Zenon DEF Content
<1>StopTypes.
      ASSUME Types, Kill \/ LosePower \/ \E t \in Task : Exit(t)
      PROVE  Types'
  <2> USE <1>StopTypes
  <2>1. Ends
    BY Zenon DEF Kill, LosePower, Exit
  <2>2. cache' \in Content /\ durable' \in Content
    <3>1. CASE LosePower
      BY <3>1, <1>PowerIs, Zenon
    <3>2. CASE Kill \/ \E t \in Task : Exit(t)
      BY <3>2, Zenon DEF Kill, Exit, Types
    <3> QED BY <3>1, <3>2, Zenon
  <2> QED BY <2>1, <2>2, <1>EndsTypes, Zenon
<1>ApplyTypes.
      ASSUME Types, NEW p \in Piece, Apply(p)
      PROVE  Types'
  <2> USE <1>ApplyTypes
  <2> DEFINE off == IF underway[p] = None THEN 0 ELSE underway[p].off
  <2>1. off \in 0 .. Blocks
    BY TypesSplit, ProgressAssumption DEF DataTypes, UbType
  <2>2. /\ underway' = [underway EXCEPT ![p] = [st |-> "Ing", off |-> off]]
        /\ record' = [record EXCEPT ![p] = 0 .. off - 1]
        /\ UNCHANGED <<tasks, bytefield, status, download, storeVars, db, task, boundVars>>
    BY Zenon DEF Apply
  <2> HIDE DEF off
  <2>3. 0 .. off - 1 \in SUBSET Block
    BY <2>1, ProgressAssumption DEF Block
  <2>4. [st |-> "Ing", off |-> off] \in [st : {"Ing", "Pause"}, off : 0 .. Blocks]
    BY <2>1, Zenon
  <2>5. underway' \in UbType
    BY <2>2, <2>4, TypesSplit, Zenon DEF DataTypes, UbType
  <2>6. record' \in [Piece -> {None} \cup SUBSET Block]
    BY <2>2, <2>3, TypesSplit, Zenon DEF DataTypes
  <2>7. DataTypes'
    BY <2>2, <2>5, <2>6, TypesSplit, Zenon DEF DataTypes, storeVars, boundVars
  <2> QED BY <2>2, <2>7, TypesSplit, Zenon DEF Types, DataTypes
<1>StartTypes.
      ASSUME Types, NEW t \in Task,
             \/ Shutdown(t)
             \/ \E p \in Piece, b \in Block, good \in BOOLEAN : Receive(t, p, b, good)
      PROVE  Types'
  <2> USE <1>StartTypes
  <2>1. CASE Shutdown(t)
    <3>1. DataTypes'
      BY <2>1, TypesSplit, Zenon DEF Shutdown, DataTypes, memVars, storeVars, boundVars
    <3>2. PICK pc \in {"conn", "flushall"} : Step(t, Sent(task[t], pc, "exit"))
      BY <2>1, Zenon DEF Shutdown, Types, Step, Sent
    <3> QED BY <3>1, <3>2, SentIs, TypesSplit, KeepTypes, ZenonT(30)
  <2>2. ASSUME NEW p \in Piece, NEW b \in Block, NEW good \in BOOLEAN, Receive(t, p, b, good)
        PROVE  Types'
    <3>1. bads \in Nat /\ agains \in Nat /\ DataTypes
      BY TypesSplit, Zenon DEF DataTypes
    <3>2. bads' \in Nat /\ agains' \in Nat
      <4>1. bads' = bads \/ bads' = bads + 1
        BY <2>2, Zenon DEF Receive
      <4>2. agains' = agains \/ agains' = agains + 1
        BY <2>2, Zenon DEF Receive
      <4> QED BY <3>1, <4>1, <4>2
    <3>3. UNCHANGED <<tasks, memVars, storeVars, db>>
      BY <2>2, Zenon DEF Receive
    <3>4. DataTypes'
      BY <3>1, <3>2, <3>3, Zenon DEF DataTypes, memVars, storeVars
    <3>5. PICK k : Step(t, k) /\ IsReceived(k, p, b, good, BlockOffset(p))
      BY <2>2, ReceiveIs, Zenon
    <3>6. TaskOK(k)
      BY <3>5, Zenon DEF IsReceived
    <3> QED BY <3>4, <3>5, <3>6, KeepTypes, Zenon
  <2> QED BY <2>1, <2>2, Zenon
<1> SUFFICES ASSUME Types, [Next]_vars
             PROVE  Types'
  BY Zenon
<1>1. CASE UNCHANGED vars
  BY <1>1, Zenon DEF vars, memVars, storeVars, boundVars, Types
<1>2. CASE Next
  <2>1. ASSUME NEW t \in Task, TaskStep(t) \/ Shutdown(t) \/ NothingLeft(t) \/ DropHandler(t)
                   \/ \E p \in Piece, b \in Block, good \in BOOLEAN : Receive(t, p, b, good)
        PROVE  Types'
    BY ZenonT(30), <2>1, <1>WritingTypes, <1>FlushTypes, <1>RemoveTypes, <1>RecordingTypes, <1>VerdictTypes,
       <1>SaveTypes, <1>StartTypes, <1>StopTypes DEF TaskStep
  <2> QED BY <1>2, <2>1, <1>LifeTypes, <1>StopTypes, <1>ApplyTypes, Zenon DEF Next
<1> QED BY <1>1, <1>2, Zenon

LEMMA InitTypes == Init => Types
<1> SUFFICES ASSUME Init PROVE Types
  BY Zenon
<1>1. cache \in Content /\ durable \in Content
  BY Zenon DEF Init, Content
<1>2. task \in [Task -> TaskType] /\ \A t \in Task : TaskOK(task[t])
  BY IdleIs, Zenon DEF Init, TaskOK
<1> QED BY <1>1, <1>2, EmptyRowIs, ProgressAssumption DEF Init, Types

\* Every variable keeps its type, whatever crashes, damaged and repeated blocks
\* come: the counters stay within their width, also where they wrap, and the row
\* is always one that StartTask can load.
THEOREM ProgressTypes == Spec => []TypeOK
<1>1. Types => TypeOK
  BY TypesSplit, Zenon DEF Types, TypeOK, TaskType, Writer
<1>2. Types /\ [Next]_vars => Types'
  BY TypesKept, Zenon
<1> QED BY <1>1, <1>2, InitTypes, PTL DEF Spec

-----------------------------------------------------------------------------
(* No snapshot knows more than the bit map *)

\* A handler of a block at work, until it goes to save.
BlockAction(t) ==
    \/ Reserve(t) \/ Write(t) \/ CheckLimit(t)
    \/ FlushAll(t) \/ FlushAllRemove(t) \/ FlushAllZero(t)
    \/ UpdateOffset(t) \/ UpdateRecord(t) \/ CountBlock(t) \/ CheckRecvFinish(t)
    \/ Flush(t) \/ FlushRemove(t) \/ Hash(t) \/ ResetUnderway(t) \/ UncountPiece(t)
    \/ MarkFinish(t) \/ RemoveUnderway(t) \/ CheckFinished(t)

Same(k, m) ==
    /\ k.piece = m.piece /\ k.block = m.block /\ k.good = m.good /\ k.off = m.off
    /\ k.row = m.row /\ k.then = m.then

LEMMA MovedSame ==
    ASSUME Types, NEW t \in Task, NEW pc \in PC, Goto(t, pc)
    PROVE  \E k : Step(t, k) /\ Same(k, task[t]) /\ k.pc = pc /\ k.drop = task[t].drop
<1>1. task[t] \in TaskType
  BY TypesSplit, Zenon
<1> QED BY <1>1, GotoStep, MovedIs DEF Same

LEMMA FlushedSame ==
    ASSUME Types, NEW t \in Task, NEW pc \in PC, FlushWriter(t, pc)
    PROVE  \E d \in BOOLEAN : LET k == Flushed(task[t], pc, d)
              IN  /\ Step(t, k) /\ Same(k, task[t]) /\ k.pc = pc /\ k.drop = d
                  /\ writer = None => d = FALSE
                  /\ writer # None => d = (writer.len + writer.buf >= FileLen)
<1> DEFINE full == writer.len + writer.buf >= FileLen
<1>1. task[t] \in TaskType /\ full \in BOOLEAN /\ FALSE \in BOOLEAN
  BY TypesSplit
<1>2. \/ writer = None /\ Step(t, Flushed(task[t], pc, FALSE))
      \/ writer # None /\ Step(t, Flushed(task[t], pc, full))
  BY FlushWriterIs, Zenon
<1>3. ASSUME NEW d \in BOOLEAN
      PROVE  LET k == Flushed(task[t], pc, d) IN Same(k, task[t]) /\ k.pc = pc /\ k.drop = d
  BY <1>1, FlushedIs DEF Same
<1>4. CASE writer = None
  BY <1>1, <1>2, <1>3, <1>4, Zenon
<1>5. CASE writer # None
  <2>1. full = (writer.len + writer.buf >= FileLen)
    BY Zenon
  <2> HIDE DEF full
  <2> QED BY <1>1, <1>2, <1>3, <1>5, <2>1, Zenon
<1> QED BY <1>4, <1>5, Zenon

LEMMA BlockStep ==
    ASSUME Types, NEW t \in Task, BlockAction(t)
    PROVE  /\ task[t].pc # "idle"
           /\ \E k : Step(t, k) /\ (k = Idle \/ Same(k, task[t]))
<1> USE DEF PC, BlockPC, FlushPC, SavePC
<1> DEFINE Moves == \E k : Step(t, k) /\ (k = Idle \/ Same(k, task[t]))
<1>1. ASSUME NEW pc \in PC, Goto(t, pc) PROVE Moves
  BY <1>1, MovedSame, Zenon
<1>2. ASSUME End(t) PROVE Moves
  BY <1>2, EndStep, Zenon
<1>3. ASSUME NEW pc \in PC, FlushWriter(t, pc) PROVE Moves
  BY <1>3, FlushedSame, Zenon
<1>4. task[t].pc # "idle"
  BY Zenon DEF BlockAction, At, Reserve, Write, CheckLimit, FlushAll, FlushAllRemove, FlushAllZero,
         UpdateOffset, UpdateRecord, CountBlock, CheckRecvFinish, Flush, FlushRemove, Hash,
         ResetUnderway, UncountPiece, MarkFinish, RemoveUnderway, CheckFinished
<1>5. \/ \E pc \in PC : Goto(t, pc)
      \/ End(t)
      \/ \E pc \in PC : FlushWriter(t, pc)
  BY Zenon DEF BlockAction, Reserve, Write, CheckLimit, FlushAll, FlushAllRemove, FlushAllZero,
         UpdateOffset, UpdateRecord, CountBlock, CheckRecvFinish, Flush, FlushRemove, Hash,
         ResetUnderway, UncountPiece, MarkFinish, RemoveUnderway, CheckFinished
<1> QED BY <1>1, <1>2, <1>3, <1>4, <1>5, Zenon

LEMMA EmptyWithin == \A bits : RowWithin(EmptyRow, bits) /\ RowWithin(Idle.row, bits)
BY EmptyRowIs, IdleIs, Zenon DEF RowWithin

LEMMA WithinKept ==
    Types /\ Within /\ [Next]_vars => Within'
<1>WithinStep.
      ASSUME Types, Types', Within, Up, Up', NEW t \in Task, NEW k, Step(t, k),
             bytefield \subseteq bytefield',
             k.row = task[t].row \/ RowWithin(k.row, bytefield'),
             status' = status \/ (status' = "Finished" => bytefield' = Piece),
             db' = db \/ RowWithin(db', bytefield')
      PROVE  Within'
  <2> USE <1>WithinStep
  <2>1. bytefield' \subseteq Piece
    BY Zenon DEF Types
  <2>2. \A row : RowWithin(row, bytefield) => RowWithin(row, bytefield')
    BY <2>1, Zenon DEF RowWithin
  <2>3. \A u \in Task : RowWithin(task'[u].row, bytefield')
    BY <2>2, Stepped, Zenon DEF Within
  <2>4. (status = "Finished" => bytefield = Piece) /\ (db # None => RowWithin(db, bytefield))
    BY Zenon DEF Within
  <2> QED BY <2>1, <2>2, <2>3, <2>4, Zenon DEF Within
<1>WithinBlock.
      ASSUME Types, Types', Within, NEW t \in Task, BlockAction(t)
      PROVE  Within'
  <2> USE <1>WithinBlock
  <2>1. PICK k : Step(t, k) /\ (k = Idle \/ Same(k, task[t]))
    BY BlockStep, Zenon
  <2>2. k.row = task[t].row \/ RowWithin(k.row, bytefield')
    BY <2>1, EmptyWithin, Zenon DEF Same
  <2>3. Up
    BY BlockStep, AtIs, Zenon DEF At
  <2>4. UNCHANGED <<tasks, db>>
    BY Zenon DEF BlockAction, Reserve, Write, CheckLimit, FlushAll, FlushAllRemove, FlushAllZero,
           UpdateOffset, UpdateRecord, CountBlock, CheckRecvFinish, Flush, FlushRemove, Hash,
           ResetUnderway, UncountPiece, MarkFinish, RemoveUnderway, CheckFinished
  <2>5. bytefield \subseteq bytefield'
    BY Zenon DEF BlockAction, Reserve, Write, CheckLimit, FlushAll, FlushAllRemove, FlushAllZero,
           UpdateOffset, UpdateRecord, CountBlock, CheckRecvFinish, Flush, FlushRemove, Hash,
           ResetUnderway, UncountPiece, MarkFinish, RemoveUnderway, CheckFinished, memVars
  <2>6. status' = status \/ (status' = "Finished" => bytefield' = Piece)
    BY Zenon DEF BlockAction, Reserve, Write, CheckLimit, FlushAll, FlushAllRemove, FlushAllZero,
           UpdateOffset, UpdateRecord, CountBlock, CheckRecvFinish, Flush, FlushRemove, Hash,
           ResetUnderway, UncountPiece, MarkFinish, RemoveUnderway, CheckFinished, memVars,
           AllPieces
  <2> QED BY <2>1, <2>2, <2>3, <2>4, <2>5, <2>6, <1>WithinStep, ZenonT(30) DEF Up
\* Saving: an old snapshot may be written over a newer one, but says no more.
<1>WithinSave.
      ASSUME Types, Types', Within, NEW t \in Task,
             \/ SnapUnderway(t) \/ SnapBytefield(t) \/ SnapStatus(t)
             \/ Execute(t) \/ AfterSave(t) \/ DropHandler(t) \/ NothingLeft(t)
      PROVE  Within'
  <2> USE <1>WithinSave
  <2>0. task[t] \in TaskType /\ RowWithin(task[t].row, bytefield)
    BY TypesSplit, Zenon DEF Within
  <2>1. CASE SnapUnderway(t) \/ SnapBytefield(t) \/ SnapStatus(t)
    <3>1. PICK pc \in SavePC, row \in RowType :
            /\ task[t].pc \in SavePC
            /\ Step(t, WithRow(task[t], pc, row))
            /\ row.bits = task[t].row.bits \/ row.bits = bytefield
            /\ row.status = task[t].row.status \/ row.status = status
            /\ UNCHANGED <<tasks, memVars, storeVars, db, boundVars>>
      BY <2>1, SnapStep, Zenon
    <3>2. WithRow(task[t], pc, row).row = row
      BY <2>0, WithRowIs, ZenonT(30)
    <3>3. RowWithin(row, bytefield)
      BY <2>0, <3>1, Zenon DEF RowWithin, Within
    <3>4. Up
      BY <3>1, AtIs, Zenon DEF At, SavePC
    <3> QED BY <3>1, <3>2, <3>3, <3>4, <1>WithinStep, ZenonT(30) DEF memVars, Up
  <2>2. CASE Execute(t) \/ AfterSave(t) \/ DropHandler(t) \/ NothingLeft(t)
    <3>1. /\ UNCHANGED memVars
          /\ db' = db \/ db' = task[t].row
      BY <2>2, Zenon DEF Execute, AfterSave, DropHandler, NothingLeft
    <3>2. tasks' \in {tasks, "removed"}
      BY <2>2, FinishTaskIs, Zenon DEF Execute, AfterSave, DropHandler, NothingLeft
    <3>3. Up
      BY <2>2, AtIs, ZenonT(30) DEF Execute, AfterSave, DropHandler, NothingLeft, Up
    <3>4. PICK k : Step(t, k) /\ k \in {Idle, Sent(task[t], "conn", "end"),
                                       Moved(task[t], "after"), Moved(task[t], "flushall")}
      BY <2>2, SavedStep, Zenon
    <3>5. /\ Sent(task[t], "conn", "end").row = task[t].row
          /\ Moved(task[t], "after").row = task[t].row
          /\ Moved(task[t], "flushall").row = task[t].row
      BY <2>0, SentIs, MovedIs DEF PC, SavePC, FlushPC
    <3>6. RowWithin(k.row, bytefield)
      BY <2>0, <3>4, <3>5, EmptyWithin, Zenon
    <3> QED BY <2>0, <3>1, <3>2, <3>3, <3>4, <3>6, <1>WithinStep, ZenonT(30) DEF memVars, Up
  <2> QED BY <2>1, <2>2, ZenonT(30)
<1>WithinStart.
      ASSUME Types, Types', Within, NEW t \in Task,
             \/ Shutdown(t)
             \/ \E p \in Piece, b \in Block, good \in BOOLEAN : Receive(t, p, b, good)
      PROVE  Within'
  <2> USE <1>WithinStart
  <2>0. task[t] \in TaskType /\ RowWithin(task[t].row, bytefield)
    BY TypesSplit, Zenon DEF Within
  <2>1. PICK k : Step(t, k) /\ RowWithin(k.row, bytefield)
    <3>1. CASE Shutdown(t)
      <4>1. PICK pc \in {"conn", "flushall"} : Step(t, Sent(task[t], pc, "exit"))
        BY <3>1, Zenon DEF Shutdown, Types, Step, Sent
      <4> QED BY <2>0, <4>1, SentIs
    <3>2. ASSUME NEW p \in Piece, NEW b \in Block, NEW good \in BOOLEAN, Receive(t, p, b, good)
          PROVE  \E k : Step(t, k) /\ RowWithin(k.row, bytefield)
      <4>1. PICK k : Step(t, k) /\ IsReceived(k, p, b, good, BlockOffset(p))
        BY <3>2, ReceiveIs, Zenon
      <4>2. k.row = EmptyRow
        BY <4>1, Zenon DEF IsReceived
      <4> QED BY <4>1, <4>2, EmptyWithin, Zenon
    <3> QED BY <3>1, <3>2, Zenon
  <2>2. Up /\ UNCHANGED <<tasks, bytefield, status, db>>
    <3>1. CASE Shutdown(t)
      BY <3>1, Zenon DEF Shutdown, memVars
    <3>2. ASSUME NEW p \in Piece, NEW b \in Block, NEW good \in BOOLEAN, Receive(t, p, b, good)
          PROVE  Up /\ UNCHANGED <<tasks, bytefield, status, db>>
      BY <3>2, Zenon DEF Receive, memVars, Up
    <3> QED BY <3>1, <3>2, Zenon
  <2> QED BY <2>1, <2>2, <1>WithinStep, ZenonT(30) DEF Up
<1>WithinLife.
      ASSUME Types, Types', Within, AddTorrent \/ StartTask \/ InsertTask \/ Ends
             \/ \E p \in Piece : Apply(p)
      PROVE  Within'
  <2> USE <1>WithinLife
  <2>1. CASE AddTorrent
    BY <2>1, EmptyWithin, Zenon DEF AddTorrent, memVars, storeVars, Within, Up
  <2>2. CASE StartTask
    <3>1. ~Up /\ task = [u \in Task |-> Idle] /\ task' = task /\ db' = db
      BY <2>2, Zenon DEF StartTask, Within, Up
    <3>2. Up' /\ bytefield' = db.bits /\ status' = "Download" /\ db.status = "Download"
      BY <2>2, Zenon DEF StartTask, Up
    <3>3. \A u \in Task : RowWithin(task'[u].row, bytefield')
      BY <3>1, EmptyWithin, Zenon
    <3>4. RowWithin(db', bytefield')
      BY <3>1, <3>2, Zenon DEF RowWithin
    <3> QED BY <3>2, <3>3, <3>4, ZenonT(30) DEF Within
  <2>3. CASE InsertTask
    BY <2>3, Zenon DEF InsertTask, memVars, storeVars, Within, Up
  <2>4. CASE Ends
    <3>1. \A u \in Task : RowWithin(task'[u].row, bytefield')
      BY <2>4, EmptyWithin, Zenon DEF Ends
    <3> QED BY <2>4, <3>1, Zenon DEF Ends, Within, Up
  <2>5. CASE \E p \in Piece : Apply(p)
    <3>1. Up /\ UNCHANGED <<tasks, bytefield, status, db, task>>
      BY <2>5, Zenon DEF Apply, Up
    <3> QED BY <3>1, Zenon DEF Within, Up
  <2> QED BY <2>1, <2>2, <2>3, <2>4, <2>5, ZenonT(30)
<1> SUFFICES ASSUME Types, Within, [Next]_vars
             PROVE  Within'
  BY Zenon
<1>0. Types'
  BY TypesKept, Zenon
<1>1. CASE UNCHANGED vars
  BY <1>1, Zenon DEF vars, memVars, storeVars, Within, Up
<1>2. CASE Next
  <2>1. ASSUME NEW t \in Task, TaskStep(t) \/ Shutdown(t) \/ NothingLeft(t) \/ DropHandler(t)
                   \/ \E p \in Piece, b \in Block, good \in BOOLEAN : Receive(t, p, b, good)
        PROVE  Within'
    <3>1. CASE BlockAction(t)
      BY <1>0, <3>1, <1>WithinBlock, Zenon
    <3>2. CASE Exit(t)
      BY <1>0, <3>2, <1>WithinLife, Zenon DEF Exit
    <3> QED BY <1>0, <2>1, <3>1, <3>2, <1>WithinSave, <1>WithinStart, ZenonT(30) DEF TaskStep, BlockAction
  <2> QED BY <1>0, <1>2, <2>1, <1>WithinLife, Zenon DEF Next, Kill, LosePower
<1> QED BY <1>1, <1>2, Zenon

-----------------------------------------------------------------------------
(* A piece is written to and verified by its own handlers *)

\* The moves of a handler that neither start nor record a block, nor complete a piece.
Quiet(t) ==
    \/ Reserve(t) \/ Write(t) \/ CheckLimit(t)
    \/ FlushAll(t) \/ FlushAllRemove(t) \/ FlushAllZero(t)
    \/ UpdateOffset(t) \/ CountBlock(t)
    \/ Flush(t) \/ FlushRemove(t) \/ Hash(t) \/ UncountPiece(t) \/ CheckFinished(t)

QuietTo(k, m) ==
    \/ k = Idle
    \/ /\ Same(k, m)
       /\ k.pc \in FetchPC => m.pc \in FetchPC
       /\ k.pc \in OwnPC => m.pc \in OwnPC
       /\ k.pc \in WrotePC => m.pc \in WrotePC \cup {"write"}
       /\ k.pc = "mark" => IntactOn(cache, m.piece)
       /\ k.pc = "reset" => ~IntactOn(cache, m.piece)
       /\ k.pc # "uncount"

LEMMA QuietStep ==
    ASSUME Types, NEW t \in Task, Quiet(t)
    PROVE  \E k : Step(t, k) /\ QuietTo(k, task[t])
<1> USE DEF PC, BlockPC, FlushPC, SavePC, FetchPC, OwnPC, WrotePC
<1>1. ASSUME NEW pc \in PC, Goto(t, pc),
             pc \in FetchPC => task[t].pc \in FetchPC,
             pc \in OwnPC => task[t].pc \in OwnPC,
             pc \in WrotePC => task[t].pc \in WrotePC \cup {"write"},
             pc = "mark" => IntactOn(cache, task[t].piece),
             pc = "reset" => ~IntactOn(cache, task[t].piece), pc # "uncount"
      PROVE  \E k : Step(t, k) /\ QuietTo(k, task[t])
  BY <1>1, MovedSame DEF QuietTo
<1>2. ASSUME NEW pc \in PC, FlushWriter(t, pc),
             pc \in FetchPC => task[t].pc \in FetchPC,
             pc \in OwnPC => task[t].pc \in OwnPC, pc \notin {"mark", "reset", "uncount"},
             pc \in WrotePC => task[t].pc \in WrotePC
      PROVE  \E k : Step(t, k) /\ QuietTo(k, task[t])
  <2>1. PICK d \in BOOLEAN : /\ Step(t, Flushed(task[t], pc, d))
                             /\ Same(Flushed(task[t], pc, d), task[t])
                             /\ Flushed(task[t], pc, d).pc = pc
    BY <1>2, FlushedSame, ZenonT(30)
  <2> QED BY <1>2, <2>1, ZenonT(30) DEF QuietTo
<1>3. CASE Reserve(t) \/ Write(t) \/ CheckLimit(t)
  BY <1>1, <1>3, Zenon DEF Reserve, Write, CheckLimit, At
<1>4. CASE FlushAll(t)
  BY <1>2, <1>4, Zenon DEF FlushAll, At
<1>5. CASE FlushAllRemove(t) \/ FlushAllZero(t)
  BY <1>1, <1>5, Zenon DEF FlushAllRemove, FlushAllZero, At
<1>6. CASE UpdateOffset(t) \/ CountBlock(t)
  BY <1>1, <1>6, Zenon DEF UpdateOffset, CountBlock, At
<1>7. CASE Flush(t)
  BY <1>2, <1>7, Zenon DEF Flush, At
<1>8. CASE FlushRemove(t) \/ Hash(t) \/ CheckFinished(t)
  BY <1>1, <1>8, Zenon DEF FlushRemove, Hash, CheckFinished, At, IntactOn
<1>9. CASE UncountPiece(t)
  BY <1>9, EndStep, Zenon DEF UncountPiece, QuietTo
<1> QED BY <1>3, <1>4, <1>5, <1>6, <1>7, <1>8, <1>9, ZenonT(30) DEF Quiet

\* The moves of saving and of the shutdown.
Aside(t) ==
    \/ SnapUnderway(t) \/ SnapBytefield(t) \/ SnapStatus(t)
    \/ Execute(t) \/ AfterSave(t) \/ DropHandler(t) \/ NothingLeft(t) \/ Shutdown(t)

\* A handler that has nothing to do with a block.
NoBlock(k) ==
    /\ k.pc \in SavePC \cup {"idle", "flushall"}
    /\ k.pc = "flushall" => k.then = "exit"

AsideTo(k, m) ==
    /\ NoBlock(k)
    /\ k.drop = m.drop \/ k.drop = FALSE
    /\ k.row.ub \in {m.row.ub, PausedUb, EmptyUb}

LEMMA AsideStep ==
    ASSUME Types, NEW t \in Task, Aside(t)
    PROVE  /\ task[t].pc \in SavePC \cup {"idle"}
           /\ UNCHANGED <<memVars, storeVars>>
           /\ db' = db \/ db' = task[t].row
           /\ \E k : Step(t, k) /\ AsideTo(k, task[t])
<1>0. task[t] \in TaskType
  BY TypesSplit, Zenon
<1>4. task[t].pc \in SavePC \cup {"idle"}
  BY Zenon DEF Aside, SnapUnderway, SnapBytefield, SnapStatus, Execute, AfterSave, DropHandler,
         NothingLeft, Shutdown, At, SavePC
<1>1. CASE SnapUnderway(t) \/ SnapBytefield(t) \/ SnapStatus(t)
  <2>1. PICK pc \in SavePC, row \in RowType :
          /\ Step(t, WithRow(task[t], pc, row))
          /\ row.ub = task[t].row.ub \/ row.ub = PausedUb
          /\ UNCHANGED <<tasks, memVars, storeVars, db, boundVars>>
    BY <1>1, SnapStep, Zenon
  <2>2. LET k == WithRow(task[t], pc, row)
        IN  k.pc = pc /\ k.row = row /\ k.drop = task[t].drop
    BY <1>0, WithRowIs
  <2>3. AsideTo(WithRow(task[t], pc, row), task[t])
    BY <2>1, <2>2, Zenon DEF AsideTo, NoBlock, SavePC
  <2> QED BY <1>4, <2>1, <2>3, Zenon
<1>2. CASE Execute(t) \/ AfterSave(t) \/ DropHandler(t) \/ NothingLeft(t)
  <2>1. /\ UNCHANGED <<memVars, storeVars>>
        /\ db' = db \/ db' = task[t].row
    BY <1>2, Zenon DEF Execute, AfterSave, DropHandler, NothingLeft
  <2>2. AsideTo(Idle, task[t])
    BY IdleIs, EmptyRowIs, Zenon DEF AsideTo, NoBlock
  <2>3. AsideTo(Sent(task[t], "conn", "end"), task[t])
    BY <1>0, SentIs, ZenonT(30) DEF AsideTo, NoBlock, SavePC
  <2>4. AsideTo(Moved(task[t], "after"), task[t])
    BY <1>0, MovedIs DEF AsideTo, NoBlock, PC, SavePC
  <2>5. task[t].then = "exit" => AsideTo(Moved(task[t], "flushall"), task[t])
    BY <1>0, MovedIs, ZenonT(30) DEF AsideTo, NoBlock, PC, FlushPC
  <2> QED BY <1>2, <1>4, <2>1, <2>2, <2>3, <2>4, <2>5, SavedStep, Zenon
<1>3. CASE Shutdown(t)
  <2>1. PICK pc \in {"conn", "flushall"} : Step(t, Sent(task[t], pc, "exit"))
    BY <1>3, Zenon DEF Shutdown, Types, Step, Sent
  <2>2. AsideTo(Sent(task[t], pc, "exit"), task[t])
    BY <1>0, <2>1, SentIs, ZenonT(30) DEF AsideTo, NoBlock, SavePC
  <2> QED BY <1>3, <1>4, <2>1, <2>2, Zenon DEF Shutdown
<1> QED BY <1>1, <1>2, <1>3, Zenon DEF Aside

LEMMA NoBlockIs ==
    ASSUME NEW k, NoBlock(k)
    PROVE  /\ ~Fetches(k) /\ ~Wrote(k) /\ ~Owns(k)
           /\ k.pc \notin BlockPC
BY Zenon DEF NoBlock, SavePC, Fetches, Wrote, Owns, FetchPC, WrotePC, FlushPC, OwnPC, BlockPC

LEMMA OwnedKept ==
    Types /\ Within /\ AgainLimit = 0 /\ Owned /\ [Next]_vars => Owned'
<1>OwnedMove.
      ASSUME Types, Owned, NEW t \in Task, NEW k, Step(t, k), UNCHANGED <<record, bytefield>>,
             \A p \in Piece : Ing(p) => Ing(p)',
             Fetches(k) => /\ Fetches(task[t])
                           /\ k.piece = task[t].piece /\ k.block = task[t].block,
             Owns(k) => Owns(task[t]) /\ k.piece = task[t].piece
      PROVE  Owned'
  <2> USE <1>OwnedMove
  <2>1. \A u \in Task : Fetches(task[u]) \/ Owns(task[u]) => task[u].piece \in Piece
    BY TypesSplit, ZenonT(30) DEF TaskOK, Fetches, Owns, FetchPC, OwnPC, BlockPC, FlushPC
  <2>2. \A u \in Task : Fetches(task'[u]) =>
          /\ Fetches(task[u]) /\ task'[u].piece = task[u].piece
          /\ task'[u].block = task[u].block
    BY Stepped, ZenonT(30)
  <2>3. \A u \in Task : Owns(task'[u]) => Owns(task[u]) /\ task'[u].piece = task[u].piece
    BY Stepped, ZenonT(30)
  <2>4. Owned!1'
    BY <2>2, Zenon DEF Owned
  <2>5. Owned!2'
    BY <2>2, ZenonT(30) DEF Owned
  <2>6. Owned!3'
    BY Zenon DEF Owned
  <2>7. Owned!4'
    BY <2>1, <2>3, Zenon DEF Owned
  <2>8. Owned!5'
    BY <2>3, Zenon DEF Owned
  <2> QED BY <2>4, <2>5, <2>6, <2>7, <2>8, Zenon DEF Owned
<1>QuietOwned.
      ASSUME Types, NEW k, NEW m \in TaskType, QuietTo(k, m)
      PROVE  /\ Fetches(k) => Fetches(m) /\ k.piece = m.piece /\ k.block = m.block
             /\ Owns(k) => Owns(m) /\ k.piece = m.piece
  BY <1>QuietOwned, IdleIs, Zenon DEF QuietTo, Same, Fetches, Owns
<1>QuietKeepsOwned.
      ASSUME Types, Owned, NEW t \in Task, Quiet(t)
      PROVE  Owned'
  <2> USE <1>QuietKeepsOwned
  <2>1. PICK k : Step(t, k) /\ QuietTo(k, task[t])
    BY QuietStep, Zenon
  <2>2. UNCHANGED <<record, bytefield>>
    BY Zenon DEF Quiet, Reserve, Write, CheckLimit, FlushAll, FlushAllRemove, FlushAllZero,
           UpdateOffset, CountBlock, Flush, FlushRemove, Hash, UncountPiece, CheckFinished,
           memVars
  <2>3. \A p \in Piece : Ing(p) => Ing(p)'
    <3>1. CASE UNCHANGED underway
      BY <3>1, Zenon DEF Ing
    <3>2. CASE UpdateOffset(t)
      <4>1. task[t].piece \in Piece
        BY <3>2, AtIs, Zenon DEF UpdateOffset, BlockPC
      <4>2. Types'
        BY <3>2, TypesKept, Zenon DEF Next, TaskStep, BlockAction
      <4>3. underway \in UbType /\ underway' \in UbType
        BY <4>2, Zenon DEF Types
      <4> DEFINE q == task[t].piece
      <4>4. underway' = underway \/ underway' = [underway EXCEPT ![q].off = task[t].off]
        BY <3>2, Zenon DEF UpdateOffset
      <4> HIDE DEF q
      <4>5. \A p \in Piece : underway'[p] = underway[p] \/ underway'[p] = [underway[p] EXCEPT !.off = task[t].off]
        BY <4>1, <4>3, <4>4, Zenon DEF UbType
      <4>6. ASSUME NEW p \in Piece, Ing(p) PROVE underway'[p].st = "Ing" /\ underway'[p] # None
        <5>1. underway[p] \in [st : {"Ing", "Pause"}, off : 0 .. Blocks]
          BY <4>3, <4>6, Zenon DEF UbType, Ing
        <5>2. task[t].off \in 0 .. Blocks
          BY TypesSplit, Zenon DEF TaskType
        <5>3. underway[p].st = "Ing"
          BY <4>6, Zenon DEF Ing
        <5>4. /\ [underway[p] EXCEPT !.off = task[t].off].st = underway[p].st
              /\ [underway[p] EXCEPT !.off = task[t].off]
                    \in [st : {"Ing", "Pause"}, off : 0 .. Blocks]
          BY <5>1, <5>2, Zenon
        <5>5. underway'[p].st = "Ing" /\ underway'[p] \in [st : {"Ing", "Pause"}, off : 0 .. Blocks]
          BY <4>5, <5>1, <5>3, <5>4, Zenon
        <5> QED BY <5>5, ProgressAssumption, Zenon
      <4> QED BY <4>6, Zenon DEF Ing
    <3>3. UNCHANGED underway \/ UpdateOffset(t)
      BY Zenon DEF Quiet, Reserve, Write, CheckLimit, FlushAll, FlushAllRemove, FlushAllZero,
             CountBlock, Flush, FlushRemove, Hash, UncountPiece, CheckFinished, memVars
    <3> QED BY <3>1, <3>2, <3>3, Zenon
  <2> QED BY <2>1, <2>2, <2>3, TypesSplit, <1>QuietOwned, <1>OwnedMove, ZenonT(30)
<1>AsideKeepsOwned.
      ASSUME Types, Owned, NEW t \in Task, Aside(t)
      PROVE  Owned'
  <2> USE <1>AsideKeepsOwned
  <2>1. PICK k : Step(t, k) /\ AsideTo(k, task[t])
    BY AsideStep, Zenon
  <2>2. ~Fetches(k) /\ ~Owns(k)
    BY <2>1, NoBlockIs, Zenon DEF AsideTo
  <2>3. UNCHANGED <<record, bytefield, underway>>
    BY AsideStep, Zenon DEF memVars
  <2> QED BY <2>1, <2>2, <2>3, <1>OwnedMove, Zenon DEF Ing
\* When no block is received twice, a received block is nobody else's.
<1>ReceiveKeepsOwned.
      ASSUME Types, Owned, AgainLimit = 0, NEW t \in Task,
             NEW p \in Piece, NEW b \in Block, NEW good \in BOOLEAN, Receive(t, p, b, good)
      PROVE  Owned'
  <2> USE <1>ReceiveKeepsOwned
  <2>1. Awaited(p, b)
    BY TypesSplit DEF Receive, DataTypes
  <2>2. PICK k : Step(t, k) /\ IsReceived(k, p, b, good, BlockOffset(p))
    BY ReceiveIs, Zenon
  <2>3. /\ ~Owns(k) /\ k.piece = p /\ k.block = b
    BY <2>2, Zenon DEF IsReceived, Owns, OwnPC
  <2>4. UNCHANGED <<record, bytefield, underway>>
    BY Zenon DEF Receive, memVars
  <2>5. task'[t] = k /\ \A u \in Task : u # t => task'[u] = task[u]
    BY <2>2, Stepped, Zenon
  <2>6. record[p] # None /\ b \notin record[p]
        /\ \A u \in Task : task[u].piece = p => task[u].block # b
    BY <2>1, Zenon DEF Awaited
  <2>7. Owned!1'
    BY <2>3, <2>4, <2>5, <2>6, SMTT(30) DEF Owned
  <2>8. Owned!2'
    BY <2>3, <2>4, <2>5, <2>6 DEF Owned
  <2>9. Owned!3'
    BY <2>4, Zenon DEF Owned, Ing
  <2>10. Owned!4'
    BY <2>3, <2>4, <2>5, ZenonT(30) DEF Owned, Ing
  <2>11. Owned!5'
    BY <2>3, <2>5, Zenon DEF Owned
  <2> QED BY <2>7, <2>8, <2>9, <2>10, <2>11, ZenonT(30) DEF Owned
\* A block is recorded when its handler is done with it, and a complete record leaves
\* nobody who could write to the piece.
<1>RecordKeepsOwned.
      ASSUME Types, Owned, NEW t \in Task, UpdateRecord(t) \/ CheckRecvFinish(t)
      PROVE  Owned'
  <2> USE <1>RecordKeepsOwned
  <2> USE DEF PC, BlockPC, FlushPC, SavePC, FetchPC, OwnPC
  <2> DEFINE p == task[t].piece
             b == task[t].block
  <2>0. /\ p \in Piece /\ b \in Block /\ task[t].then = "after"
        /\ record \in [Piece -> {None} \cup SUBSET Block]
        /\ \A u \in Task : task[u].block \in Block
        /\ \A u \in Task : Fetches(task[u]) \/ Owns(task[u]) => task[u].piece \in Piece
    BY AtIs, TypesSplit DEF UpdateRecord, CheckRecvFinish, DataTypes, TaskType, TaskOK,
                            Fetches, Owns
  <2>1. CASE UpdateRecord(t)
    <3>1. PICK k : Step(t, k) /\ Same(k, task[t]) /\ k.pc = "count"
      BY <2>1, MovedSame DEF UpdateRecord
    <3>2. ~Fetches(k) /\ ~Owns(k)
      BY <3>1, Zenon DEF Fetches, Owns
    <3>3. Fetches(task[t])
      BY <2>0, <2>1, Zenon DEF UpdateRecord, At, Fetches
    <3>4. record[p] # None /\ record[p] \in SUBSET Block
      BY <2>0, <3>3, Zenon DEF Owned
    <3>5. record' = [record EXCEPT ![p] = record[p] \cup {b}] /\ UNCHANGED <<bytefield, underway>>
      BY <2>1, <3>4, Zenon DEF UpdateRecord
    <3>6. task'[t] = k /\ \A u \in Task : u # t => task'[u] = task[u]
      BY <3>1, Stepped, Zenon
    <3>7. record[p] \cup {b} # None
      BY <2>0, <3>4, ProgressAssumption, Zenon DEF Block
    <3>8. \A u \in Task : u # t /\ Fetches(task[u]) /\ task[u].piece = p => task[u].block # b
      BY <3>3, Zenon DEF Owned
    <3> HIDE DEF p, b
    <3>9. \A q \in Piece : IF q = p THEN record'[q] = record[q] \cup {b} /\ record'[q] # None
                                    ELSE record'[q] = record[q]
      BY <2>0, <3>5, <3>7, Zenon
    <3>10. Owned!1'
      BY <2>0, <3>2, <3>4, <3>6, <3>8, <3>9, SMTT(30) DEF Owned
    <3>11. Owned!2'
      BY <3>2, <3>6, ZenonT(30) DEF Owned
    <3>12. Owned!3'
      BY <3>4, <3>5, <3>9, Zenon DEF Owned, Ing
    <3>13. Owned!4'
      BY <2>0, <3>2, <3>4, <3>5, <3>6, <3>9, SMTT(30) DEF Owned, Ing
    <3>14. Owned!5'
      BY <3>2, <3>6, Zenon DEF Owned
    <3> QED BY <3>10, <3>11, <3>12, <3>13, <3>14, ZenonT(60) DEF Owned
  <2>2. CASE CheckRecvFinish(t) /\ record[p] = Block
    <3>1. PICK k : Step(t, k) /\ Same(k, task[t]) /\ k.pc = "flush"
      BY <2>2, MovedSame DEF CheckRecvFinish
    <3>2. ~Fetches(k) /\ Owns(k) /\ k.piece = p
      BY <3>1, Zenon DEF Fetches, Owns, Same
    <3>3. record' = [record EXCEPT ![p] = None] /\ UNCHANGED <<bytefield, underway>>
      BY <2>2, Zenon DEF CheckRecvFinish
    <3>4. task'[t] = k /\ \A u \in Task : u # t => task'[u] = task[u]
      BY <3>1, Stepped, Zenon
    <3>5. \A u \in Task : Fetches(task[u]) => task[u].piece # p
      BY <2>0, <2>2, Zenon DEF Owned
    <3>6. Block # None
      BY ProgressAssumption, Zenon DEF Block
    <3>7. \A u \in Task : Owns(task[u]) => task[u].piece # p
      BY <2>2, <3>6, Zenon DEF Owned
    <3>8. Ing(p)
      BY <2>0, <2>2, <3>6, Zenon DEF Owned
    <3> HIDE DEF p, b
    <3>9. record'[p] = None /\ \A q \in Piece : q # p => record'[q] = record[q]
      BY <2>0, <3>3, ZenonT(60)
    <3>10. Owned!1'
      BY <2>0, <3>2, <3>4, <3>5, <3>9, SMTT(30) DEF Owned
    <3>11. Owned!2'
      BY <3>2, <3>4, Zenon DEF Owned
    <3>12. Owned!3'
      BY <3>3, <3>9, ZenonT(30) DEF Owned, Ing
    <3>13. Owned!4'
      BY <2>0, <3>2, <3>3, <3>4, <3>8, <3>9, SMTT(30) DEF Owned, Ing
    <3>14. Owned!5'
      BY <3>2, <3>4, <3>7, Zenon DEF Owned
    <3> QED BY <3>10, <3>11, <3>12, <3>13, <3>14, ZenonT(30) DEF Owned
  <2>3. CASE CheckRecvFinish(t) /\ record[p] # Block
    BY <2>3, EndStep, IdleIs, <1>OwnedMove, ZenonT(30) DEF CheckRecvFinish, Ing
  <2> QED BY <2>1, <2>2, <2>3, ZenonT(60)
\* The verdict takes the piece from its handler.
<1>VerdictKeepsOwned.
      ASSUME Types, Owned, NEW t \in Task,
             ResetUnderway(t) \/ MarkFinish(t) \/ RemoveUnderway(t)
      PROVE  Owned'
  <2> USE <1>VerdictKeepsOwned
  <2> USE DEF PC, BlockPC, FlushPC, SavePC, FetchPC, OwnPC
  <2> DEFINE p == task[t].piece
  <2>0. /\ p \in Piece /\ underway \in UbType
        /\ \A u \in Task : Fetches(task[u]) \/ Owns(task[u]) => task[u].piece \in Piece
    BY AtIs, TypesSplit, ZenonT(30) DEF ResetUnderway, MarkFinish, RemoveUnderway, DataTypes, TaskOK,
                            Fetches, Owns
  <2>1. Owns(task[t]) /\ record[p] = None /\ Ing(p)
    BY Zenon DEF ResetUnderway, MarkFinish, RemoveUnderway, At, Owns, Owned
  <2>2. /\ \A u \in Task : Fetches(task[u]) => task[u].piece # p
        /\ \A u \in Task : u # t /\ Owns(task[u]) => task[u].piece # p
    BY <2>1, Zenon DEF Owned
  <2>3. PICK k : /\ Step(t, k) /\ Same(k, task[t])
                 /\ k.pc \in {"uncount", "unmark", "finished"}
                 /\ k.pc = "unmark" => UNCHANGED underway
    BY MovedSame DEF ResetUnderway, MarkFinish, RemoveUnderway
  <2>4. /\ ~Fetches(k) /\ k.piece = p
        /\ Owns(k) => UNCHANGED underway
    BY <2>3, Zenon DEF Fetches, Owns, Same
  <2>5. task'[t] = k /\ \A u \in Task : u # t => task'[u] = task[u]
    BY <2>3, Stepped, Zenon
  <2>6. /\ UNCHANGED record /\ bytefield' \in {bytefield, bytefield \cup {p}}
        /\ \A q \in Piece : q # p => underway'[q] = underway[q]
    BY <2>0, Zenon DEF ResetUnderway, MarkFinish, RemoveUnderway, UbType
  <2> HIDE DEF p
  <2>7. Owned!1'
    BY <2>4, <2>5, <2>6, Zenon DEF Owned
  <2>8. Owned!2'
    BY <2>4, <2>5, Zenon DEF Owned
  <2>9. Owned!3'
    BY <2>1, <2>6, ZenonT(30) DEF Owned, Ing
  <2>10. Owned!4'
    BY <2>0, <2>1, <2>2, <2>4, <2>5, <2>6, SMTT(30) DEF Owned, Ing
  <2>11. Owned!5'
    BY <2>2, <2>4, <2>5, ZenonT(30) DEF Owned
  <2> QED BY <2>7, <2>8, <2>9, <2>10, <2>11, ZenonT(30) DEF Owned
\* A piece is applied for when it has no handlers.
<1>ApplyKeepsOwned.
      ASSUME Types, Owned, NEW p \in Piece, Apply(p)
      PROVE  Owned'
  <2> USE <1>ApplyKeepsOwned
  <2> DEFINE off == IF underway[p] = None THEN 0 ELSE underway[p].off
  <2>0. /\ underway \in UbType /\ off \in 0 .. Blocks
        /\ record \in [Piece -> {None} \cup SUBSET Block]
    BY TypesSplit, ProgressAssumption DEF DataTypes, UbType
  <2>1. /\ underway' = [underway EXCEPT ![p] = [st |-> "Ing", off |-> off]]
        /\ record' = [record EXCEPT ![p] = 0 .. off - 1]
        /\ UNCHANGED <<bytefield, task>> /\ p \notin bytefield /\ ~Ing(p)
    BY Zenon DEF Apply, Ing
  <2> HIDE DEF off
  <2>2. /\ \A u \in Task : Fetches(task[u]) \/ Owns(task[u]) => task[u].piece \in Piece
        /\ \A u \in Task : Fetches(task[u]) \/ Owns(task[u]) => task[u].piece # p
    BY <2>1, TypesSplit, ZenonT(30) DEF Owned, TaskOK, Fetches, Owns, FetchPC, OwnPC, BlockPC, FlushPC
  <2>3. underway'[p] = [st |-> "Ing", off |-> off]
        /\ \A q \in Piece : q # p => underway'[q] = underway[q] /\ record'[q] = record[q]
    BY <2>0, <2>1, Zenon DEF UbType
  <2>4. [st |-> "Ing", off |-> off] \in [st : {"Ing", "Pause"}, off : 0 .. Blocks]
    BY <2>0, Zenon
  <2>5. Ing(p)'
    BY <2>3, <2>4, ProgressAssumption, Zenon DEF Ing
  <2>6. Owned!1'
    BY <2>1, <2>2, <2>3, SMTT(30) DEF Owned
  <2>7. Owned!3'
    BY <2>1, <2>3, <2>5, SMTT(30) DEF Owned, Ing
  <2>8. Owned!4'
    BY <2>1, <2>2, <2>3 DEF Owned, Ing
  <2> QED BY <2>1, <2>6, <2>7, <2>8, Zenon DEF Owned
<1>LifeKeepsOwned.
      ASSUME Types, Within, Owned, AddTorrent \/ StartTask \/ InsertTask \/ Ends
      PROVE  Owned'
  <2> USE <1>LifeKeepsOwned
  <2>1. CASE AddTorrent \/ InsertTask
    BY <2>1, ZenonT(30) DEF AddTorrent, InsertTask, memVars, Owned, Ing
  <2>2. CASE StartTask \/ Ends
    <3>1. task' = [u \in Task |-> Idle] /\ record' = EmptyUb
      BY <2>2, Zenon DEF StartTask, Ends, Within, Up
    <3> QED BY <3>1, IdleIs, EmptyRowIs, Zenon DEF Owned
  <2> QED BY <2>1, <2>2, Zenon
<1> SUFFICES ASSUME Types, Within, AgainLimit = 0, Owned, [Next]_vars
             PROVE  Owned'
  BY Zenon
<1>1. CASE UNCHANGED vars
  BY <1>1, Zenon DEF vars, memVars, Owned, Ing
<1>2. CASE Next
  <2>1. ASSUME NEW t \in Task, TaskStep(t) \/ Shutdown(t) \/ NothingLeft(t) \/ DropHandler(t)
                   \/ \E p \in Piece, b \in Block, good \in BOOLEAN : Receive(t, p, b, good)
        PROVE  Owned'
    <3>1. CASE Quiet(t)
      BY <3>1, <1>QuietKeepsOwned, Zenon
    <3>2. CASE Aside(t)
      BY <3>2, <1>AsideKeepsOwned, Zenon
    <3>3. CASE Exit(t)
      BY <3>3, <1>LifeKeepsOwned, Zenon DEF Exit
    <3> QED BY <2>1, <3>1, <3>2, <3>3, <1>RecordKeepsOwned, <1>VerdictKeepsOwned, <1>ReceiveKeepsOwned, ZenonT(30)
            DEF TaskStep, Quiet, Aside
  <2> QED BY <1>2, <2>1, <1>LifeKeepsOwned, <1>ApplyKeepsOwned, ZenonT(30) DEF Next, Kill, LosePower
<1> QED BY <1>1, <1>2, Zenon

LEMMA SingleKept ==
    ASSUME Types, Within, Single, [Next]_vars
    PROVE  Single'
BY OwnedKept, Zenon DEF Single

LEMMA InitSingle ==
    Init => Types /\ Within /\ Single
<1> SUFFICES ASSUME Init PROVE Within /\ Owned
  BY InitTypes, Zenon DEF Single
<1>1. task = [u \in Task |-> Idle] /\ record = EmptyUb /\ ~Up
  BY Zenon DEF Init, Up
<1>2. Within
  BY <1>1, IdleIs, EmptyWithin, Zenon DEF Init, Within, Up
<1>3. Owned
  BY <1>1, IdleIs, EmptyRowIs, Zenon DEF Owned
<1> QED BY <1>2, <1>3, Zenon

-----------------------------------------------------------------------------
(* What is verified stays as it was verified *)

\* The moves that record a block, or that end a piece.
Marks(t) ==
    \/ UpdateRecord(t) \/ CheckRecvFinish(t)
    \/ ResetUnderway(t) \/ MarkFinish(t) \/ RemoveUnderway(t)

MarksTo(k, m) ==
    \/ k = Idle
    \/ Same(k, m) /\ k.pc \in {"count", "flush", "uncount", "unmark", "finished"}

\* What a block action leaves alone.
LEMMA BlockUp ==
    ASSUME Types, Within, NEW t \in Task, BlockAction(t)
    PROVE  Up /\ UNCHANGED <<tasks, db>>
<1>1. UNCHANGED <<tasks, db>>
  BY Zenon DEF BlockAction, Reserve, Write, CheckLimit, FlushAll, FlushAllRemove, FlushAllZero,
         UpdateOffset, UpdateRecord, CountBlock, CheckRecvFinish, Flush, FlushRemove, Hash,
         ResetUnderway, UncountPiece, MarkFinish, RemoveUnderway, CheckFinished
<1>2. task[t].pc # "idle"
  BY BlockStep, Zenon
<1>3. Up
  BY <1>2, IdleIs, Zenon DEF Within
<1> QED BY <1>1, <1>3, Zenon

\* What the row says follows from what the bit map says.
LEMMA VerifiedRow ==
    ASSUME Types, Within, Verified
    PROVE  RowInFile /\ FinishedInFile
BY Zenon DEF Within, Verified, RowWithin, RowInFile, FinishedInFile, Complete

LEMMA AsideUp ==
    ASSUME Types, Within, NEW t \in Task, Aside(t)
    PROVE  Up /\ Up'
<1>1. Up
  <2>1. CASE NothingLeft(t) \/ Shutdown(t)
    BY <2>1, Zenon DEF NothingLeft, Shutdown, Up
  <2>2. CASE ~(NothingLeft(t) \/ Shutdown(t))
    <3>1. task[t].pc # "idle"
      BY <2>2, Zenon DEF Aside, SnapUnderway, SnapBytefield, SnapStatus, Execute, AfterSave,
                  DropHandler, At
    <3> QED BY <3>1, IdleIs, Zenon DEF Within
  <2> QED BY <2>1, <2>2, Zenon
<1>2. tasks' \in {tasks, "removed"}
  BY FinishTaskIs, Zenon DEF Aside, SnapUnderway, SnapBytefield, SnapStatus, Execute, AfterSave,
                      DropHandler, NothingLeft, Shutdown
<1> QED BY <1>1, <1>2, Zenon DEF Up

\* A block arrives, a torrent or a task comes, goes or starts again, a piece is applied for.
Others ==
    \/ \E t \in Task : Aside(t)
    \/ \E t \in Task, p \in Piece, b \in Block, good \in BOOLEAN : Receive(t, p, b, good)
    \/ AddTorrent \/ StartTask \/ InsertTask \/ Kill \/ LosePower
    \/ \E t \in Task : Exit(t)
    \/ \E p \in Piece : Apply(p)

LEMMA NextSplit ==
    ASSUME Next
    PROVE  (\E t \in Task : BlockAction(t)) \/ Others
BY ZenonT(30) DEF Next, TaskStep, BlockAction, Aside, Others

LEMMA VerifiedKept ==
    PowerLoss = FALSE /\ (BadLimit = 0 \/ AgainLimit = 0)
        /\ Types /\ Within /\ Single /\ Verified /\ [Next]_vars
    => Verified'
<1>VerifiedMove.
      ASSUME Types, Verified, Up', NEW t \in Task, NEW k, Step(t, k), UNCHANGED <<cache, bytefield>>,
             Fetches(k) => Fetches(task[t]) /\ k.good = task[t].good,
             k.pc = "mark" => IntactOn(cache, k.piece)
      PROVE  Verified'
  <2> USE <1>VerifiedMove
  <2>1. task'[t] = k /\ \A u \in Task : u # t => task'[u] = task[u]
    BY Stepped, Zenon
  <2> QED BY <2>1 DEF Verified, IntactOn
<1>MarksStep.
      ASSUME Types, NEW t \in Task, Marks(t)
      PROVE  \E k : Step(t, k) /\ MarksTo(k, task[t])
  <2> USE <1>MarksStep
  <2> USE DEF PC, BlockPC
  <2>1. ASSUME NEW pc \in {"count", "flush", "uncount", "unmark", "finished"}, Goto(t, pc)
        PROVE  \E k : Step(t, k) /\ MarksTo(k, task[t])
    BY <2>1, MovedSame DEF MarksTo
  <2>2. CASE End(t)
    BY <2>2, EndStep, Zenon DEF MarksTo
  <2> QED BY <2>1, <2>2, Zenon DEF Marks, UpdateRecord, CheckRecvFinish, ResetUnderway, MarkFinish,
                            RemoveUnderway
<1>MarksIs.
      ASSUME NEW k, NEW m, MarksTo(k, m)
      PROVE  ~Fetches(k) /\ ~Wrote(k) /\ k.pc # "mark"
  BY <1>MarksIs, IdleIs, Zenon DEF MarksTo, Fetches, Wrote, FetchPC, WrotePC, FlushPC
\* A write goes to a piece that is neither verified nor being verified, or it writes
\* what is there already.
<1>WriteKeepsVerified.
      ASSUME Types, Within, Single, Verified, BadLimit = 0 \/ AgainLimit = 0,
             NEW t \in Task, Write(t)
      PROVE  Verified'
  <2> USE <1>WriteKeepsVerified
  <2> DEFINE p == task[t].piece
             b == task[t].block
             new == IF task[t].good THEN "good" ELSE "bad"
  <2>0. /\ p \in Piece /\ b \in Block /\ Fetches(task[t]) /\ cache \in Content
        /\ \A u \in Task : task[u].pc = "mark" => task[u].piece \in Piece
        /\ bytefield \subseteq Piece
    BY AtIs, TypesSplit, Zenon DEF Write, DataTypes, TaskType, TaskOK, Fetches, FetchPC, BlockPC
  <2>1. PICK k : Step(t, k) /\ Same(k, task[t]) /\ k.pc = "limit"
    BY MovedSame DEF Write, PC, BlockPC
  <2>2. Fetches(k) => k.good = task[t].good
    BY <2>1, Zenon DEF Same
  <2>3. cache' = [cache EXCEPT ![p][b] = new] /\ UNCHANGED bytefield
    BY Zenon DEF Write, memVars
  <2>4. \A q \in Piece : q # p => cache'[q] = cache[q]
    BY <2>0, <2>3, Zenon DEF Content
  <2>5. \A q \in Piece : IntactOn(cache, q) /\ (BadLimit = 0 \/ q # p) => IntactOn(cache', q)
    <3>1. BadLimit = 0 => new = "good"
      BY <2>0, Zenon DEF Verified
    <3> HIDE DEF p, b, new
    <3>2. \A c \in Block : cache'[p][c] = IF c = b THEN new ELSE cache[p][c]
      BY <2>0, <2>3, Zenon DEF Content
    <3> QED BY <2>4, <3>1, <3>2, ZenonT(30) DEF IntactOn
  <2>6. AgainLimit = 0 => /\ p \notin bytefield
                          /\ \A u \in Task : task[u].pc = "mark" => task[u].piece # p
    BY <2>0, Zenon DEF Single, Owned, Owns, OwnPC
  <2>7. task'[t] = k /\ \A u \in Task : u # t => task'[u] = task[u]
    BY <2>1, Stepped, Zenon
  <2>8. \A q \in bytefield' : IntactOn(cache', q)
    BY <2>0, <2>3, <2>5, <2>6, ZenonT(30) DEF Verified
  <2>9. \A u \in Task : task'[u].pc = "mark" => IntactOn(cache', task'[u].piece)
    BY <2>0, <2>1, <2>5, <2>6, <2>7, ZenonT(30) DEF Verified
  <2>10. BadLimit = 0 => \A u \in Task : Fetches(task'[u]) => task'[u].good = TRUE
    BY <2>0, <2>2, <2>7, Zenon DEF Verified
  <2>11. Up'
    BY BlockUp, Zenon DEF BlockAction, Up
  <2> QED BY <2>8, <2>9, <2>10, <2>11, ZenonT(30) DEF Verified
<1>BlockKeepsVerified.
      ASSUME Types, Within, Single, Verified, BadLimit = 0 \/ AgainLimit = 0,
             NEW t \in Task, BlockAction(t)
      PROVE  Verified'
  <2> USE <1>BlockKeepsVerified
  <2>0. Up' /\ task[t] \in TaskType
    BY BlockUp, TypesSplit, Zenon DEF Up
  <2>1. CASE Write(t)
    BY <2>1, <1>WriteKeepsVerified, Zenon
  <2>2. CASE Quiet(t) /\ ~Write(t)
    <3>1. PICK k : Step(t, k) /\ QuietTo(k, task[t])
      BY <2>2, QuietStep, Zenon
    <3>2. /\ Fetches(k) => Fetches(task[t]) /\ k.good = task[t].good
          /\ k.pc = "mark" => IntactOn(cache, k.piece)
      BY <3>1, IdleIs, Zenon DEF QuietTo, Same, Fetches
    <3>3. UNCHANGED <<cache, bytefield>>
      BY <2>2, Zenon DEF Quiet, Reserve, CheckLimit, FlushAll, FlushAllRemove, FlushAllZero,
             UpdateOffset, CountBlock, Flush, FlushRemove, Hash, UncountPiece, CheckFinished,
             memVars, storeVars
    <3> QED BY <2>0, <3>1, <3>2, <3>3, <1>VerifiedMove, Zenon
  <2>3. CASE MarkFinish(t)
    <3>1. PICK k : Step(t, k) /\ MarksTo(k, task[t])
      BY <2>3, <1>MarksStep, Zenon DEF Marks
    <3>2. ~Fetches(k) /\ k.pc # "mark"
      BY <3>1, <1>MarksIs, Zenon
    <3>3. task'[t] = k /\ \A u \in Task : u # t => task'[u] = task[u]
      BY <3>1, Stepped, Zenon
    <3>4. /\ cache' = cache /\ bytefield' = bytefield \cup {task[t].piece}
          /\ task[t].pc = "mark"
      BY <2>3, Zenon DEF MarkFinish, storeVars, At
    <3> QED BY <2>0, <3>2, <3>3, <3>4 DEF Verified, IntactOn
  <2>4. CASE Marks(t) /\ ~MarkFinish(t)
    <3>1. PICK k : Step(t, k) /\ MarksTo(k, task[t])
      BY <2>4, <1>MarksStep, Zenon
    <3>2. ~Fetches(k) /\ k.pc # "mark"
      BY <3>1, <1>MarksIs, Zenon
    <3>3. UNCHANGED <<cache, bytefield>>
      BY <2>4, Zenon DEF Marks, UpdateRecord, CheckRecvFinish, ResetUnderway, RemoveUnderway, storeVars
    <3> QED BY <2>0, <3>1, <3>2, <3>3, <1>VerifiedMove, ZenonT(30)
  <2> QED BY <2>1, <2>2, <2>3, <2>4, Zenon DEF BlockAction, Quiet, Marks
<1>OtherKeepsVerified.
      ASSUME Types, Within, Verified, PowerLoss = FALSE, Others
      PROVE  Verified'
  <2> USE <1>OtherKeepsVerified
  <2>1. ASSUME NEW t \in Task, Aside(t) PROVE Verified'
    <3>1. PICK k : Step(t, k) /\ AsideTo(k, task[t])
      BY <2>1, AsideStep, Zenon
    <3>2. ~Fetches(k) /\ k.pc # "mark"
      BY <3>1, NoBlockIs, Zenon DEF AsideTo, BlockPC
    <3>3. UNCHANGED <<cache, bytefield>>
      BY <2>1, AsideStep, Zenon DEF memVars, storeVars
    <3>4. Up'
      BY <2>1, AsideUp, Zenon
    <3> QED BY <3>1, <3>2, <3>3, <3>4, <1>VerifiedMove, Zenon
  <2>2. ASSUME NEW t \in Task, NEW p \in Piece, NEW b \in Block, NEW good \in BOOLEAN,
               Receive(t, p, b, good)
        PROVE  Verified'
    <3>1. PICK k : Step(t, k) /\ IsReceived(k, p, b, good, BlockOffset(p))
      BY <2>2, ReceiveIs, Zenon
    <3>2. k.pc = "reserve" /\ (good => k.good = TRUE)
      BY <3>1, Zenon DEF IsReceived
    <3>3. BadLimit = 0 => good
      <4>1. bads \in Nat
        BY TypesSplit, Zenon DEF DataTypes
      <4>2. ~good => bads < BadLimit
        BY <2>2, Zenon DEF Receive
      <4> QED BY <4>1, <4>2
    <3>4. task'[t] = k /\ \A u \in Task : u # t => task'[u] = task[u]
      BY <3>1, Stepped, Zenon
    <3>5. Up' /\ UNCHANGED <<cache, bytefield>>
      BY <2>2, Zenon DEF Receive, memVars, storeVars, Up
    <3> QED BY <3>2, <3>3, <3>4, <3>5, SMTT(30) DEF Verified, IntactOn
  <2>3. CASE AddTorrent
    <3>1. UNCHANGED <<tasks, cache, bytefield, task>> /\ db' = EmptyRow
      BY <2>3, Zenon DEF AddTorrent, memVars, storeVars
    <3> QED BY <3>1, EmptyRowIs, ZenonT(30) DEF Verified, IntactOn, RowInFile, FinishedInFile, Up
  <2>4. CASE StartTask
    <3>1. UNCHANGED <<cache, task>> /\ bytefield' = db.bits /\ db # None /\ Up' /\ ~Up
      BY <2>4, Zenon DEF StartTask, storeVars, Up
    <3> QED BY <3>1, Zenon DEF Verified, IntactOn, RowInFile
  <2>5. CASE InsertTask
    BY <2>5, Zenon DEF InsertTask, memVars, storeVars, Verified, IntactOn, Up
  <2>6. CASE Kill \/ LosePower \/ \E t \in Task : Exit(t)
    <3>1. Ends /\ UNCHANGED cache
      BY <2>6, Zenon DEF Kill, LosePower, Exit
    <3>2. /\ task' = [u \in Task |-> Idle] /\ bytefield' = {} /\ db' = db
      BY <3>1, Zenon DEF Ends
    <3>3. RowInFile' /\ FinishedInFile'
      BY <3>1, <3>2, VerifiedRow, Zenon DEF RowInFile, FinishedInFile, Complete, IntactOn
    <3> QED BY <3>2, <3>3, IdleIs, ZenonT(30) DEF Verified
  <2>7. CASE \E p \in Piece : Apply(p)
    BY <2>7 DEF Apply, storeVars, Verified, IntactOn, Up
  <2> QED BY <2>1, <2>2, <2>3, <2>4, <2>5, <2>6, <2>7, ZenonT(30) DEF Others
<1> SUFFICES ASSUME PowerLoss = FALSE, BadLimit = 0 \/ AgainLimit = 0,
                    Types, Within, Single, Verified, [Next]_vars
             PROVE  Verified'
  BY Zenon
<1>1. CASE UNCHANGED vars
  BY <1>1, ZenonT(30) DEF vars, memVars, storeVars, Verified, IntactOn, RowInFile, FinishedInFile,
              Complete, Up
<1>2. CASE Next
  BY <1>2, NextSplit, <1>BlockKeepsVerified, <1>OtherKeepsVerified, Zenon
<1> QED BY <1>1, <1>2, Zenon

\* What the table says of a torrent is in its file, whenever the process is killed, as
\* long as no page is lost: a piece the row calls downloaded reads as it was verified,
\* and a torrent the row calls finished is complete.  It needs that damaged blocks and
\* blocks received twice do not come together: a second copy of a block of a verified
\* piece is written over the first (Store::write does not look at the bit map).
THEOREM RowTrueOfFile ==
    ASSUME PowerLoss = FALSE, BadLimit = 0 \/ AgainLimit = 0
    PROVE  Spec => [](RowInFile /\ FinishedInFile)
<1> DEFINE Inv == Types /\ Within /\ Single /\ Verified
<1>1. Init => Inv
  <2> SUFFICES ASSUME Init PROVE Verified
    BY InitSingle, Zenon
  <2> QED BY IdleIs, Zenon DEF Init, Verified, RowInFile, FinishedInFile
<1>2. Inv /\ [Next]_vars => Inv'
  BY TypesKept, WithinKept, SingleKept, VerifiedKept, Zenon
<1>3. Inv => RowInFile /\ FinishedInFile
  BY VerifiedRow, Zenon
<1> QED BY <1>1, <1>2, <1>3, PTL DEF Spec
=============================================================================
