---------------------------- MODULE TaskProgress ----------------------------
(***************************************************************************)
(* What a download task keeps of its progress, and where: the bit map and  *)
(* the pieces in progress in memory (DefaultServant), the blocks in the    *)
(* mapped file (Store), and the row of the torrent table.  The task is     *)
(* added, started, finished and shut down by the TaskManager; the process  *)
(* may be killed, or lose its power, at any moment and start again.        *)
(*                                                                         *)
(* Blocks arrive for handlers that run concurrently.  Which peer requests  *)
(* what, and how pieces change hands, is the subject of PieceSchedule: a   *)
(* piece here is taken by whoever applies for it, and its response record  *)
(* is the set of its blocks.  The torrent has one file.                    *)
(***************************************************************************)
EXTENDS Integers, FiniteSets, FiniteSetsExt

CONSTANTS
    Piece, Blocks,  \* the torrent: pieces of Blocks blocks each
    Task,           \* the handlers that can run at a time
    None,
    BufLimit,       \* Config::buf_limit, in blocks
    CounterSize,    \* the counters wrap at this value (2^64)
    BadLimit,       \* bound: how many blocks arrive damaged
    AgainLimit,     \* bound: how many blocks arrive a second time
    CrashLimit,     \* bound: how often the process ends
    PowerLoss       \* whether unflushed pages may be lost with it

ASSUME ProgressAssumption ==
    /\ Blocks \in Nat \ {0} /\ CounterSize \in Nat \ {0} /\ PowerLoss \in BOOLEAN
    /\ IsFiniteSet(Piece) /\ None \notin Task 
    /\ \A bits \in SUBSET (0 .. Blocks - 1) : None # bits
    /\ None \notin [st : {"Ing", "Pause"}, off : 0 .. Blocks]
    /\ None \notin [buf : Nat, len : Nat]

Block == 0 .. Blocks - 1
FileLen == Cardinality(Piece) * Blocks
Content == [Piece -> [Block -> {"none", "good", "bad"}]]
UbType == [Piece -> {None} \cup [st : {"Ing", "Pause"}, off : 0 .. Blocks]]
RowType == [bits : SUBSET Piece, ub : UbType, download : 0 .. CounterSize - 1,
            status : {"Download", "Finished"}]

VARIABLES
    tasks,     \* this task: "absent", "started" (handle_task), "running", "removed"
    bytefield, underway, record,   \* DefaultServant, and the peers' records
    status, download,              \* TorrentStatus and the downloaded amount
    cache, durable,                \* what the file reads, and what a power loss leaves
    writer, buf_size,              \* the FileWriter of the file, Store::buf_size
    db,                            \* the row of the torrent
    task,                          \* the handlers
    bads, agains, crashes

memVars == <<bytefield, underway, record, status, download>>
storeVars == <<cache, durable, writer, buf_size>>
boundVars == <<bads, agains, crashes>>
vars == <<tasks, memVars, storeVars, db, task, boundVars>>

EmptyUb == [p \in Piece |-> None]
EmptyRow == [bits |-> {}, ub |-> EmptyUb, download |-> 0, status |-> "Download"]
Idle == [pc |-> "idle", piece |-> None, block |-> 0, good |-> FALSE, off |-> 0,
         drop |-> FALSE, row |-> EmptyRow, then |-> "after"]

Init ==
    /\ tasks = "absent"
    /\ bytefield = {} /\ underway = EmptyUb /\ record = EmptyUb
    /\ status = "Download" /\ download = 0
    /\ cache = [p \in Piece |-> [b \in Block |-> "none"]] /\ durable = cache
    /\ writer = None /\ buf_size = 0
    /\ db = None
    /\ task = [t \in Task |-> Idle]
    /\ bads = 0 /\ agains = 0 /\ crashes = 0

Up == tasks # "absent"

\* An atomic counter.  NoWrap would be a counter that can be negative.
NoWrap(n) == n
Wrap(n) == n % CounterSize

At(t, pc) == task[t].pc = pc
Goto(t, pc) == task' = [task EXCEPT ![t].pc = pc]
End(t) == task' = [task EXCEPT ![t] = Idle]

-----------------------------------------------------------------------------
(* TaskManager *)

\* add_task: add_torrent inserts the row before the task exists.
AddTorrent ==
    /\ db = None
    /\ db' = EmptyRow
    /\ UNCHANGED <<tasks, memVars, storeVars, task, boundVars>>

\* DownloadContent::new recovers the row, and handle_task starts the task: after
\* add_torrent, and for every row with status Download when the process starts.
StartTask ==
    /\ tasks = "absent" /\ db # None /\ db.status = "Download"
    /\ tasks' = "started"
    /\ bytefield' = db.bits /\ underway' = db.ub /\ record' = EmptyUb
    /\ status' = db.status /\ download' = db.download
    /\ UNCHANGED <<storeVars, db, task, boundVars>>

\* handle_task: tasks.insert comes after the start.
InsertTask ==
    /\ tasks = "started"
    /\ tasks' = "running"
    /\ UNCHANGED <<memVars, storeVars, db, task, boundVars>>

\* TaskManagerCallback::finish removes the task and saves once more; it does
\* nothing when the task is not in the map.
FinishTask(t) ==
    IF tasks = "running"
    THEN /\ tasks' = "removed"
         /\ task' = [task EXCEPT ![t].pc = "conn", ![t].then = "end"]
    ELSE End(t) /\ UNCHANGED tasks

\* TaskManager::shutdown, in a task of its own: every task in the map saves its
\* progress, then the store is flushed.
Shutdown(t) ==
    /\ At(t, "idle") /\ Up /\ crashes < CrashLimit
    /\ \A u \in Task : task[u].then # "exit"
    /\ task' = [task EXCEPT ![t].pc = IF tasks = "running" THEN "conn" ELSE "flushall",
                            ![t].then = "exit"]
    /\ UNCHANGED <<tasks, memVars, storeVars, db, boundVars>>

\* The process ends.  Its memory is gone; the pages it wrote are in the file.
Ends ==
    /\ tasks' = "absent"
    /\ bytefield' = {} /\ underway' = EmptyUb /\ record' = EmptyUb
    /\ status' = "Download" /\ download' = 0
    /\ writer' = None /\ buf_size' = 0
    /\ task' = [t \in Task |-> Idle]
    /\ crashes' = crashes + 1
    /\ UNCHANGED <<db, bads, agains>>

\* Context::cancel at the end of the shutdown, or the process is killed.
Exit(t) == At(t, "exit") /\ Ends /\ UNCHANGED <<cache, durable>>
Kill == Up /\ crashes < CrashLimit /\ Ends /\ UNCHANGED <<cache, durable>>

\* With the power, any of the pages that were not flushed is lost.
LosePower ==
    /\ PowerLoss /\ Up /\ crashes < CrashLimit
    /\ Ends
    /\ \E kept \in SUBSET {pb \in Piece \X Block : cache[pb[1]][pb[2]] # durable[pb[1]][pb[2]]} :
          cache' = [p \in Piece |-> [b \in Block |->
                       IF <<p, b>> \in kept THEN cache[p][b] ELSE durable[p][b]]]
    /\ durable' = cache'

-----------------------------------------------------------------------------
(* A block arrives, DefaultServant::write_file *)

\* A peer applies for a piece and records it (apply_download_piece); the blocks
\* below the offset of a paused piece count as received.
Apply(p) ==
    LET off == IF underway[p] = None THEN 0 ELSE underway[p].off IN
    /\ tasks \in {"started", "running"}
    /\ p \notin bytefield
    /\ underway[p] # None => underway[p].st = "Pause"
    /\ underway' = [underway EXCEPT ![p] = [st |-> "Ing", off |-> off]]
    /\ record' = [record EXCEPT ![p] = 0 .. off - 1]
    /\ UNCHANGED <<tasks, bytefield, status, download, storeVars, db, task, boundVars>>

\* Piece::block_offset: the blocks received without a gap.
BlockOffset(p) == Max({o \in 0 .. Blocks : 0 .. o - 1 \subseteq record[p]})

\* A block of a piece in progress is received; real_offset is read.  A block that
\* is recorded or being handled was requested again.
Awaited(p, b) ==
    /\ record[p] # None /\ b \notin record[p]
    /\ \A t \in Task : task[t].piece = p => task[t].block # b
Receive(t, p, b, good) ==
    /\ At(t, "idle") /\ tasks \in {"started", "running"}
    /\ record[p] # None
    /\ Awaited(p, b) \/ agains < AgainLimit
    /\ ~good => bads < BadLimit
    /\ task' = [task EXCEPT ![t] = [Idle EXCEPT !.pc = "reserve", !.piece = p,
                                    !.block = b, !.good = good, !.off = BlockOffset(p)]]
    /\ agains' = IF Awaited(p, b) THEN agains ELSE agains + 1
    /\ bads' = IF good THEN bads ELSE bads + 1
    /\ UNCHANGED <<tasks, memVars, storeVars, db, crashes>>

\* Store::write: the block is counted, then copied to the mapping; when the
\* limit is reached everything is flushed.
Reserve(t) ==
    /\ At(t, "reserve")
    /\ buf_size' = Wrap(buf_size + 1)
    /\ Goto(t, "write")
    /\ UNCHANGED <<tasks, memVars, cache, durable, writer, db, boundVars>>

NewWriter == [buf |-> 0, len |-> 0]
Write(t) ==
    LET w == IF writer = None THEN NewWriter ELSE writer IN
    /\ At(t, "write")
    /\ writer' = [w EXCEPT !.buf = @ + 1]
    /\ cache' = [cache EXCEPT ![task[t].piece][task[t].block] =
                    IF task[t].good THEN "good" ELSE "bad"]
    /\ Goto(t, "limit")
    /\ UNCHANGED <<tasks, memVars, durable, buf_size, db, boundVars>>

CheckLimit(t) ==
    /\ At(t, "limit")
    /\ Goto(t, IF buf_size >= BufLimit THEN "flushall" ELSE "offset")
    /\ UNCHANGED <<tasks, memVars, storeVars, db, boundVars>>

\* FileWriter::flush: the pages are written out, and the writer is done when it
\* has written as much as the file is long.
FlushWriter(t, pc) ==
    IF writer = None
    THEN /\ task' = [task EXCEPT ![t].pc = pc, ![t].drop = FALSE]
         /\ UNCHANGED <<writer, durable>>
    ELSE /\ durable' = cache
         /\ writer' = [buf |-> 0, len |-> writer.len + writer.buf]
         /\ task' = [task EXCEPT ![t].pc = pc,
                                 ![t].drop = writer.len + writer.buf >= FileLen]

\* Store::flush_all: flush, remove the writers that are done, reset the count.
FlushAll(t) ==
    /\ At(t, "flushall")
    /\ FlushWriter(t, "flushdrop")
    /\ UNCHANGED <<tasks, memVars, cache, buf_size, db, boundVars>>

FlushAllRemove(t) ==
    /\ At(t, "flushdrop")
    /\ writer' = IF task[t].drop THEN None ELSE writer
    /\ Goto(t, "flushzero")
    /\ UNCHANGED <<tasks, memVars, cache, durable, buf_size, db, boundVars>>

FlushAllZero(t) ==
    /\ At(t, "flushzero")
    /\ buf_size' = 0
    /\ Goto(t, IF task[t].then = "exit" THEN "exit" ELSE "offset")
    /\ UNCHANGED <<tasks, memVars, cache, durable, writer, db, boundVars>>

\* update_write_piece_offset, then update_resoponse_piece, then the downloaded
\* amount (on_store_block_success).
UpdateOffset(t) ==
    LET p == task[t].piece IN
    /\ At(t, "offset")
    /\ underway' = IF underway[p] # None /\ underway[p].st = "Ing"
                   THEN [underway EXCEPT ![p].off = task[t].off] ELSE underway
    /\ Goto(t, "record")
    /\ UNCHANGED <<tasks, bytefield, record, status, download, storeVars, db, boundVars>>

UpdateRecord(t) ==
    LET p == task[t].piece IN
    /\ At(t, "record")
    /\ record' = IF record[p] # None
                 THEN [record EXCEPT ![p] = @ \cup {task[t].block}] ELSE record
    /\ Goto(t, "count")
    /\ UNCHANGED <<tasks, bytefield, underway, status, download, storeVars, db, boundVars>>

CountBlock(t) ==
    /\ At(t, "count")
    /\ download' = Wrap(download + 1)
    /\ Goto(t, "check")
    /\ UNCHANGED <<tasks, bytefield, underway, record, status, storeVars, db, boundVars>>

\* piece_recv_finish and remove_finish_piece.
CheckRecvFinish(t) ==
    LET p == task[t].piece IN
    /\ At(t, "check")
    /\ IF record[p] = Block
       THEN record' = [record EXCEPT ![p] = None] /\ Goto(t, "flush")
       ELSE End(t) /\ UNCHANGED record
    /\ UNCHANGED <<tasks, bytefield, underway, status, download, storeVars, db, boundVars>>

-----------------------------------------------------------------------------
(* Store::checkout and what follows it *)

\* Store::flush of the file.  FlushSkipped reads the file as it is.
FlushSkipped(t) ==
    /\ At(t, "flush")
    /\ Goto(t, "hash")
    /\ UNCHANGED <<tasks, memVars, storeVars, db, boundVars>>
Flush(t) ==
    /\ At(t, "flush")
    /\ FlushWriter(t, "drop")
    /\ buf_size' = IF writer = None THEN buf_size
                   ELSE Wrap(buf_size - writer.buf)
    /\ UNCHANGED <<tasks, memVars, cache, db, boundVars>>

FlushRemove(t) ==
    /\ At(t, "drop")
    /\ writer' = IF task[t].drop THEN None ELSE writer
    /\ Goto(t, "hash")
    /\ UNCHANGED <<tasks, memVars, cache, durable, buf_size, db, boundVars>>

\* The hash, and its verdict; a failure subtracts the piece from the amount.
Hash(t) ==
    LET p == task[t].piece IN
    /\ At(t, "hash")
    /\ Goto(t, IF \A b \in Block : cache[p][b] = "good" THEN "mark" ELSE "reset")
    /\ UNCHANGED <<tasks, memVars, storeVars, db, boundVars>>

ResetUnderway(t) ==
    /\ At(t, "reset")
    /\ underway' = [underway EXCEPT ![task[t].piece] =
                       [st |-> "Pause", off |-> 0]]
    /\ Goto(t, "uncount")
    /\ UNCHANGED <<tasks, bytefield, record, status, download, storeVars, db, boundVars>>

UncountPiece(t) ==
    /\ At(t, "uncount")
    /\ download' = Wrap(download - Blocks)
    /\ End(t)
    /\ UNCHANGED <<tasks, bytefield, underway, record, status, storeVars, db, boundVars>>

\* mark_piece_finish: the bit, then the entry in underway_bytefield.
MarkFinish(t) ==
    /\ At(t, "mark")
    /\ bytefield' = bytefield \cup {task[t].piece}
    /\ Goto(t, "unmark")
    /\ UNCHANGED <<tasks, underway, record, status, download, storeVars, db, boundVars>>

RemoveUnderway(t) ==
    /\ At(t, "unmark")
    /\ underway' = [underway EXCEPT ![task[t].piece] = None]
    /\ Goto(t, "finished")
    /\ UNCHANGED <<tasks, bytefield, record, status, download, storeVars, db, boundVars>>

\* check_piece_download_finished, and a version that is off by one.
AlmostAllPieces == Cardinality(bytefield) + 1 >= Cardinality(Piece)
AllPieces == bytefield = Piece

\* Dispatch::check_finished.
CheckFinished(t) ==
    /\ At(t, "finished")
    /\ status' = IF AllPieces THEN "Finished" ELSE status
    /\ Goto(t, "conn")
    /\ UNCHANGED <<tasks, bytefield, underway, record, download, storeVars, db, boundVars>>

-----------------------------------------------------------------------------
(* TaskControl::save_progress *)

\* An entry of underway_bytefield with Ing turned into Pause, and one left as it is.
AsItIs(u) == u
Paused(u) == IF u = None THEN None ELSE [st |-> "Pause", off |-> u.off]

\* The entries of underway_bytefield.
SnapUnderway(t) ==
    /\ At(t, "conn")
    /\ task' = [task EXCEPT ![t].pc = "bits",
                    ![t].row.ub = [p \in Piece |-> Paused(underway[p])]]
    /\ UNCHANGED <<tasks, memVars, storeVars, db, boundVars>>

SnapBytefield(t) ==
    /\ At(t, "bits")
    /\ task' = [task EXCEPT ![t].pc = "status", ![t].row.bits = bytefield]
    /\ UNCHANGED <<tasks, memVars, storeVars, db, boundVars>>

SnapStatus(t) ==
    /\ At(t, "status")
    /\ task' = [task EXCEPT ![t].pc = "execute", ![t].row.download = download,
                            ![t].row.status = status]
    /\ UNCHANGED <<tasks, memVars, storeVars, db, boundVars>>

\* The update statement; then what the caller does next.
Execute(t) ==
    /\ At(t, "execute")
    /\ db' = task[t].row
    /\ CASE task[t].then = "after" -> Goto(t, "after")
         [] task[t].then = "exit" -> Goto(t, "flushall")
         [] OTHER -> End(t)
    /\ UNCHANGED <<tasks, memVars, storeVars, boundVars>>

\* download_finished_after_handle.
AfterSave(t) ==
    /\ At(t, "after")
    /\ IF status = "Finished" THEN FinishTask(t) ELSE End(t) /\ UNCHANGED tasks
    /\ UNCHANGED <<memVars, storeVars, db, boundVars>>

\* A handler that finds nothing to request, with all pieces there
\* (try_loot_slow_peer, on_piece_download_finished).
NothingLeft(t) ==
    /\ At(t, "idle") /\ tasks \in {"started", "running"} /\ AllPieces
    /\ FinishTask(t)
    /\ UNCHANGED <<memVars, storeVars, db, boundVars>>

\* The connection of its peer breaks while a handler waits for a database
\* connection: Peer::shutdown drops it.
DropHandler(t) ==
    /\ At(t, "conn") /\ task[t].then # "exit"
    /\ End(t)
    /\ UNCHANGED <<tasks, memVars, storeVars, db, boundVars>>

-----------------------------------------------------------------------------
TaskStep(t) ==
    \/ Reserve(t) \/ Write(t) \/ CheckLimit(t)
    \/ FlushAll(t) \/ FlushAllRemove(t) \/ FlushAllZero(t)
    \/ UpdateOffset(t) \/ UpdateRecord(t) \/ CountBlock(t) \/ CheckRecvFinish(t)
    \/ Flush(t) \/ FlushRemove(t) \/ Hash(t) \/ ResetUnderway(t) \/ UncountPiece(t)
    \/ MarkFinish(t) \/ RemoveUnderway(t) \/ CheckFinished(t)
    \/ SnapUnderway(t) \/ SnapBytefield(t) \/ SnapStatus(t) \/ Execute(t)
    \/ AfterSave(t) \/ Exit(t)

Next ==
    \/ AddTorrent \/ StartTask \/ InsertTask \/ Kill \/ LosePower
    \/ \E p \in Piece : Apply(p)
    \/ \E t \in Task :
          \/ TaskStep(t) \/ Shutdown(t) \/ NothingLeft(t) \/ DropHandler(t)
          \/ \E p \in Piece, b \in Block, good \in BOOLEAN : Receive(t, p, b, good)

Spec == Init /\ [][Next]_vars

\* The runtime runs every handler, and the process is started again.
Fairness ==
    /\ WF_vars(AddTorrent) /\ WF_vars(StartTask) /\ WF_vars(InsertTask)
    /\ \A p \in Piece :
          /\ WF_vars(Apply(p))
          /\ \A b \in Block :
                SF_vars(\E t \in Task : Awaited(p, b) /\ Receive(t, p, b, TRUE))
    /\ \A t \in Task : WF_vars(TaskStep(t))

FairSpec == Spec /\ Fairness

-----------------------------------------------------------------------------
\* Every variable keeps its shape.
TypeOK ==
    /\ tasks \in {"absent", "started", "running", "removed"}
    /\ bytefield \subseteq Piece /\ underway \in UbType
    /\ record \in [Piece -> {None} \cup SUBSET Block]
    /\ status \in {"Download", "Finished"} /\ download \in 0 .. CounterSize - 1
    /\ cache \in Content /\ durable \in Content
    /\ writer \in {None} \cup [buf : Nat, len : Nat] /\ buf_size \in 0 .. CounterSize - 1
    /\ db \in {None} \cup RowType
    /\ \A t \in Task : task[t].row \in RowType

IntactOn(disk, p) == \A b \in Block : disk[p][b] = "good"

\* A piece the row calls downloaded is in the file, also after a power loss:
\* checkout flushes the file before it reads it, and the row is written after.
RowDurable == db # None => \A p \in db.bits : IntactOn(durable, p)

\* A torrent is called finished in the table, and never loaded again, only when
\* all of it is in the file.
FinishedComplete ==
    db # None /\ db.status = "Finished" => \A p \in Piece : IntactOn(durable, p)

\* Whatever a power loss takes, the torrent ends up complete in the file: a piece
\* resumed at an offset whose blocks were lost fails its hash and starts anew.
Complete == \A p \in Piece : IntactOn(cache, p)
Recovers == <>[]Complete

-----------------------------------------------------------------------------
\* What the comments say and the code does not keep.

\* The row of a torrent that is complete says so in the end ("save the current
\* progress"): an older snapshot may be written after a newer one.
FinishRecorded == <>[](db # None /\ db.status = "Finished")

\* The downloaded amount never wraps.
AmountCounted == download <= FileLen + AgainLimit + BadLimit * Blocks

\* "Guarantees that the task is destroyed" (TaskManagerCallback::finish).
FinishedTaskDestroyed == status = "Finished" ~> tasks \in {"removed", "absent"}
=============================================================================
