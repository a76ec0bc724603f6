------------------------ MODULE PieceScheduleProofs ------------------------
(***************************************************************************)
(* Proofs about PieceSchedule, for every number of peers, pieces, blocks   *)
(* and tasks: the lock of a peer excludes and is never leaked; when no     *)
(* write fails, every resume offset has everything below it stored; and,   *)
(* when no peer sends wrong data, what is verified stays intact.           *)
(*                                                                         *)
(* None is inductive alone.  An offset travels: it is read from a          *)
(* response record by a task, written to underway_bytefield later, read    *)
(* from there by a looter, carried in free_piece and installed in another  *)
(* peer's records.  The invariant says of every place where an offset can  *)
(* be, the local variables of the tasks included, that the blocks below it *)
(* are stored, and of every bit of a response record that its block is.    *)
(***************************************************************************)
EXTENDS PieceSchedule, WellFoundedInduction, TLAPS

\* A write that fails moves the offset of a response record past blocks that
\* are not stored, so the claim is made only when no write fails.
Below(d, p, o) ==
    WriteFailLimit = 0 => \A b \in Block : b < o => d[p][b] # "none"

\* An entry of underway_bytefield.
StatusInv(d, p, s) == s # None => Below(d, p, s.off)

\* A response record.
RespInv(d, p, rp) ==
    rp # None => /\ Below(d, p, rp.off)
                 /\ \A b \in rp.bits : d[p][b] # "none"

BlockPC == {"spawned", "real", "store", "ub", "resp", "check", "permit", "hash",
            "verdict"}

\* A running handler.
TaskInv(d, k) ==
    /\ k \in TaskType
    /\ k.pc # "free" => k.peer \in Peer
    /\ k.pc \in BlockPC => k.piece \in Piece
    /\ k.pc = "applied" => \E q \in Piece : k.free[q] # None
    /\ k.pc \in {"store", "ub"} => Below(d, k.piece, k.off)
    /\ k.pc \in {"ub", "resp"} => d[k.piece][k.block] # "none"
    /\ k.pc \in {"applied", "victim", "lootexit"} =>
         \A p \in Piece : k.free[p] # None => Below(d, p, k.free[p])

DiskType == [Piece -> [Block -> {"none", "good", "bad"}]]
DataOK ==
    /\ wire \in [Peer -> Seq(Request)]
    /\ request_pieces \in [Peer -> [Piece -> {None} \cup Nat]]
UnderwayOK ==
    /\ underway \in [Piece -> {None} \cup Status]
    /\ \A p \in Piece : StatusInv(disk, p, underway[p])
ResponseOK ==
    /\ response_pieces \in [Peer -> [Piece -> {None} \cup RespPiece]]
    /\ \A r \in Peer, p \in Piece : RespInv(disk, p, response_pieces[r][p])
TasksOK ==
    /\ task \in [Task -> TaskType]
    /\ \A t \in Task : TaskInv(disk, task[t])
LockOK ==
    /\ lock \in [Peer -> {None} \cup Task]
    /\ LockExclusive

IInv ==
    /\ disk \in DiskType
    /\ DataOK
    /\ UnderwayOK
    /\ ResponseOK
    /\ TasksOK
    /\ LockOK

\* The blocks stored in d are stored in e.
Grows(d, e) == \A p \in Piece, b \in Block : d[p][b] # "none" => e[p][b] # "none"

-----------------------------------------------------------------------------
\* A nonempty set of naturals has a least element.
LEMMA Least ==
    ASSUME NEW S, S \subseteq Nat, S # {}
    PROVE  \E n \in S : \A m \in S : n <= m
<1> DEFINE R == OpToRel(<, Nat)
<1>1. IsWellFoundedOn(R, Nat)
  BY Zenon, NatLessThanWellFounded
<1>2. \E x \in S : \A y \in S : ~(<<y, x>> \in R)
  <2> HIDE DEF R
  <2> QED BY Zenon, <1>1, WFMin
<1>3. \A x, y \in Nat : ~(<<y, x>> \in R) => x <= y
  BY DEF OpToRel
<1> QED BY Zenon, <1>2, <1>3

\* What Piece::add_finish moves the offset over has been received.
LEMMA AdvanceRange ==
    ASSUME NEW o \in Offset, NEW bits \in SUBSET Block
    PROVE  /\ Advance(o, bits) \in o .. Blocks
           /\ o .. Advance(o, bits) - 1 \subseteq bits
<1> DEFINE S == {k \in o .. Blocks : k \notin bits}
<1>1. S \subseteq Nat /\ Blocks \in S
  BY PieceScheduleAssumption DEF Offset, Block
<1>2. PICK n \in S : \A m \in S : n <= m
  <2> HIDE DEF S
  <2> QED BY Zenon, <1>1, Least
<1>3. n \in o .. Blocks /\ n \notin bits /\ o .. n - 1 \subseteq bits
  BY <1>2, PieceScheduleAssumption DEF Offset
<1> QED BY <1>3, Zenon DEF Advance

\* Stored blocks stay stored, so every part of the invariant survives a write.
LEMMA GrowsKeeps ==
    ASSUME NEW d, NEW e, Grows(d, e)
    PROVE  /\ \A p \in Piece : \A s : StatusInv(d, p, s) => StatusInv(e, p, s)
           /\ \A p \in Piece : \A rp \in {None} \cup RespPiece :
                RespInv(d, p, rp) => RespInv(e, p, rp)
           /\ \A k : TaskInv(d, k) => TaskInv(e, k)
<1>1. \A p \in Piece : \A o : Below(d, p, o) => Below(e, p, o)
  BY Zenon DEF Grows, Below
<1>2. \A p \in Piece : \A s : StatusInv(d, p, s) => StatusInv(e, p, s)
  BY <1>1, Zenon DEF StatusInv
<1>3. \A p \in Piece : \A rp \in {None} \cup RespPiece :
        RespInv(d, p, rp) => RespInv(e, p, rp)
  BY <1>1, Zenon DEF RespInv, Grows, RespPiece
<1>4. ASSUME NEW k, TaskInv(d, k) PROVE TaskInv(e, k)
  <2>1. k \in TaskType /\ k.block \in Block
    BY <1>4, Zenon DEF TaskInv, TaskType
  <2>2. k.pc \in {"store", "ub"} => Below(e, k.piece, k.off)
    BY <1>1, <1>4, Zenon DEF TaskInv, BlockPC
  <2>3. k.pc \in {"ub", "resp"} => e[k.piece][k.block] # "none"
    BY <1>4, <2>1, Zenon DEF TaskInv, BlockPC, Grows
  <2>4. k.pc \in {"applied", "victim", "lootexit"} =>
          \A p \in Piece : k.free[p] # None => Below(e, p, k.free[p])
    BY <1>1, <1>4, Zenon DEF TaskInv
  <2> QED BY <1>4, <2>2, <2>3, <2>4, Zenon DEF TaskInv
<1> QED BY <1>2, <1>3, <1>4, Zenon

\* The three ways a step of task t to the local state k treats sync_lock.
LockMove(t, k) ==
    \/ /\ lock' = lock
       /\ k.pc \in Critical <=> task[t].pc \in Critical
       /\ k.pc \in Critical => k.peer = task[t].peer
    \/ /\ lock[k.peer] = None
       /\ lock' = [lock EXCEPT ![k.peer] = t]
       /\ task[t].pc \notin Critical /\ k.pc \in Critical
    \/ /\ lock' = [lock EXCEPT ![task[t].peer] = None]
       /\ task[t].pc \in Critical /\ k.pc \notin Critical

\* A step of one task, with what it needs to know of the new local state.
LEMMA TaskMove ==
    ASSUME IInv, NEW t \in Task, NEW k, task' = [task EXCEPT ![t] = k],
           Grows(disk, disk'), TaskInv(disk', k), LockMove(t, k)
    PROVE  TasksOK' /\ LockOK'
<1> USE DEF IInv
<1>1. k \in TaskType /\ task' \in [Task -> TaskType]
  BY Zenon DEF TaskInv, TasksOK
<1>2. TasksOK'
  <2>1. \A u \in Task : TaskInv(disk', task[u])
    BY GrowsKeeps, Zenon DEF TasksOK
  <2>2. \A u \in Task : TaskInv(disk', task'[u])
    BY <2>1, Zenon DEF TasksOK
  <2> QED BY <1>1, <2>2, Zenon DEF TasksOK
<1>3. LockOK'
  <2>1. /\ k.pc \in Critical => k.peer \in Peer
        /\ task[t].pc \in Critical => task[t].peer \in Peer
    BY Zenon DEF TaskInv, TasksOK, Critical
  <2>2. \A u \in Task : task'[u] = IF u = t THEN k ELSE task[u]
    BY Zenon DEF TasksOK
  <2>3. lock' \in [Peer -> {None} \cup Task]
    BY Zenon DEF LockOK, LockMove
  <2>4. CASE lock' = lock /\ (k.pc \in Critical <=> task[t].pc \in Critical)
             /\ (k.pc \in Critical => k.peer = task[t].peer)
    BY <2>2, <2>3, <2>4 DEF LockOK, LockExclusive
  <2>5. CASE lock[k.peer] = None /\ lock' = [lock EXCEPT ![k.peer] = t]
             /\ task[t].pc \notin Critical /\ k.pc \in Critical
    <3>1. \A r \in Peer : lock'[r] = IF r = k.peer THEN t ELSE lock[r]
      BY <2>1, <2>5, Zenon DEF LockOK
    <3>2. \A u \in Task : u # None
      BY PieceScheduleAssumption, Zenon
    <3> QED BY <2>1, <2>2, <2>3, <2>5, <3>1, <3>2 DEF LockOK, LockExclusive
  <2>6. CASE lock' = [lock EXCEPT ![task[t].peer] = None]
             /\ task[t].pc \in Critical /\ k.pc \notin Critical
    <3>1. \A r \in Peer : lock'[r] = IF r = task[t].peer THEN None ELSE lock[r]
      BY <2>1, <2>6, Zenon DEF LockOK
    <3>2. \A u \in Task : u # None
      BY PieceScheduleAssumption, Zenon
    <3> QED BY <2>1, <2>2, <2>3, <2>6, <3>1, <3>2 DEF LockOK, LockExclusive
  <2> QED BY <2>4, <2>5, <2>6, Zenon DEF LockMove
<1> QED BY <1>2, <1>3, Zenon

\* A step of one task that stores no block and changes no record.
LEMMA Quiet ==
    ASSUME IInv, NEW t \in Task, NEW k, task' = [task EXCEPT ![t] = k],
           TaskInv(disk, k), LockMove(t, k),
           UNCHANGED <<disk, underway, request_pieces, response_pieces>>,
           wire' \in [Peer -> Seq(Request)]
    PROVE  IInv'
<1>1. Grows(disk, disk') /\ TaskInv(disk', k)
  BY Zenon DEF Grows
<1>2. TasksOK' /\ LockOK'
  BY Zenon, <1>1, TaskMove
<1>3. disk' \in DiskType /\ DataOK'
  BY Zenon DEF IInv, DataOK
<1>4. UnderwayOK' /\ ResponseOK'
  BY Zenon DEF IInv, UnderwayOK, ResponseOK
<1> QED BY <1>2, <1>3, <1>4, Zenon DEF IInv

\* The states between handlers, and the plain moves of the program counter.
LEMMA IdleInv == \A d : TaskInv(d, NoTask)
BY PieceScheduleAssumption
   DEF TaskInv, NoTask, TaskType, PC, BlockPC, Offset, Block

PlainPC == {"lock", "find", "loot", "lootlock", "real", "check", "permit", "hash"}

\* A move to one of them keeps the invariant of the local state.
LEMMA PlainMove ==
    ASSUME NEW d, NEW k, TaskInv(d, k), k.pc # "free", NEW pc \in PlainPC,
           pc \in BlockPC => k.piece \in Piece
    PROVE  TaskInv(d, [k EXCEPT !.pc = pc])
<1>1. [k EXCEPT !.pc = pc] \in TaskType
  BY Zenon DEF TaskInv, TaskType, PlainPC, PC
<1>2. [k EXCEPT !.pc = pc].peer = k.peer /\ [k EXCEPT !.pc = pc].piece = k.piece
      /\ [k EXCEPT !.pc = pc].pc = pc
  BY Zenon DEF TaskInv, TaskType
<1> QED BY <1>1, <1>2, Zenon DEF TaskInv, PlainPC

\* Goto as an update of the whole local state.
LEMMA GotoIs ==
    ASSUME IInv, NEW t \in Task, NEW pc, Goto(t, pc)
    PROVE  task' = [task EXCEPT ![t] = [task[t] EXCEPT !.pc = pc]]
BY Zenon DEF Goto

\* Steps that only move a program counter and do not touch the lock.
LEMMA PlainStep ==
    ASSUME IInv, NEW t \in Task, task[t].pc \notin Critical \cup {"free"},
           NEW pc \in PlainPC \ Critical, Goto(t, pc),
           pc \in BlockPC => task[t].piece \in Piece,
           UNCHANGED <<disk, underway, request_pieces, response_pieces, wire, lock>>
    PROVE  IInv'
<1> DEFINE k == [task[t] EXCEPT !.pc = pc]
<1>1. TaskInv(disk, task[t]) /\ task[t] \in TaskType
  BY Zenon DEF IInv, TasksOK
<1>2. TaskInv(disk, k)
  BY <1>1, PlainMove, Zenon
<1>3. task' = [task EXCEPT ![t] = k]
  BY GotoIs, Zenon
<1>4. k.pc = pc
  BY <1>1, Zenon DEF TaskType
<1>5. LockMove(t, k)
  BY <1>4, Zenon DEF LockMove
<1>6. wire' \in [Peer -> Seq(Request)]
  BY Zenon DEF IInv, DataOK
<1> HIDE DEF k
<1> QED BY Zenon, <1>2, <1>3, <1>5, <1>6, Quiet

\* A handler that ends without holding the lock.
LEMMA EndStep ==
    ASSUME IInv, NEW t \in Task, task[t].pc \notin Critical, End(t),
           UNCHANGED <<disk, underway, request_pieces, response_pieces, wire, lock>>
    PROVE  IInv'
<1>1. task' = [task EXCEPT ![t] = NoTask]
  BY Zenon DEF End
<1>2. LockMove(t, NoTask)
  BY Zenon DEF LockMove, NoTask, Critical
<1>3. wire' \in [Peer -> Seq(Request)]
  BY Zenon DEF IInv, DataOK
<1> QED BY Zenon, <1>1, <1>2, <1>3, IdleInv, Quiet

\* The end of request_piece, for a task that does not hold the lock.
LEMMA RequestDoneStep ==
    ASSUME IInv, NEW t \in Task, task[t].pc \notin Critical \cup {"free"},
           task' = RequestDone(t),
           UNCHANGED <<disk, underway, request_pieces, response_pieces, wire, lock>>
    PROVE  IInv'
<1>1. CASE IsBlockTask(t)
  <2>1. Goto(t, "real")
    BY <1>1, Zenon DEF RequestDone, Goto
  <2>2. task[t].piece \in Piece
    BY <1>1, Zenon DEF IInv, TasksOK, TaskType, IsBlockTask
  <2> QED BY <2>1, <2>2, PlainStep, Zenon DEF PlainPC, Critical
<1>2. CASE ~IsBlockTask(t)
  BY Zenon, <1>2, EndStep DEF RequestDone, End
<1> QED BY <1>1, <1>2, Zenon

\* A task releases the lock.
LEMMA UnlockedInv ==
    ASSUME IInv, NEW t \in Task, task[t].pc \in Critical, NEW k,
           TaskInv(disk, k), k.pc \notin Critical, task' = [task EXCEPT ![t] = k],
           Unlock(t),
           UNCHANGED <<disk, underway, request_pieces, response_pieces>>,
           wire' \in [Peer -> Seq(Request)]
    PROVE  IInv'
<1>1. LockMove(t, k)
  BY Zenon DEF LockMove, Unlock, Me
<1> QED BY Zenon, <1>1, Quiet

\* The local state after request_piece.
LEMMA RequestDoneInv ==
    ASSUME IInv, NEW t \in Task, task[t].pc # "free"
    PROVE  \E k : /\ RequestDone(t) = [task EXCEPT ![t] = k]
                  /\ k.pc \in {"real", "free"} /\ TaskInv(disk, k)
<1>1. TaskInv(disk, task[t]) /\ task[t] \in TaskType
  BY Zenon DEF IInv, TasksOK
<1>2. CASE IsBlockTask(t)
  <2> DEFINE k == [task[t] EXCEPT !.pc = "real"]
  <2>1. RequestDone(t) = [task EXCEPT ![t] = k]
    BY <1>2, Zenon DEF RequestDone
  <2>2. task[t].piece \in Piece
    BY <1>1, <1>2, Zenon DEF IsBlockTask, TaskType
  <2>3. TaskInv(disk, k)
    BY Zenon, <1>1, <2>2, PlainMove DEF PlainPC
  <2>4. k.pc = "real"
    BY <1>1, Zenon DEF TaskType
  <2> QED BY Zenon, <2>1, <2>3, <2>4
<1>3. CASE ~IsBlockTask(t)
  <2>1. RequestDone(t) = [task EXCEPT ![t] = NoTask] /\ NoTask.pc = "free"
    BY <1>3, Zenon DEF RequestDone, NoTask
  <2> QED BY Zenon, <2>1, IdleInv
<1> QED BY <1>2, <1>3, Zenon

-----------------------------------------------------------------------------
(* Messages and the end of a peer *)

\* Steps of the environment that leave every record and task alone.
LEMMA StutterStep ==
    ASSUME IInv, wire' \in [Peer -> Seq(Request)],
           UNCHANGED <<disk, underway, request_pieces, response_pieces, task, lock>>
    PROVE  IInv'
<1>1. disk' \in DiskType /\ DataOK'
  BY Zenon DEF IInv, DataOK
<1>2. UnderwayOK' /\ ResponseOK'
  BY Zenon DEF IInv, UnderwayOK, ResponseOK
<1>3. TasksOK'
  BY Zenon DEF IInv, TasksOK
<1>4. LockOK'
  BY Zenon DEF IInv, LockOK, LockExclusive
<1> QED BY <1>1, <1>2, <1>3, <1>4, Zenon DEF IInv

\* A connection that is gone has no requests left.
LEMMA WireCleared ==
    ASSUME IInv, NEW r \in Peer, wire' = [wire EXCEPT ![r] = <<>>]
    PROVE  wire' \in [Peer -> Seq(Request)]
BY DEF IInv, DataOK

\* A message starts request_piece in a task of its own.
LEMMA EnterKeeps ==
    ASSUME IInv, NEW t \in Task, NEW r \in Peer, NEW un, NEW bf,
           task[t].pc = "free", EnterRequest(t, r, un, bf),
           UNCHANGED <<disk, underway, request_pieces, response_pieces, wire, lock>>
    PROVE  IInv'
<1>1. CASE life[r] = "live" /\ un /\ bf
  <2> DEFINE k == [NoTask EXCEPT !.pc = "lock", !.peer = r]
  <2>1. task' = [task EXCEPT ![t] = k]
    BY <1>1, Zenon DEF EnterRequest
  <2>2. NoTask \in TaskType
    BY IdleInv, Zenon DEF TaskInv
  <2>3. k \in TaskType /\ k.pc = "lock" /\ k.peer = r
    BY Zenon, <2>2 DEF TaskType, PC
  <2> HIDE DEF k
  <2>6. TaskInv(disk, k)
    BY <2>3, Zenon DEF TaskInv, BlockPC
  <2>4. LockMove(t, k)
    BY <2>3, Zenon DEF LockMove, Critical
  <2>5. wire' \in [Peer -> Seq(Request)]
    BY Zenon DEF IInv, DataOK
  <2> QED BY Zenon, <2>1, <2>4, <2>5, <2>6, Quiet
<1>2. CASE ~(life[r] = "live" /\ un /\ bf)
  <2>1. End(t)
    BY Zenon, <1>2 DEF EnterRequest, End
  <2> QED BY <2>1, EndStep, Zenon DEF Critical
<1> QED BY <1>1, <1>2, Zenon

\* A block arrives.
LEMMA ReceiveKeeps ==
    ASSUME IInv, NEW t \in Task, NEW r \in Peer, NEW good \in BOOLEAN,
           ReceiveBlock(t, r, good)
    PROVE  IInv'
<1> DEFINE m == Head(wire[r])
           k == [NoTask EXCEPT !.pc = "spawned", !.peer = r, !.good = good,
                               !.piece = m.piece, !.block = m.block]
<1>1. wire[r] \in Seq(Request) /\ wire[r] # <<>> /\ m.block \in Block
  BY Zenon DEF IInv, DataOK, ReceiveBlock
<1>2. m \in Request
  BY <1>1
<1>3. task' = [task EXCEPT ![t] = k]
  BY Zenon DEF ReceiveBlock
<1>5. m.piece \in Piece
  BY <1>2, Zenon DEF Request
<1>6. wire' \in [Peer -> Seq(Request)]
  BY <1>1 DEF IInv, DataOK, ReceiveBlock
<1>9. NoTask \in TaskType
  BY IdleInv, Zenon DEF TaskInv
<1> HIDE DEF m
<1>4. k \in TaskType /\ k.pc = "spawned" /\ k.peer = r /\ k.piece = m.piece
  BY Zenon, <1>1, <1>5, <1>9 DEF TaskType, PC
<1> HIDE DEF k
<1>7. TaskInv(disk, k)
  BY <1>4, <1>5, Zenon DEF TaskInv, BlockPC
<1>8. LockMove(t, k)
  BY <1>4, Zenon DEF LockMove, Critical, ReceiveBlock
<1> QED BY Zenon, <1>3, <1>6, <1>7, <1>8, Quiet DEF ReceiveBlock, pieceVars, records

\* The pieces of a peer that exits are paused where they are.
LEMMA ReturnKeeps ==
    ASSUME IInv, NEW r \in Peer, ReturnPieces(r)
    PROVE  IInv'
<1>1. \A p \in Piece :
        \/ underway'[p] = underway[p]
        \/ underway[p] # None /\ underway'[p] = Pause(underway[p])
  BY Zenon DEF ReturnPieces
<1>2. \A s \in Status : Pause(s) \in Status /\ Pause(s).off = s.off
  BY Zenon DEF Pause, Status
<1>3. underway' \in [Piece -> {None} \cup Status]
  <2>1. underway' = [p \in Piece |->
                      IF response_pieces[r][p] # None /\ underway[p] # None
                      THEN Pause(underway[p]) ELSE underway[p]]
    BY Zenon DEF ReturnPieces
  <2> QED BY <1>2, <2>1, Zenon DEF IInv, UnderwayOK
<1>4. \A p \in Piece : StatusInv(disk, p, underway'[p])
  <2> SUFFICES ASSUME NEW p \in Piece PROVE StatusInv(disk, p, underway'[p])
    BY Zenon
  <2>1. underway[p] \in {None} \cup Status /\ StatusInv(disk, p, underway[p])
    BY Zenon DEF IInv, UnderwayOK
  <2>2. CASE underway'[p] = underway[p]
    BY <2>1, <2>2, Zenon
  <2>3. CASE underway[p] # None /\ underway'[p] = Pause(underway[p])
    BY <1>2, <2>1, <2>3, Zenon DEF StatusInv
  <2> QED BY <1>1, <2>2, <2>3, Zenon
<1>5. UNCHANGED <<disk, records, wire, lock, task>>
  BY Zenon DEF ReturnPieces
<1>6. UnderwayOK'
  BY <1>3, <1>4, <1>5, Zenon DEF UnderwayOK
<1>7. disk' \in DiskType /\ DataOK' /\ ResponseOK'
  BY <1>5, Zenon DEF IInv, DataOK, ResponseOK, records
<1>8. TasksOK' /\ LockOK'
  BY <1>5, Zenon DEF IInv, TasksOK, LockOK, LockExclusive
<1> QED BY <1>6, <1>7, <1>8, Zenon DEF IInv

\* A dropped task releases its guard.
LEMMA DropKeeps ==
    ASSUME IInv, NEW t \in Task, DropTask(t)
    PROVE  IInv'
<1> USE DEF DropTask, pieceVars, records
<1>1. task' = [task EXCEPT ![t] = NoTask] /\ task[t].peer \in Peer
  BY Zenon DEF End, IInv, TasksOK, TaskInv
<1>2. lock[task[t].peer] = t <=> task[t].pc \in Critical
  BY <1>1 DEF IInv, LockOK, LockExclusive
<1>3. NoTask.pc \notin Critical
  BY Zenon DEF NoTask, Critical
<1>4. LockMove(t, NoTask)
  BY <1>2, <1>3, Zenon DEF ReleaseGuard, LockMove, Unlock, Me
<1>5. wire' \in [Peer -> Seq(Request)]
  BY Zenon DEF IInv, DataOK
<1> QED BY Zenon, <1>1, <1>4, <1>5, IdleInv, Quiet

-----------------------------------------------------------------------------
(* Steps that change the records of a peer *)

RespOK(d, rs) ==
    /\ rs \in [Piece -> {None} \cup RespPiece]
    /\ \A p \in Piece : RespInv(d, p, rs[p])

RequestType == [Piece -> {None} \cup Nat]
FreeType == [Piece -> {None} \cup Offset]
FreeOK(d, f) ==
    /\ f \in FreeType
    /\ \A p \in Piece : f[p] # None => Below(d, p, f[p])

\* A fresh record claims nothing but the blocks below its offset.
LEMMA NewPieceInv ==
    ASSUME NEW d, NEW p, NEW o \in Offset, Below(d, p, o)
    PROVE  NewPiece(o) \in RespPiece /\ RespInv(d, p, NewPiece(o))
BY Zenon DEF NewPiece, RespPiece, RespInv

\* reset_request_piece_origin keeps the records sound when the new origin is.
LEMMA ResetSound ==
    ASSUME NEW d, NEW rq \in RequestType, NEW rs, RespOK(d, rs),
           NEW f, FreeOK(d, f)
    PROVE  /\ RespOK(d, ResetResponse(rq, rs, f))
           /\ ResetRequest(rq, f) \in RequestType
<1>1. \A p \in Piece : f[p] # None =>
        NewPiece(f[p]) \in RespPiece /\ RespInv(d, p, NewPiece(f[p]))
  BY NewPieceInv, Zenon DEF FreeOK, FreeType
<1>2. \A p \in Piece : ResetResponse(rq, rs, f)[p] =
        IF Resets(rq, f, p) THEN NewPiece(f[p]) ELSE rs[p]
  BY Zenon DEF ResetResponse
<1>3. \A p \in Piece : Resets(rq, f, p) => f[p] # None
  BY Zenon DEF Resets
<1>4. ResetResponse(rq, rs, f) \in [Piece -> {None} \cup RespPiece]
  BY <1>1, <1>3, Zenon DEF ResetResponse, RespOK
<1>5. \A p \in Piece : RespInv(d, p, ResetResponse(rq, rs, f)[p])
  BY <1>1, <1>2, <1>3, Zenon DEF RespOK
<1>6. ResetRequest(rq, f) \in RequestType
  BY <1>3, PieceScheduleAssumption
     DEF ResetRequest, RequestType, FreeOK, FreeType, Offset
<1> QED BY <1>4, <1>5, <1>6, Zenon DEF RespOK

\* A step of one task that also rewrites the records of one peer.
LEMMA RecordStep ==
    ASSUME IInv, NEW t \in Task, NEW k, task' = [task EXCEPT ![t] = k],
           TaskInv(disk, k), LockMove(t, k), NEW r \in Peer,
           NEW rq \in RequestType, NEW rs, RespOK(disk, rs),
           request_pieces' = [request_pieces EXCEPT ![r] = rq],
           response_pieces' = [response_pieces EXCEPT ![r] = rs],
           UNCHANGED <<disk, underway>>, wire' \in [Peer -> Seq(Request)]
    PROVE  IInv'
<1>1. Grows(disk, disk') /\ TaskInv(disk', k)
  BY Zenon DEF Grows
<1>2. TasksOK' /\ LockOK'
  BY Zenon, <1>1, TaskMove
<1>3. disk' \in DiskType /\ DataOK'
  BY Zenon DEF IInv, DataOK, RequestType
<1>4. UnderwayOK'
  BY Zenon DEF IInv, UnderwayOK
<1>5. ResponseOK'
  <2>1. response_pieces' \in [Peer -> [Piece -> {None} \cup RespPiece]]
    BY Zenon DEF IInv, ResponseOK, RespOK
  <2>2. \A q \in Peer : response_pieces'[q] = IF q = r THEN rs ELSE response_pieces[q]
    BY Zenon DEF IInv, ResponseOK
  <2>3. \A q \in Peer, p \in Piece : RespInv(disk, p, response_pieces'[q][p])
    BY <2>2, Zenon DEF IInv, ResponseOK, RespOK
  <2> QED BY <2>1, <2>3, Zenon DEF ResponseOK
<1> QED BY <1>2, <1>3, <1>4, <1>5, Zenon DEF IInv

\* The records of a peer satisfy what the lemmas above ask for.
LEMMA RecordsTyped ==
    ASSUME IInv, NEW r \in Peer
    PROVE  /\ request_pieces[r] \in RequestType
           /\ RespOK(disk, response_pieces[r])
BY Zenon DEF IInv, DataOK, ResponseOK, RespOK, RequestType

\* Peer::request_piece: a live peer sends, a dead one ends the handler.
LEMMA SendMoves ==
    ASSUME IInv, NEW t \in Task, task[t].pc \in {"find", "applied"},
           NEW p \in Piece, NEW b \in Nat, SendRequest(t, p, b)
    PROVE  /\ wire' \in [Peer -> Seq(Request)]
           /\ \E k : /\ task' = [task EXCEPT ![t] = k]
                     /\ TaskInv(disk, k) /\ LockMove(t, k)
<1>1. TaskInv(disk, task[t]) /\ task[t] \in TaskType
  BY Zenon DEF IInv, TasksOK
<1>2. task[t].peer \in Peer
  BY <1>1, Zenon DEF TaskInv
<1>3. CASE life[Me(t)] = "live"
  <2> DEFINE k == [task[t] EXCEPT !.pc = "find"]
  <2>1. Goto(t, "find")
    BY <1>3, Zenon DEF SendRequest
  <2>2. task' = [task EXCEPT ![t] = k]
    BY <2>1, GotoIs, Zenon
  <2>3. TaskInv(disk, k)
    BY Zenon, <1>1, PlainMove DEF PlainPC, BlockPC
  <2>4. k.pc = "find" /\ k.peer = task[t].peer
    BY <1>1, Zenon DEF TaskType
  <2>5. lock' = lock
    BY <1>3, Zenon DEF SendRequest
  <2>6. LockMove(t, k)
    BY <2>4, <2>5, Zenon DEF LockMove, Critical
  <2>7. wire' = [wire EXCEPT ![task[t].peer] = Append(@, [piece |-> p, block |-> b])]
    BY <1>3, Zenon DEF SendRequest, Me
  <2>8. [piece |-> p, block |-> b] \in Request
    BY Zenon DEF Request
  <2>9. wire' \in [Peer -> Seq(Request)]
    BY <1>2, <2>7, <2>8 DEF IInv, DataOK
  <2> HIDE DEF k
  <2> QED BY Zenon, <2>2, <2>3, <2>6, <2>9
<1>4. CASE life[Me(t)] # "live"
  <2>1. /\ task' = [task EXCEPT ![t] = NoTask] /\ wire' = wire
        /\ lock' = [lock EXCEPT ![task[t].peer] = None]
    BY <1>4, Zenon DEF SendRequest, End, Unlock, Me
  <2>2. LockMove(t, NoTask)
    BY <2>1, Zenon DEF LockMove, NoTask, Critical
  <2>3. wire' \in [Peer -> Seq(Request)]
    BY <2>1, Zenon DEF IInv, DataOK
  <2> QED BY Zenon, <2>1, <2>2, <2>3, IdleInv
<1> QED BY <1>3, <1>4, Zenon

-----------------------------------------------------------------------------
(* request_piece *)

\* A task takes the lock.
LEMMA LockTaken ==
    ASSUME IInv, NEW t \in Task, task[t].pc \in {"lock", "lootlock"},
           lock[Me(t)] = None, lock' = [lock EXCEPT ![Me(t)] = t],
           NEW k, task' = [task EXCEPT ![t] = k], TaskInv(disk, k),
           k.pc \in Critical, k.peer = task[t].peer,
           UNCHANGED <<disk, underway, request_pieces, response_pieces, wire>>
    PROVE  IInv'
<1>1. LockMove(t, k)
  BY Zenon DEF LockMove, Critical, Me
<1>2. wire' \in [Peer -> Seq(Request)]
  BY Zenon DEF IInv, DataOK
<1> QED BY Zenon, <1>1, <1>2, Quiet

\* request_piece takes the lock of its peer.
LEMMA AcquireKeeps ==
    ASSUME IInv, NEW t \in Task, AcquireLock(t)
    PROVE  IInv'
<1> DEFINE k == [task[t] EXCEPT !.pc = "find"]
<1>1. TaskInv(disk, task[t]) /\ task[t] \in TaskType
  BY Zenon DEF IInv, TasksOK
<1>2. task' = [task EXCEPT ![t] = k]
  BY GotoIs, Zenon DEF AcquireLock
<1>3. TaskInv(disk, k)
  BY Zenon, <1>1, PlainMove DEF PlainPC, BlockPC, AcquireLock
<1>4. k.pc \in Critical /\ k.peer = task[t].peer
  BY <1>1, Zenon DEF TaskType, Critical
<1> HIDE DEF k
<1> QED BY Zenon, <1>2, <1>3, <1>4, LockTaken DEF AcquireLock, pieceVars, records

\* request_piece returns, and the guard is dropped, when the window is full.
LEMMA WindowFullKeeps ==
    ASSUME IInv, NEW t \in Task, WindowFull(t)
    PROVE  IInv'
<1>1. PICK k : /\ RequestDone(t) = [task EXCEPT ![t] = k]
               /\ k.pc \in {"real", "free"} /\ TaskInv(disk, k)
  BY RequestDoneInv, Zenon DEF WindowFull
<1>2. wire' \in [Peer -> Seq(Request)]
  BY Zenon DEF WindowFull, IInv, DataOK
<1> QED BY Zenon, <1>1, <1>2, UnlockedInv DEF WindowFull, pieceVars, records, Critical

\* The next block of a piece of the peer is requested.
LEMMA FindUnrequestedKeeps ==
    ASSUME IInv, NEW t \in Task, NEW p \in Piece, FindUnrequested(t, p)
    PROVE  IInv'
<1> DEFINE r == Me(t)
           b == request_pieces[r][p]
           rq == [request_pieces[r] EXCEPT ![p] = IF b + 1 >= Blocks THEN None ELSE b + 1]
<1>1. task[t].pc = "find" /\ r \in Peer
  BY Zenon DEF FindUnrequested, Finding, IInv, TasksOK, TaskInv, Me
<1>2. b \in Nat
  BY <1>1, Zenon DEF FindUnrequested, Unrequested, IInv, DataOK
<1>3. rq \in RequestType /\ RespOK(disk, response_pieces[r])
  BY <1>1, <1>2, RecordsTyped DEF RequestType
<1>4. SendRequest(t, p, b)
  BY Zenon DEF FindUnrequested
<1>5. request_pieces' = [request_pieces EXCEPT ![r] = rq]
  BY Zenon DEF FindUnrequested
<1>6. response_pieces' = [response_pieces EXCEPT ![r] = response_pieces[r]]
  BY <1>1, Zenon DEF FindUnrequested, IInv, ResponseOK
<1> HIDE DEF r, b, rq
<1>7. wire' \in [Peer -> Seq(Request)]
  BY <1>1, <1>2, <1>4, SendMoves, Zenon
<1>8. PICK k : task' = [task EXCEPT ![t] = k] /\ TaskInv(disk, k) /\ LockMove(t, k)
  BY <1>1, <1>2, <1>4, SendMoves, Zenon
<1>9. UNCHANGED <<disk, underway>>
  BY Zenon DEF FindUnrequested, pieceVars
<1> QED BY Zenon, <1>1, <1>3, <1>5, <1>6, <1>7, <1>8, <1>9, RecordStep

\* apply_download_piece hands on the offset of underway_bytefield.
LEMMA ApplyKeeps ==
    ASSUME IInv, NEW t \in Task, NEW p \in Piece, ApplyDownloadPiece(t, p)
    PROVE  IInv'
<1> DEFINE o == IF underway[p] = None THEN 0 ELSE underway[p].off
           f == At(p, o)
           k == [task[t] EXCEPT !.pc = "applied", !.free = f]
<1>1. TaskInv(disk, task[t]) /\ task[t] \in TaskType
      /\ task[t].pc = "find" /\ task[t].peer \in Peer
  BY Zenon DEF ApplyDownloadPiece, Finding, IInv, TasksOK, TaskInv
<1>2. o \in Offset /\ Below(disk, p, o)
  <2>1. CASE underway[p] = None
    BY <2>1, PieceScheduleAssumption DEF Offset, Below, Block
  <2>2. CASE underway[p] # None
    BY <2>2, Zenon DEF IInv, UnderwayOK, StatusInv, Status
  <2> QED BY <2>1, <2>2, Zenon
<1>3. underway' = [underway EXCEPT ![p] = [st |-> "Ing", off |-> o]]
  BY Zenon DEF ApplyDownloadPiece
<1>4. task' = [task EXCEPT ![t] = k]
  BY Zenon DEF ApplyDownloadPiece
<1> HIDE DEF o
<1>5. o # None
  BY <1>2, PieceScheduleAssumption DEF Offset
<1>6. f \in FreeType /\ f[p] = o /\ \A q \in Piece \ {p} : f[q] = None
  BY <1>2, Zenon DEF At, NoRecord, FreeType
<1> HIDE DEF f
<1>7. k \in TaskType /\ k.pc = "applied" /\ k.peer = task[t].peer /\ k.free = f
  BY Zenon, <1>1, <1>6 DEF TaskType, PC, FreeType
<1> HIDE DEF k
<1>8. \A q \in Piece : f[q] # None => Below(disk, q, f[q])
  BY <1>2, <1>6, Zenon
<1>9. TaskInv(disk, k)
  BY <1>1, <1>5, <1>6, <1>7, <1>8, Zenon DEF TaskInv, BlockPC
<1>10. UNCHANGED <<disk, records, wire, lock>>
  BY Zenon DEF ApplyDownloadPiece
<1>11. LockMove(t, k)
  BY <1>1, <1>7, <1>10, Zenon DEF LockMove, Critical
<1>12. TasksOK' /\ LockOK'
  <2>1. Grows(disk, disk') /\ TaskInv(disk', k)
    BY <1>9, <1>10, Zenon DEF Grows
  <2> QED BY Zenon, <1>4, <1>11, <2>1, TaskMove
<1>13. UnderwayOK'
  <2>1. [st |-> "Ing", off |-> o] \in Status
    BY <1>2, Zenon DEF Status
  <2>2. underway' \in [Piece -> {None} \cup Status]
    BY <1>3, <2>1, Zenon DEF IInv, UnderwayOK
  <2>3. StatusInv(disk, p, [st |-> "Ing", off |-> o])
    BY <1>2, Zenon DEF StatusInv
  <2>4. \A q \in Piece : StatusInv(disk, q, underway'[q])
    BY <1>3, <2>3, Zenon DEF IInv, UnderwayOK
  <2> QED BY <1>10, <2>2, <2>4, Zenon DEF UnderwayOK
<1>14. disk' \in DiskType /\ DataOK' /\ ResponseOK'
  BY <1>10, Zenon DEF IInv, DataOK, ResponseOK, records
<1> QED BY <1>12, <1>13, <1>14, Zenon DEF IInv

\* The piece applied for enters the records at the offset it was granted at.
LEMMA RecordAppliedKeeps ==
    ASSUME IInv, NEW t \in Task, RecordApplied(t)
    PROVE  IInv'
<1> DEFINE r == Me(t)
           f == task[t].free
           p == CHOOSE q \in Piece : f[q] # None
           rq == ResetRequest(request_pieces[r], f)
           rs == ResetResponse(request_pieces[r], response_pieces[r], f)
<1>1. task[t].pc = "applied" /\ TaskInv(disk, task[t]) /\ task[t] \in TaskType
  BY Zenon DEF RecordApplied, IInv, TasksOK
<1>2. r \in Peer /\ FreeOK(disk, f) /\ \E q \in Piece : f[q] # None
  BY <1>1, Zenon DEF TaskInv, TaskType, FreeOK, FreeType, Me
<1>3. p \in Piece /\ f[p] # None
  BY <1>2, Zenon
<1>4. f[p] \in Nat
  <2> HIDE DEF f, p
  <2>1. f[p] \in {None} \cup Offset
    BY <1>2, <1>3, Zenon DEF FreeOK, FreeType
  <2> QED BY <1>3, <2>1, PieceScheduleAssumption DEF Offset
<1>5. rq \in RequestType /\ RespOK(disk, rs)
  BY <1>2, RecordsTyped, ResetSound, Zenon
<1>6. rq[p] \in Nat
  <2>1. rq[p] = IF Resets(request_pieces[r], f, p) THEN f[p]
                ELSE request_pieces[r][p]
    BY <1>3, Zenon DEF ResetRequest
  <2>2. CASE Resets(request_pieces[r], f, p)
    BY <1>4, <2>1, <2>2, Zenon
  <2>3. CASE ~Resets(request_pieces[r], f, p)
    <3>1. request_pieces[r][p] # None
      BY <1>3, <2>3, Zenon DEF Resets
    <3>2. request_pieces[r][p] \in {None} \cup Nat
      BY <1>2, <1>3, RecordsTyped, Zenon DEF RequestType
    <3> QED BY Zenon, <2>1, <2>3, <3>1, <3>2
  <2> QED BY <2>2, <2>3, Zenon
<1>7. /\ request_pieces' = [request_pieces EXCEPT ![r] = [rq EXCEPT ![p] = @ + 1]]
      /\ response_pieces' = [response_pieces EXCEPT ![r] = rs]
      /\ SendRequest(t, p, f[p])
      /\ UNCHANGED <<disk, underway>>
  BY Zenon DEF RecordApplied, pieceVars
<1> HIDE DEF r, f, p, rq, rs
<1>8. [rq EXCEPT ![p] = @ + 1] \in RequestType
  BY <1>3, <1>5, <1>6 DEF RequestType
<1>9. wire' \in [Peer -> Seq(Request)]
  BY <1>1, <1>3, <1>4, <1>7, SendMoves, Zenon
<1>10. PICK k : task' = [task EXCEPT ![t] = k] /\ TaskInv(disk, k) /\ LockMove(t, k)
  BY <1>1, <1>3, <1>4, <1>7, SendMoves, Zenon
<1> DEFINE rq2 == [rq EXCEPT ![p] = @ + 1]
<1>11. rq2 \in RequestType /\ request_pieces' = [request_pieces EXCEPT ![r] = rq2]
  BY <1>7, <1>8, Zenon
<1> HIDE DEF rq2
<1> QED BY Zenon, <1>2, <1>5, <1>7, <1>9, <1>10, <1>11, RecordStep

\* Lost responses are requested again from the offset of the response record.
LEMMA ResetLostKeeps ==
    ASSUME IInv, NEW t \in Task, ResetLost(t)
    PROVE  IInv'
<1> DEFINE r == Me(t)
           f == [p \in Piece |-> IF response_pieces[r][p] = None THEN None
                                 ELSE response_pieces[r][p].off]
           rq == ResetRequest(request_pieces[r], f)
           rs == ResetResponse(request_pieces[r], response_pieces[r], f)
<1>1. task[t].pc = "find" /\ TaskInv(disk, task[t]) /\ r \in Peer
  BY Zenon DEF ResetLost, NothingToFind, Finding, IInv, TasksOK, TaskInv, Me
<1>2. FreeOK(disk, f)
  <2>1. \A p \in Piece : response_pieces[r][p] # None =>
          /\ response_pieces[r][p].off \in Offset
          /\ Below(disk, p, response_pieces[r][p].off)
    BY <1>1, Zenon DEF IInv, ResponseOK, RespInv, RespPiece
  <2> QED BY <2>1, Zenon DEF FreeOK, FreeType
<1>3. rq \in RequestType /\ RespOK(disk, rs)
  <2> HIDE DEF f
  <2> QED BY <1>1, <1>2, RecordsTyped, ResetSound, Zenon
<1>4. /\ request_pieces' = [request_pieces EXCEPT ![r] = rq]
      /\ response_pieces' = [response_pieces EXCEPT ![r] = rs]
      /\ UNCHANGED <<disk, underway, wire, lock, task>>
  BY Zenon DEF ResetLost, pieceVars
<1> HIDE DEF r, f, rq, rs
<1>5. task' = [task EXCEPT ![t] = task[t]]
  BY <1>4, Zenon DEF IInv, TasksOK
<1>6. LockMove(t, task[t])
  BY <1>4, Zenon DEF LockMove
<1>7. wire' \in [Peer -> Seq(Request)]
  BY <1>4, Zenon DEF IInv, DataOK
<1> QED BY Zenon, <1>1, <1>3, <1>4, <1>5, <1>6, <1>7, RecordStep

\* The guard is dropped before try_loot_slow_peer.
LEMMA FindNothingKeeps ==
    ASSUME IInv, NEW t \in Task, FindNothing(t)
    PROVE  IInv'
<1> DEFINE k == [task[t] EXCEPT !.pc = "loot"]
<1>1. task[t].pc = "find" /\ TaskInv(disk, task[t]) /\ task[t] \in TaskType
  BY Zenon DEF FindNothing, NothingToFind, Finding, IInv, TasksOK
<1>2. task' = [task EXCEPT ![t] = k]
  BY GotoIs, Zenon DEF FindNothing
<1>3. TaskInv(disk, k)
  BY Zenon, <1>1, PlainMove DEF PlainPC, BlockPC
<1>4. k.pc \notin Critical
  BY <1>1, Zenon DEF TaskType, Critical
<1>5. wire' \in [Peer -> Seq(Request)]
  BY Zenon DEF FindNothing, IInv, DataOK
<1> HIDE DEF k
<1> QED BY Zenon, <1>1, <1>2, <1>3, <1>4, <1>5, UnlockedInv
        DEF FindNothing, pieceVars, records, Critical

-----------------------------------------------------------------------------
(* Looting *)

\* try_free_slow_piece takes the lock of the looter.
LEMMA LootLockKeeps ==
    ASSUME IInv, NEW t \in Task, LootLock(t)
    PROVE  IInv'
<1> DEFINE vs == {r \in Peer \ {Me(t)} : life[r] = "live"}
           k == [task[t] EXCEPT !.pc = "victim", !.free = NoRecord, !.victims = vs]
<1>1. TaskInv(disk, task[t]) /\ task[t] \in TaskType
  BY Zenon DEF IInv, TasksOK
<1>2. task' = [task EXCEPT ![t] = k]
  BY Zenon DEF LootLock
<1>3. NoRecord \in FreeType /\ \A p \in Piece : NoRecord[p] = None
  BY Zenon DEF NoRecord, FreeType
<1>4. vs \in SUBSET Peer
  BY Zenon
<1> HIDE DEF vs
<1>5. k \in TaskType /\ k.pc = "victim" /\ k.peer = task[t].peer /\ k.free = NoRecord
  BY Zenon, <1>1, <1>3, <1>4 DEF TaskType, PC, FreeType
<1> HIDE DEF k
<1>6. TaskInv(disk, k)
  BY <1>1, <1>3, <1>5, Zenon DEF TaskInv, BlockPC, LootLock
<1> QED BY Zenon, <1>2, <1>5, <1>6, LockTaken DEF LootLock, pieceVars, records, Critical

\* The records of a victim without the pieces of a set.
LEMMA StripSound ==
    ASSUME IInv, NEW v \in Peer, NEW S \in SUBSET Piece
    PROVE  /\ RespOK(disk, [p \in Piece |-> IF p \in S THEN None
                                            ELSE response_pieces[v][p]])
           /\ [p \in Piece |-> IF p \in S THEN None ELSE request_pieces[v][p]]
                \in RequestType
<1>1. RespInv(disk, None, None) /\ \A p : RespInv(disk, p, None)
  BY Zenon DEF RespInv
<1> QED BY <1>1, RecordsTyped, Zenon DEF RespOK, RequestType

\* The offsets a looter takes are those of underway_bytefield.
LEMMA LootVictimKeeps ==
    ASSUME IInv, NEW t \in Task, NEW v \in Peer, LootVictim(t, v)
    PROVE  IInv'
<1> DEFINE f == Loot(t, v)
           S == {p \in Piece : f[p] # None}
           rest == [p \in Piece |-> IF f[p] # None THEN None ELSE response_pieces[v][p]]
           rq == [p \in Piece |-> IF f[p] # None THEN None ELSE request_pieces[v][p]]
           pc == IF ~has_transfer_data(v, rest) /\ life[v] = "live"
                 THEN "lootexit" ELSE "victim"
           k == [task[t] EXCEPT !.free = f, !.victims = @ \ {v}, !.exit = v, !.pc = pc]
<1>1. TaskInv(disk, task[t]) /\ task[t] \in TaskType /\ task[t].pc = "victim"
  BY Zenon DEF LootVictim, IInv, TasksOK
<1>2. FreeOK(disk, f)
  <2>1. f = [p \in Piece |-> IF p \in op_bitfield[Me(t)] /\ response_pieces[v][p] # None
                             THEN underway[p].off ELSE None]
    BY Zenon DEF Loot
  <2>2. \A p \in Piece : p \in op_bitfield[Me(t)] /\ response_pieces[v][p] # None
          => underway[p] # None
    BY Zenon DEF LootVictim, LootPanics
  <2>3. \A p \in Piece : underway[p] # None =>
          underway[p].off \in Offset /\ Below(disk, p, underway[p].off)
    BY Zenon DEF IInv, UnderwayOK, StatusInv, Status
  <2> HIDE DEF f
  <2> QED BY <2>1, <2>2, <2>3, Zenon DEF FreeOK, FreeType
<1>3. /\ task' = [task EXCEPT ![t] = k]
      /\ response_pieces' = [response_pieces EXCEPT ![v] = rest]
      /\ request_pieces' = [request_pieces EXCEPT ![v] = rq]
      /\ UNCHANGED <<disk, underway, lock>>
  BY Zenon DEF LootVictim, pieceVars
<1>4. wire' \in [Peer -> Seq(Request)]
  <2>1. wire' = wire \/ wire' = [wire EXCEPT ![v] = <<>>]
    BY Zenon DEF LootVictim, TakePeer
  <2> QED BY <2>1, WireCleared, Zenon DEF IInv, DataOK
<1>5. pc \in {"lootexit", "victim"}
  BY Zenon
<1> HIDE DEF f, pc
<1>6. RespOK(disk, rest) /\ rq \in RequestType
  <2>1. /\ rest = [p \in Piece |-> IF p \in S THEN None ELSE response_pieces[v][p]]
        /\ rq = [p \in Piece |-> IF p \in S THEN None ELSE request_pieces[v][p]]
    BY Zenon
  <2>2. S \in SUBSET Piece
    BY Zenon
  <2> HIDE DEF S, rest, rq
  <2> QED BY <2>1, <2>2, StripSound, Zenon
<1>7. k \in TaskType /\ k.pc = pc /\ k.peer = task[t].peer /\ k.free = f
  BY Zenon, <1>1, <1>2, <1>5 DEF TaskType, PC, FreeOK, FreeType
<1> HIDE DEF rest, rq, k
<1>8. TaskInv(disk, k)
  BY Zenon, <1>1, <1>2, <1>5, <1>7 DEF TaskInv, BlockPC, FreeOK
<1>9. LockMove(t, k)
  BY Zenon, <1>1, <1>3, <1>5, <1>7 DEF LockMove, Critical
<1> QED BY Zenon, <1>3, <1>4, <1>6, <1>8, <1>9, RecordStep

\* The wire after peer_exit, or without it.
LEMMA TakeWire ==
    ASSUME IInv, NEW r \in Peer, wire' = wire \/ wire' = [wire EXCEPT ![r] = <<>>]
    PROVE  wire' \in [Peer -> Seq(Request)]
BY WireCleared, Zenon DEF IInv, DataOK

\* A panic drops the guard and loses only what was already removed.
LEMMA LootPanicKeeps ==
    ASSUME IInv, NEW t \in Task, NEW v \in Peer, LootPanic(t, v)
    PROVE  IInv'
<1>1. TaskInv(disk, task[t]) /\ task[t].pc = "victim" /\ Me(t) \in Peer
  BY Zenon DEF LootPanic, IInv, TasksOK, TaskInv, Me
<1>2. PICK S \in SUBSET Piece :
        /\ response_pieces' = [response_pieces EXCEPT ![v] =
             [p \in Piece |-> IF p \in S THEN None ELSE response_pieces[v][p]]]
        /\ request_pieces' = [request_pieces EXCEPT ![v] =
             [p \in Piece |-> IF p \in S THEN None ELSE request_pieces[v][p]]]
  BY Zenon DEF LootPanic
<1>3. wire' \in [Peer -> Seq(Request)]
  <2>1. wire' = wire \/ wire' = [wire EXCEPT ![Me(t)] = <<>>]
    BY Zenon DEF LootPanic, TakePeer
  <2> QED BY <1>1, <2>1, TakeWire, Zenon
<1>4. task' = [task EXCEPT ![t] = NoTask] /\ UNCHANGED <<disk, underway>>
  BY Zenon DEF LootPanic, End, pieceVars
<1>5. LockMove(t, NoTask)
  BY Zenon, <1>1 DEF LootPanic, LockMove, Unlock, Me, NoTask, Critical
<1> DEFINE rs == [p \in Piece |-> IF p \in S THEN None ELSE response_pieces[v][p]]
           rq == [p \in Piece |-> IF p \in S THEN None ELSE request_pieces[v][p]]
<1>6. RespOK(disk, rs) /\ rq \in RequestType
  BY Zenon, StripSound
<1>7. /\ response_pieces' = [response_pieces EXCEPT ![v] = rs]
      /\ request_pieces' = [request_pieces EXCEPT ![v] = rq]
  BY <1>2, Zenon
<1> HIDE DEF rs, rq
<1> QED BY Zenon, <1>3, <1>4, <1>5, <1>6, <1>7, IdleInv, RecordStep

\* The looter goes on, still with its lock, when the victim has exited.
LEMMA VictimExitedKeeps ==
    ASSUME IInv, NEW t \in Task, VictimExited(t)
    PROVE  IInv'
<1> DEFINE k == [task[t] EXCEPT !.pc = "victim"]
<1>1. TaskInv(disk, task[t]) /\ task[t] \in TaskType /\ task[t].pc = "lootexit"
  BY Zenon DEF VictimExited, IInv, TasksOK
<1>2. task' = [task EXCEPT ![t] = k]
  BY GotoIs, Zenon DEF VictimExited
<1>3. k \in TaskType /\ k.pc = "victim" /\ k.peer = task[t].peer /\ k.free = task[t].free
  BY <1>1, Zenon DEF TaskType, PC
<1> HIDE DEF k
<1>4. TaskInv(disk, k)
  BY <1>1, <1>3, Zenon DEF TaskInv, BlockPC
<1>5. LockMove(t, k)
  BY <1>1, <1>3, Zenon DEF VictimExited, LockMove, Critical
<1>6. wire' \in [Peer -> Seq(Request)]
  BY Zenon DEF VictimExited, IInv, DataOK
<1> QED BY Zenon, <1>2, <1>4, <1>5, <1>6, Quiet DEF VictimExited, pieceVars, records

\* What was looted enters the looter's records and the guard is dropped.
LEMMA LootResetKeeps ==
    ASSUME IInv, NEW t \in Task, LootReset(t)
    PROVE  IInv'
<1> DEFINE r == Me(t)
           f == task[t].free
           rq == ResetRequest(request_pieces[r], f)
           rs == ResetResponse(request_pieces[r], response_pieces[r], f)
<1>1. task[t].pc = "victim" /\ TaskInv(disk, task[t]) /\ task[t] \in TaskType
  BY Zenon DEF LootReset, IInv, TasksOK
<1>2. r \in Peer /\ FreeOK(disk, f)
  BY Zenon, <1>1 DEF TaskInv, TaskType, FreeOK, FreeType, Me
<1>3. rq \in RequestType /\ RespOK(disk, rs)
  BY Zenon, <1>2, RecordsTyped, ResetSound
<1>4. /\ request_pieces' = [request_pieces EXCEPT ![r] = rq]
      /\ response_pieces' = [response_pieces EXCEPT ![r] = rs]
      /\ UNCHANGED <<disk, underway, wire>>
      /\ lock' = [lock EXCEPT ![task[t].peer] = None]
  BY Zenon DEF LootReset, pieceVars, Unlock, Me
<1>5. wire' \in [Peer -> Seq(Request)]
  BY <1>4, Zenon DEF IInv, DataOK
<1>6. \E k : /\ task' = [task EXCEPT ![t] = k]
             /\ TaskInv(disk, k) /\ k.pc \notin Critical
  <2>1. CASE life[r] # "live"
    BY Zenon, <2>1, IdleInv DEF LootReset, End, NoTask, Critical
  <2>2. CASE life[r] = "live" /\ is_can_be_download(r)
    <3> DEFINE k == [task[t] EXCEPT !.pc = "lock"]
    <3>1. task' = [task EXCEPT ![t] = k]
      BY <2>2, GotoIs, Zenon DEF LootReset
    <3>2. TaskInv(disk, k)
      BY Zenon, <1>1, PlainMove DEF PlainPC, BlockPC
    <3>3. k.pc \notin Critical
      BY <1>1, Zenon DEF TaskType, Critical
    <3> HIDE DEF k
    <3> QED BY Zenon, <3>1, <3>2, <3>3
  <2>3. CASE life[r] = "live" /\ ~is_can_be_download(r)
    <3>1. task' = RequestDone(t)
      BY Zenon, <2>3 DEF LootReset
    <3>2. PICK k : /\ RequestDone(t) = [task EXCEPT ![t] = k]
                   /\ k.pc \in {"real", "free"} /\ TaskInv(disk, k)
      BY <1>1, RequestDoneInv, Zenon
    <3> QED BY Zenon, <3>1, <3>2 DEF Critical
  <2> QED BY <2>1, <2>2, <2>3, Zenon
<1>7. PICK k : /\ task' = [task EXCEPT ![t] = k]
               /\ TaskInv(disk, k) /\ k.pc \notin Critical
  BY Zenon, <1>6
<1>8. LockMove(t, k)
  BY Zenon, <1>1, <1>4, <1>7 DEF LockMove, Critical
<1> HIDE DEF r, f, rq, rs
<1> QED BY Zenon, <1>2, <1>3, <1>4, <1>5, <1>7, <1>8, RecordStep

\* A looter that found nothing drops its guard.
LEMMA LootNothingKeeps ==
    ASSUME IInv, NEW t \in Task, LootNothing(t)
    PROVE  IInv'
<1>1. task[t].pc = "victim" /\ TaskInv(disk, task[t]) /\ task[t] \in TaskType
      /\ Me(t) \in Peer
  BY Zenon DEF LootNothing, IInv, TasksOK, TaskInv, Me
<1>2. wire' \in [Peer -> Seq(Request)]
  <2>1. wire' = wire \/ wire' = [wire EXCEPT ![Me(t)] = <<>>]
    BY Zenon DEF LootNothing, TakePeer
  <2> QED BY <1>1, <2>1, TakeWire, Zenon
<1>3. \E k : /\ task' = [task EXCEPT ![t] = k]
             /\ TaskInv(disk, k) /\ k.pc \notin Critical
  <2>1. CASE ~has_transfer_data(Me(t), response_pieces[Me(t)]) /\ life[Me(t)] = "live"
    <3> DEFINE k == [task[t] EXCEPT !.pc = "selfexit", !.exit = Me(t)]
    <3>1. task' = [task EXCEPT ![t] = k]
      BY Zenon, <2>1 DEF LootNothing
    <3>2. k \in TaskType /\ k.pc = "selfexit" /\ k.peer = task[t].peer
      BY Zenon, <1>1 DEF TaskType, PC
    <3> HIDE DEF k
    <3>3. TaskInv(disk, k)
      BY <1>1, <3>2, Zenon DEF TaskInv, BlockPC
    <3> QED BY Zenon, <3>1, <3>2, <3>3 DEF Critical
  <2>2. CASE ~(~has_transfer_data(Me(t), response_pieces[Me(t)]) /\ life[Me(t)] = "live")
    <3>1. task' = RequestDone(t)
      BY <2>2, Zenon DEF LootNothing
    <3>2. PICK k : /\ RequestDone(t) = [task EXCEPT ![t] = k]
                   /\ k.pc \in {"real", "free"} /\ TaskInv(disk, k)
      BY <1>1, RequestDoneInv, Zenon
    <3> QED BY Zenon, <3>1, <3>2 DEF Critical
  <2> QED BY <2>1, <2>2, Zenon
<1> QED BY Zenon, <1>1, <1>2, <1>3, UnlockedInv
        DEF LootNothing, pieceVars, records, Critical

-----------------------------------------------------------------------------
(* write_file and checkout_piece_hash *)

\* A block is dropped, or its handler goes on with it.
LEMMA HandlePieceKeeps ==
    ASSUME IInv, NEW t \in Task, HandlePiece(t)
    PROVE  IInv'
<1>1. task[t].pc = "spawned" /\ task[t].piece \in Piece
  BY Zenon DEF HandlePiece, IInv, TasksOK, TaskInv, BlockPC
<1>2. UNCHANGED <<disk, underway, request_pieces, response_pieces, wire, lock>>
  BY Zenon DEF HandlePiece, pieceVars, records
<1>3. End(t) \/ Goto(t, "lock") \/ Goto(t, "real")
  BY Zenon DEF HandlePiece
<1>4. CASE End(t)
  BY Zenon, <1>1, <1>2, <1>4, EndStep DEF Critical
<1>5. CASE Goto(t, "lock")
  BY <1>1, <1>2, <1>5, PlainStep, Zenon DEF Critical, PlainPC
<1>6. CASE Goto(t, "real")
  BY <1>1, <1>2, <1>6, PlainStep, Zenon DEF Critical, PlainPC
<1> QED BY <1>3, <1>4, <1>5, <1>6, Zenon

\* The offset that will be written is that of the response record.
LEMMA ReadOffsetKeeps ==
    ASSUME IInv, NEW t \in Task, ReadOffset(t)
    PROVE  IInv'
<1> DEFINE rp == response_pieces[Me(t)][task[t].piece]
           k == [task[t] EXCEPT !.pc = "store", !.off = rp.off]
<1>1. TaskInv(disk, task[t]) /\ task[t] \in TaskType /\ task[t].pc = "real"
  BY Zenon DEF ReadOffset, IInv, TasksOK
<1>2. Me(t) \in Peer /\ task[t].piece \in Piece
  BY <1>1, Zenon DEF TaskInv, BlockPC, Me
<1>3. UNCHANGED <<disk, underway, request_pieces, response_pieces, wire, lock>>
  BY Zenon DEF ReadOffset, pieceVars, records
<1>4. CASE rp = None
  BY <1>1, <1>3, <1>4, EndStep, Zenon DEF ReadOffset, Critical
<1>5. CASE rp # None
  <2>1. rp.off \in Offset /\ Below(disk, task[t].piece, rp.off)
    BY <1>2, <1>5, Zenon DEF IInv, ResponseOK, RespInv, RespPiece
  <2>2. task' = [task EXCEPT ![t] = k]
    BY Zenon, <1>5 DEF ReadOffset
  <2> HIDE DEF rp
  <2>3. k \in TaskType /\ k.pc = "store" /\ k.off = rp.off
        /\ k.piece = task[t].piece /\ k.peer = task[t].peer
    BY Zenon, <1>1, <2>1 DEF TaskType, PC
  <2> HIDE DEF k
  <2>4. TaskInv(disk, k)
    BY <1>1, <1>2, <2>1, <2>3, Zenon DEF TaskInv, BlockPC
  <2>5. LockMove(t, k)
    BY <1>1, <1>3, <2>3, Zenon DEF LockMove, Critical
  <2>6. wire' \in [Peer -> Seq(Request)]
    BY <1>3, Zenon DEF IInv, DataOK
  <2> QED BY Zenon, <1>3, <2>2, <2>4, <2>5, <2>6, Quiet
<1> QED BY <1>4, <1>5, Zenon

\* A write only adds to what is stored.
LEMMA StoreBlockKeeps ==
    ASSUME IInv, NEW t \in Task, StoreBlock(t)
    PROVE  IInv'
<1> DEFINE k == [task[t] EXCEPT !.pc = "ub"]
           c == IF task[t].good THEN "good" ELSE "bad"
           p == task[t].piece
           b == task[t].block
<1>1. TaskInv(disk, task[t]) /\ task[t] \in TaskType /\ task[t].pc = "store"
  BY Zenon DEF StoreBlock, IInv, TasksOK
<1>2. p \in Piece /\ b \in Block
  BY <1>1, Zenon DEF TaskInv, TaskType, BlockPC
<1>3. disk' = [disk EXCEPT ![p][b] = c] /\ c \in {"good", "bad"}
  BY Zenon DEF StoreBlock
<1>4. UNCHANGED <<underway, request_pieces, response_pieces, wire, lock>>
  BY Zenon DEF StoreBlock, records
<1>5. task' = [task EXCEPT ![t] = k]
  BY GotoIs, Zenon DEF StoreBlock
<1>6. k \in TaskType /\ k.pc = "ub" /\ k.off = task[t].off /\ k.block = b
      /\ k.piece = p /\ k.peer = task[t].peer
  BY <1>1, Zenon DEF TaskType, PC
<1> HIDE DEF k, c, p, b
<1>7. disk' \in DiskType /\ Grows(disk, disk') /\ disk'[p][b] # "none"
  BY <1>2, <1>3, Zenon DEF IInv, DiskType, Grows
<1>8. TaskInv(disk', k)
  <2>1. TaskInv(disk', task[t])
    BY <1>1, <1>7, GrowsKeeps, Zenon
  <2>2. Below(disk', p, k.off)
    BY Zenon, <1>1, <1>6, <2>1 DEF TaskInv, p
  <2> QED BY Zenon, <1>1, <1>2, <1>6, <1>7, <2>1, <2>2 DEF TaskInv, BlockPC
<1>9. LockMove(t, k)
  BY <1>1, <1>4, <1>6, Zenon DEF LockMove, Critical
<1>10. TasksOK' /\ LockOK'
  BY Zenon, <1>5, <1>7, <1>8, <1>9, TaskMove
<1>11. UnderwayOK'
  BY Zenon, <1>4, <1>7, GrowsKeeps DEF IInv, UnderwayOK
<1>12. ResponseOK'
  <2>1. response_pieces' = response_pieces /\ ResponseOK
    BY <1>4, Zenon DEF IInv
  <2>2. ASSUME NEW r \in Peer, NEW q \in Piece
        PROVE  RespInv(disk', q, response_pieces[r][q])
    <3>1. response_pieces[r][q] \in {None} \cup RespPiece
          /\ RespInv(disk, q, response_pieces[r][q])
      BY <2>1, Zenon DEF ResponseOK
    <3> QED BY <1>7, <3>1, GrowsKeeps, Zenon
  <2> QED BY <2>1, <2>2, Zenon DEF ResponseOK
<1>13. DataOK'
  BY <1>4, Zenon DEF IInv, DataOK
<1> QED BY <1>7, <1>10, <1>11, <1>12, <1>13, Zenon DEF IInv

\* A failed write resets the records; nothing is claimed of its offset.
LEMMA StoreFailsKeeps ==
    ASSUME IInv, failures \in Nat, NEW t \in Task, StoreFails(t)
    PROVE  IInv'
<1> DEFINE r == Me(t)
           f == At(task[t].piece, task[t].block)
           rq == ResetRequest(request_pieces[r], f)
           rs == ResetResponse(request_pieces[r], response_pieces[r], f)
<1>1. TaskInv(disk, task[t]) /\ task[t] \in TaskType /\ task[t].pc = "store"
  BY Zenon DEF StoreFails, IInv, TasksOK
<1>2. r \in Peer /\ task[t].piece \in Piece /\ task[t].block \in Offset
  <2>1. r \in Peer /\ task[t].piece \in Piece /\ task[t].block \in Block
    BY <1>1, Zenon DEF TaskInv, TaskType, BlockPC, Me
  <2>2. Block \subseteq Offset
    BY PieceScheduleAssumption DEF Block, Offset
  <2> QED BY <2>1, <2>2, Zenon
<1>3. WriteFailLimit # 0
  <2>1. failures < WriteFailLimit
    BY Zenon DEF StoreFails
  <2> HIDE DEF r, f, rq, rs
  <2> QED BY <2>1
<1>4. FreeOK(disk, f)
  <2>1. f \in FreeType
    BY <1>2, Zenon DEF FreeType, At, NoRecord
  <2>2. \A p, o : Below(disk, p, o)
    BY <1>3, Zenon DEF Below
  <2> HIDE DEF f
  <2> QED BY <2>1, <2>2, Zenon DEF FreeOK
<1>5. /\ request_pieces' = [request_pieces EXCEPT ![r] = rq]
      /\ response_pieces' = [response_pieces EXCEPT ![r] = rs]
      /\ UNCHANGED <<disk, underway, wire, lock>>
      /\ task' = [task EXCEPT ![t] = NoTask]
  BY Zenon DEF StoreFails, End
<1>6. rq \in RequestType /\ RespOK(disk, rs)
  <2> HIDE DEF f
  <2> QED BY <1>2, <1>4, RecordsTyped, ResetSound, Zenon
<1> HIDE DEF r, f, rq, rs
<1>7. LockMove(t, NoTask)
  BY <1>1, <1>5, Zenon DEF LockMove, NoTask, Critical
<1>8. wire' \in [Peer -> Seq(Request)]
  BY <1>5, Zenon DEF IInv, DataOK
<1> QED BY Zenon, <1>2, <1>5, <1>6, <1>7, <1>8, IdleInv, RecordStep

\* A step that changes underway_bytefield at one piece, to a sound entry.
LEMMA UnderwayStep ==
    ASSUME IInv, NEW t \in Task, NEW k, task' = [task EXCEPT ![t] = k],
           TaskInv(disk, k), LockMove(t, k), NEW p \in Piece,
           NEW s \in {None} \cup Status, StatusInv(disk, p, s),
           underway' = [underway EXCEPT ![p] = s],
           UNCHANGED <<disk, request_pieces, response_pieces, wire>>
    PROVE  IInv'
<1>1. Grows(disk, disk') /\ TaskInv(disk', k)
  BY Zenon DEF Grows
<1>2. TasksOK' /\ LockOK'
  BY Zenon, <1>1, TaskMove
<1>3. UnderwayOK'
  <2>1. underway' \in [Piece -> {None} \cup Status]
    BY Zenon DEF IInv, UnderwayOK
  <2>2. \A q \in Piece : StatusInv(disk, q, underway'[q])
    BY Zenon DEF IInv, UnderwayOK
  <2> QED BY <2>1, <2>2, Zenon DEF UnderwayOK
<1>4. disk' \in DiskType /\ DataOK' /\ ResponseOK'
  BY Zenon DEF IInv, DataOK, ResponseOK
<1> QED BY <1>2, <1>3, <1>4, Zenon DEF IInv

\* The offset that update_write_piece_offset writes was read earlier; what was
\* below it then is stored.
LEMMA UpdateOffsetKeeps ==
    ASSUME IInv, NEW t \in Task, UpdateWritePieceOffset(t)
    PROVE  IInv'
<1> DEFINE p == task[t].piece
           k == [task[t] EXCEPT !.pc = "resp"]
           s == IF underway[p] # None /\ underway[p].st = "Ing"
                THEN [underway[p] EXCEPT !.off = task[t].off] ELSE underway[p]
<1>1. TaskInv(disk, task[t]) /\ task[t] \in TaskType /\ task[t].pc = "ub"
  BY Zenon DEF UpdateWritePieceOffset, IInv, TasksOK
<1>2. p \in Piece /\ task[t].off \in Offset /\ Below(disk, p, task[t].off)
  BY Zenon, <1>1 DEF TaskInv, TaskType, BlockPC
<1>3. underway \in [Piece -> {None} \cup Status] /\ StatusInv(disk, p, underway[p])
  BY <1>2, Zenon DEF IInv, UnderwayOK
<1>4. underway' = [underway EXCEPT ![p] = s]
  BY Zenon, <1>2, <1>3 DEF UpdateWritePieceOffset, OffsetWritten
<1>5. s \in {None} \cup Status /\ StatusInv(disk, p, s)
  <2>1. CASE underway[p] # None /\ underway[p].st = "Ing"
    <3>1. s = [underway[p] EXCEPT !.off = task[t].off] /\ underway[p] \in Status
      BY <1>2, <1>3, <2>1, Zenon
    <3>2. s \in Status /\ s.off = task[t].off
      BY <1>2, <3>1, Zenon DEF Status
    <3> HIDE DEF s
    <3> QED BY Zenon, <1>2, <3>2 DEF StatusInv
  <2>2. CASE ~(underway[p] # None /\ underway[p].st = "Ing")
    BY <1>2, <1>3, <2>2, Zenon
  <2> QED BY <2>1, <2>2, Zenon
<1>6. UNCHANGED <<disk, request_pieces, response_pieces, wire, lock>>
  BY Zenon DEF UpdateWritePieceOffset, records
<1>7. task' = [task EXCEPT ![t] = k]
  BY GotoIs, Zenon DEF UpdateWritePieceOffset
<1>8. k \in TaskType /\ k.pc = "resp" /\ k.block = task[t].block
      /\ k.piece = p /\ k.peer = task[t].peer
  BY <1>1, Zenon DEF TaskType, PC
<1> HIDE DEF k, s
<1>9. TaskInv(disk, k)
  BY Zenon, <1>1, <1>2, <1>8 DEF TaskInv, BlockPC
<1>10. LockMove(t, k)
  BY <1>1, <1>6, <1>8, Zenon DEF LockMove, Critical
<1> HIDE DEF p
<1> QED BY Zenon, <1>2, <1>4, <1>5, <1>6, <1>7, <1>9, <1>10, UnderwayStep

\* add_finish moves the offset over stored blocks only.
LEMMA AddFinishSound ==
    ASSUME NEW d, NEW p, NEW rp \in RespPiece, rp # None, RespInv(d, p, rp),
           NEW b \in Block, d[p][b] # "none"
    PROVE  AddFinish(rp, b) \in RespPiece /\ RespInv(d, p, AddFinish(rp, b))
<1>1. CASE rp.finish
  BY <1>1, Zenon DEF AddFinish
<1>2. CASE ~rp.finish
  <2> DEFINE bits == rp.bits \cup {b}
             off == Advance(rp.off, bits)
  <2>1. rp.off \in Offset /\ bits \in SUBSET Block
    BY Zenon DEF RespPiece
  <2>2. off \in rp.off .. Blocks /\ rp.off .. off - 1 \subseteq bits
    BY <2>1, AdvanceRange, Zenon
  <2>3. AddFinish(rp, b) = [off |-> off, bits |-> bits, finish |-> off >= Blocks]
    BY <1>2, Zenon DEF AddFinish
  <2> HIDE DEF off
  <2>4. off \in Offset
    BY <2>1, <2>2, PieceScheduleAssumption DEF Offset
  <2>5. (off >= Blocks) \in BOOLEAN
    OBVIOUS
  <2>6. AddFinish(rp, b) \in RespPiece
    BY <2>1, <2>3, <2>4, <2>5 DEF RespPiece
  <2>7. AddFinish(rp, b).off = off /\ AddFinish(rp, b).bits = bits
    BY <2>3
  <2>8. Below(d, p, rp.off) /\ \A c \in bits : d[p][c] # "none"
    BY Zenon DEF RespInv
  <2>9. Below(d, p, off)
    <3> SUFFICES ASSUME WriteFailLimit = 0, NEW c \in Block, c < off
                 PROVE  d[p][c] # "none"
      BY Zenon DEF Below
    <3>1. CASE c < rp.off
      BY <2>8, <3>1, Zenon DEF Below
    <3>2. CASE ~(c < rp.off)
      <4>1. c \in rp.off .. off - 1
        BY <2>1, <2>4, <3>2, PieceScheduleAssumption DEF Offset, Block
      <4> QED BY <2>2, <2>8, <4>1, Zenon
    <3> QED BY <3>1, <3>2, Zenon
  <2> QED BY <2>6, <2>7, <2>8, <2>9, Zenon DEF RespInv
<1> QED BY Zenon, <1>1, <1>2

\* update_resoponse_piece records a block that is stored.
LEMMA UpdateResponseKeeps ==
    ASSUME IInv, NEW t \in Task, UpdateResponsePiece(t)
    PROVE  IInv'
<1> DEFINE r == Me(t)
           p == task[t].piece
           k == [task[t] EXCEPT !.pc = "check"]
           rp == response_pieces[r][p]
           rs == IF rp = None THEN response_pieces[r]
                 ELSE [response_pieces[r] EXCEPT ![p] = AddFinish(rp, task[t].block)]
<1>1. TaskInv(disk, task[t]) /\ task[t] \in TaskType /\ task[t].pc = "resp"
  BY Zenon DEF UpdateResponsePiece, IInv, TasksOK
<1>2. r \in Peer /\ p \in Piece /\ task[t].block \in Block
      /\ disk[p][task[t].block] # "none"
  BY Zenon, <1>1 DEF TaskInv, TaskType, BlockPC, Me
<1>3. request_pieces[r] \in RequestType /\ RespOK(disk, response_pieces[r])
  BY Zenon, <1>2, RecordsTyped
<1>4. RespOK(disk, rs)
  <2>1. CASE rp = None
    BY <1>3, <2>1, Zenon
  <2>2. CASE rp # None
    <3>1. rp \in RespPiece /\ RespInv(disk, p, rp)
      BY <1>2, <1>3, <2>2, Zenon DEF RespOK
    <3>2. /\ AddFinish(rp, task[t].block) \in RespPiece
          /\ RespInv(disk, p, AddFinish(rp, task[t].block))
      BY Zenon, <1>2, <2>2, <3>1, AddFinishSound
    <3> QED BY Zenon, <1>2, <1>3, <2>2, <3>2 DEF RespOK
  <2> QED BY Zenon, <2>1, <2>2
<1>5. response_pieces \in [Peer -> [Piece -> {None} \cup RespPiece]]
      /\ request_pieces \in [Peer -> RequestType]
  BY Zenon DEF IInv, ResponseOK, DataOK, RequestType
<1>6. response_pieces' = [response_pieces EXCEPT ![r] = rs]
  BY Zenon, <1>2, <1>5 DEF UpdateResponsePiece
<1>7. UNCHANGED <<disk, underway, request_pieces, wire, lock>>
  BY Zenon DEF UpdateResponsePiece, pieceVars
<1>8. request_pieces' = [request_pieces EXCEPT ![r] = request_pieces[r]]
  BY <1>2, <1>5, <1>7, Zenon
<1>9. task' = [task EXCEPT ![t] = k]
  BY GotoIs, Zenon DEF UpdateResponsePiece
<1>10. TaskInv(disk, k)
  BY Zenon, <1>1, <1>2, PlainMove DEF PlainPC
<1>11. k.pc = "check" /\ k.peer = task[t].peer
  BY <1>1, Zenon DEF TaskType
<1> HIDE DEF k
<1>12. LockMove(t, k)
  BY <1>1, <1>7, <1>11, Zenon DEF LockMove, Critical
<1>13. wire' \in [Peer -> Seq(Request)]
  BY <1>7, Zenon DEF IInv, DataOK
<1> HIDE DEF r, p, rp, rs
<1> QED BY Zenon, <1>2, <1>3, <1>4, <1>6, <1>7, <1>8, <1>9, <1>10, <1>12, <1>13, RecordStep

\* A piece received completely leaves the records.
LEMMA CheckRecvKeeps ==
    ASSUME IInv, NEW t \in Task, CheckRecvFinish(t)
    PROVE  IInv'
<1> DEFINE r == Me(t)
           p == task[t].piece
           rp == response_pieces[r][p]
<1>1. TaskInv(disk, task[t]) /\ task[t] \in TaskType /\ task[t].pc = "check"
  BY Zenon DEF CheckRecvFinish, IInv, TasksOK
<1>2. r \in Peer /\ p \in Piece
  BY Zenon, <1>1 DEF TaskInv, TaskType, BlockPC, Me
<1>3. UNCHANGED <<disk, underway, request_pieces, wire, lock>>
  BY Zenon DEF CheckRecvFinish, pieceVars
<1>4. CASE rp # None /\ rp.finish
  <2> DEFINE k == [task[t] EXCEPT !.pc = "permit"]
             rs == [response_pieces[r] EXCEPT ![p] = None]
  <2>1. request_pieces[r] \in RequestType /\ RespOK(disk, response_pieces[r])
    BY <1>2, RecordsTyped, Zenon
  <2>2. RespOK(disk, rs)
    BY Zenon, <1>2, <2>1 DEF RespOK, RespInv
  <2>3. response_pieces \in [Peer -> [Piece -> {None} \cup RespPiece]]
        /\ request_pieces \in [Peer -> RequestType]
    BY Zenon DEF IInv, ResponseOK, DataOK, RequestType
  <2>4. response_pieces' = [response_pieces EXCEPT ![r] = rs]
    BY <1>2, <1>4, <2>3, Zenon DEF CheckRecvFinish
  <2>5. request_pieces' = [request_pieces EXCEPT ![r] = request_pieces[r]]
    BY <1>2, <1>3, <2>3, Zenon
  <2>6. task' = [task EXCEPT ![t] = k]
    BY <1>4, GotoIs, ZenonT(30) DEF CheckRecvFinish
  <2>7. TaskInv(disk, k)
    BY Zenon, <1>1, <1>2, PlainMove DEF PlainPC
  <2>8. k.pc = "permit" /\ k.peer = task[t].peer
    BY <1>1, Zenon DEF TaskType
  <2> HIDE DEF k
  <2>9. LockMove(t, k)
    BY <1>1, <1>3, <2>8, Zenon DEF LockMove, Critical
  <2>10. wire' \in [Peer -> Seq(Request)]
    BY <1>3, Zenon DEF IInv, DataOK
  <2> HIDE DEF r, p, rp, rs
  <2> QED BY Zenon, <1>2, <1>3, <2>1, <2>2, <2>4, <2>5, <2>6, <2>7, <2>9, <2>10, RecordStep
<1>5. CASE ~(rp # None /\ rp.finish)
  <2>1. End(t) /\ UNCHANGED response_pieces
    BY <1>5, Zenon DEF CheckRecvFinish
  <2> QED BY <1>1, <1>3, <2>1, EndStep, Zenon DEF Critical
<1> QED BY <1>4, <1>5, Zenon

\* Store::checkout gets its permit.
LEMMA AcquirePermitKeeps ==
    ASSUME IInv, NEW t \in Task, AcquirePermit(t)
    PROVE  IInv'
<1>1. TaskInv(disk, task[t]) /\ task[t].pc = "permit" /\ Goto(t, "hash")
  BY Zenon DEF AcquirePermit, IInv, TasksOK
<1>2. task[t].piece \in Piece
  BY <1>1, Zenon DEF TaskInv, BlockPC
<1>3. UNCHANGED <<disk, underway, request_pieces, response_pieces, wire, lock>>
  BY Zenon DEF AcquirePermit, records
<1> QED BY <1>1, <1>2, <1>3, PlainStep, Zenon DEF PlainPC, Critical

\* Store::checkout has compared the hash.
LEMMA CheckoutKeeps ==
    ASSUME IInv, NEW t \in Task, Checkout(t)
    PROVE  IInv'
<1> DEFINE k == [task[t] EXCEPT !.pc = "verdict", !.good = HashMatches(task[t].piece)]
<1>1. TaskInv(disk, task[t]) /\ task[t] \in TaskType /\ task[t].pc = "hash"
  BY Zenon DEF Checkout, IInv, TasksOK
<1>2. HashMatches(task[t].piece) \in BOOLEAN
  BY Zenon DEF HashMatches, Intact
<1>3. k \in TaskType /\ k.pc = "verdict" /\ k.peer = task[t].peer
      /\ k.piece = task[t].piece
  BY Zenon, <1>1, <1>2 DEF TaskType, PC
<1>4. task' = [task EXCEPT ![t] = k]
  BY Zenon DEF Checkout
<1>5. UNCHANGED <<disk, underway, request_pieces, response_pieces, wire, lock>>
  BY Zenon DEF Checkout, records
<1> HIDE DEF k
<1>6. TaskInv(disk, k)
  BY Zenon, <1>1, <1>3 DEF TaskInv, BlockPC
<1>7. LockMove(t, k)
  BY <1>1, <1>3, <1>5, Zenon DEF LockMove, Critical
<1>8. wire' \in [Peer -> Seq(Request)]
  BY <1>5, Zenon DEF IInv, DataOK
<1> QED BY Zenon, <1>4, <1>5, <1>6, <1>7, <1>8, Quiet

\* The piece leaves underway_bytefield, or starts again at 0: nothing is below 0.
LEMMA VerdictKeeps ==
    ASSUME IInv, NEW t \in Task, Verdict(t)
    PROVE  IInv'
<1> DEFINE p == task[t].piece
           s == IF task[t].good THEN None ELSE [st |-> "Pause", off |-> 0]
<1>1. TaskInv(disk, task[t]) /\ task[t] \in TaskType /\ task[t].pc = "verdict"
  BY Zenon DEF Verdict, IInv, TasksOK
<1>2. p \in Piece
  BY <1>1, Zenon DEF TaskInv, BlockPC
<1>3. underway' = [underway EXCEPT ![p] = s]
  BY Zenon DEF Verdict
<1>4. s \in {None} \cup Status
  BY PieceScheduleAssumption DEF Status, Offset
<1>5. StatusInv(disk, p, s)
  <2>1. Below(disk, p, 0)
    BY PieceScheduleAssumption DEF Below, Block
  <2> QED BY <2>1, Zenon DEF StatusInv
<1>6. task' = [task EXCEPT ![t] = NoTask] /\ TaskInv(disk, NoTask)
  BY Zenon, IdleInv DEF Verdict, End
<1>7. UNCHANGED <<disk, request_pieces, response_pieces, wire, lock>>
  BY Zenon DEF Verdict, records
<1>8. LockMove(t, NoTask)
  BY Zenon, <1>1, <1>7 DEF LockMove, Critical, NoTask
<1> HIDE DEF p, s
<1> QED BY Zenon, <1>2, <1>3, <1>4, <1>5, <1>6, <1>7, <1>8, UnderwayStep

\* try_loot_slow_peer is entered, is not needed, or is over.
LEMMA LootEntryKeeps ==
    ASSUME IInv, NEW t \in Task, LootNotNeeded(t) \/ LootEnter(t) \/ SelfExited(t)
    PROVE  IInv'
<1>1. UNCHANGED <<disk, underway, request_pieces, response_pieces, wire, lock>>
  BY Zenon DEF LootNotNeeded, LootEnter, SelfExited, pieceVars, records
<1>2. CASE LootNotNeeded(t)
  BY Zenon, <1>1, <1>2, RequestDoneStep DEF LootNotNeeded, Critical
<1>3. CASE LootEnter(t)
  <2>1. task[t].pc = "loot" /\ Goto(t, "lootlock")
    BY <1>3, Zenon DEF LootEnter
  <2> QED BY <1>1, <2>1, PlainStep, Zenon DEF PlainPC, Critical, BlockPC
<1>4. CASE SelfExited(t)
  BY <1>1, <1>4, RequestDoneStep, Zenon DEF SelfExited, Critical
<1> QED BY <1>2, <1>3, <1>4, Zenon

\* Connections come, choke and break.
LEMMA ConnectionKeeps ==
    ASSUME IInv, NEW r \in Peer, AddPeer(r) \/ HandleChoke(r) \/ PeerExit(r)
    PROVE  IInv'
<1>1. UNCHANGED <<disk, underway, request_pieces, response_pieces, task, lock>>
  BY Zenon DEF AddPeer, HandleChoke, PeerExit, pieceVars, records
<1>2. wire' = wire \/ wire' = [wire EXCEPT ![r] = <<>>]
  BY Zenon DEF AddPeer, HandleChoke, PeerExit, TakePeer
<1>3. wire' \in [Peer -> Seq(Request)]
  BY <1>2, TakeWire, Zenon
<1> QED BY <1>1, <1>3, StutterStep, Zenon

\* un_choke, bitfield and have start request_piece.
LEMMA MessageKeeps ==
    ASSUME IInv, NEW t \in Task, NEW r \in Peer,
           \/ HandleUnChoke(t, r)
           \/ \E bits \in Bitfields : HandleBitfield(t, r, bits)
           \/ \E p \in Piece : HandleHave(t, r, p)
    PROVE  IInv'
<1>1. UNCHANGED <<disk, underway, request_pieces, response_pieces, wire, lock>>
  BY Zenon DEF HandleUnChoke, HandleBitfield, HandleHave, pieceVars, records
<1>2. task[t].pc = "free" /\ \E un, bf : EnterRequest(t, r, un, bf)
  BY Zenon DEF HandleUnChoke, HandleBitfield, HandleHave
<1>3. PICK un, bf : EnterRequest(t, r, un, bf)
  BY <1>2, Zenon
<1> QED BY Zenon, <1>1, <1>2, <1>3, EnterKeeps

-----------------------------------------------------------------------------
\* A task starts from the progress saved: what is below its offsets is stored.
LEMMA InitEstablishes ==
    ASSUME Init
    PROVE  IInv /\ failures \in Nat
<1> USE PieceScheduleAssumption
<1>1. disk \in DiskType
  BY Zenon DEF Init, DiskType
<1>2. DataOK
  BY DEF Init, DataOK, NoRecord
<1>3. UnderwayOK
  <2>1. underway \in [Piece -> {None} \cup Status]
    BY DEF Init, Status, Offset, Block
  <2>2. ASSUME NEW p \in Piece PROVE StatusInv(disk, p, underway[p])
    BY Zenon DEF Init, StatusInv, Below
  <2> QED BY <2>1, <2>2, Zenon DEF UnderwayOK
<1>4. ResponseOK
  BY Zenon DEF Init, ResponseOK, NoRecord, RespInv
<1>5. TasksOK
  <2>1. \A t \in Task : task[t] = NoTask
    BY Zenon DEF Init
  <2>2. task \in [Task -> TaskType]
    BY Zenon, IdleInv DEF Init, TaskInv
  <2>3. ASSUME NEW t \in Task PROVE TaskInv(disk, task[t])
    <3>1. TaskInv(disk, NoTask) /\ task[t] = NoTask
      BY ONLY <2>1, <2>3, IdleInv, Zenon
    <3> QED BY ONLY <3>1, Zenon
  <2> QED BY Zenon, <2>2, <2>3 DEF TasksOK
<1>6. LockOK
  BY Zenon DEF Init, LockOK, LockExclusive, Critical, NoTask
<1> QED BY Zenon, <1>1, <1>2, <1>3, <1>4, <1>5, <1>6 DEF IInv, Init

\* Only a failing write counts.
LEMMA FailuresCount ==
    ASSUME failures \in Nat, [Next]_vars
    PROVE  failures' \in Nat
<1>1. CASE UNCHANGED vars
  BY <1>1, Zenon DEF vars
<1>2. ASSUME NEW r \in Peer,
             AddPeer(r) \/ HandleChoke(r) \/ PeerExit(r) \/ ReturnPieces(r)
      PROVE  failures' \in Nat
  BY <1>2, Zenon DEF AddPeer, HandleChoke, PeerExit, ReturnPieces, pieceVars
<1>3. ASSUME NEW t \in Task, NEW r \in Peer,
             \/ HandleUnChoke(t, r)
             \/ \E bits \in Bitfields : HandleBitfield(t, r, bits)
             \/ \E p \in Piece : HandleHave(t, r, p)
             \/ \E good \in BOOLEAN : ReceiveBlock(t, r, good)
      PROVE  failures' \in Nat
  BY Zenon, <1>3 DEF HandleUnChoke, HandleBitfield, HandleHave, ReceiveBlock, pieceVars
<1>4. ASSUME NEW t \in Task, TaskStep(t)
      PROVE  failures' \in Nat
  <2>1. CASE \/ HandlePiece(t) \/ AcquireLock(t) \/ WindowFull(t)
             \/ RecordApplied(t) \/ ResetLost(t) \/ FindNothing(t)
    BY Zenon, <2>1 DEF HandlePiece, AcquireLock, WindowFull, RecordApplied, ResetLost,
                FindNothing, pieceVars
  <2>2. CASE \E p \in Piece : FindUnrequested(t, p) \/ ApplyDownloadPiece(t, p)
    BY <2>2, Zenon DEF FindUnrequested, ApplyDownloadPiece, pieceVars
  <2>3. CASE LootNotNeeded(t) \/ LootEnter(t) \/ SelfExited(t)
    BY <2>3, Zenon DEF LootNotNeeded, LootEnter, SelfExited, pieceVars
  <2>4. CASE \E v \in Peer : LootVictim(t, v) \/ LootPanic(t, v)
    BY <2>4, Zenon DEF LootVictim, LootPanic, pieceVars
  <2>5. CASE LootLock(t) \/ VictimExited(t) \/ LootReset(t) \/ LootNothing(t)
    BY <2>5, Zenon DEF LootLock, VictimExited, LootReset, LootNothing, pieceVars
  <2>6. CASE \/ ReadOffset(t) \/ StoreBlock(t) \/ UpdateWritePieceOffset(t)
             \/ UpdateResponsePiece(t) \/ CheckRecvFinish(t)
    BY <2>6, Zenon DEF ReadOffset, StoreBlock, UpdateWritePieceOffset,
                UpdateResponsePiece, CheckRecvFinish, pieceVars
  <2>7. CASE AcquirePermit(t) \/ Checkout(t) \/ Verdict(t)
    BY <2>7, Zenon DEF AcquirePermit, Checkout, Verdict
  <2> QED BY <1>4, <2>1, <2>2, <2>3, <2>4, <2>5, <2>6, <2>7, ZenonT(30) DEF TaskStep
<1>5. ASSUME NEW t \in Task, StoreFails(t) \/ DropTask(t)
      PROVE  failures' \in Nat
  <2>1. CASE StoreFails(t)
    <3>1. failures' = failures + 1
      BY <2>1, Zenon DEF StoreFails
    <3> QED BY <3>1
  <2>2. CASE DropTask(t)
    BY <2>2, Zenon DEF DropTask, pieceVars
  <2> QED BY <1>5, <2>1, <2>2, Zenon
<1> QED BY <1>1, <1>2, <1>3, <1>4, <1>5, Zenon DEF Next

\* Every step of a handler.
LEMMA TaskStepKeeps ==
    ASSUME IInv, NEW t \in Task, TaskStep(t)
    PROVE  IInv'
<1>1. CASE \/ HandlePiece(t) \/ AcquireLock(t) \/ WindowFull(t)
           \/ RecordApplied(t) \/ ResetLost(t) \/ FindNothing(t)
  BY Zenon, <1>1, HandlePieceKeeps, AcquireKeeps, WindowFullKeeps, RecordAppliedKeeps,
     ResetLostKeeps, FindNothingKeeps
<1>2. CASE \E p \in Piece : FindUnrequested(t, p) \/ ApplyDownloadPiece(t, p)
  BY <1>2, FindUnrequestedKeeps, ApplyKeeps, Zenon
<1>3. CASE LootNotNeeded(t) \/ LootEnter(t) \/ SelfExited(t)
  BY <1>3, LootEntryKeeps, Zenon
<1>4. CASE \E v \in Peer : LootVictim(t, v) \/ LootPanic(t, v)
  BY <1>4, LootVictimKeeps, LootPanicKeeps, Zenon
<1>5. CASE LootLock(t) \/ VictimExited(t) \/ LootReset(t) \/ LootNothing(t)
  BY <1>5, LootLockKeeps, VictimExitedKeeps, LootResetKeeps, LootNothingKeeps, Zenon
<1>6. CASE \/ ReadOffset(t) \/ StoreBlock(t) \/ UpdateWritePieceOffset(t)
           \/ UpdateResponsePiece(t) \/ CheckRecvFinish(t)
  BY Zenon, <1>6, ReadOffsetKeeps, StoreBlockKeeps, UpdateOffsetKeeps,
     UpdateResponseKeeps, CheckRecvKeeps
<1>7. CASE AcquirePermit(t) \/ Checkout(t) \/ Verdict(t)
  BY <1>7, AcquirePermitKeeps, CheckoutKeeps, VerdictKeeps, Zenon
<1> QED BY <1>1, <1>2, <1>3, <1>4, <1>5, <1>6, <1>7, ZenonT(30) DEF TaskStep

\* Every step of the system.
LEMMA StepPreserves ==
    ASSUME IInv, failures \in Nat, [Next]_vars
    PROVE  IInv'
<1>1. CASE UNCHANGED vars
  <2>1. wire' \in [Peer -> Seq(Request)]
    BY <1>1, Zenon DEF IInv, DataOK, vars
  <2>2. UNCHANGED <<disk, underway, request_pieces, response_pieces, task, lock>>
    BY <1>1, Zenon DEF vars
  <2> QED BY <2>1, <2>2, StutterStep, Zenon
<1>2. CASE \E r \in Peer : \/ AddPeer(r) \/ HandleChoke(r) \/ PeerExit(r)
                           \/ ReturnPieces(r)
  BY <1>2, ConnectionKeeps, ReturnKeeps, Zenon
<1>3. CASE \E t \in Task, r \in Peer :
             \/ HandleUnChoke(t, r)
             \/ \E bits \in Bitfields : HandleBitfield(t, r, bits)
             \/ \E p \in Piece : HandleHave(t, r, p)
  BY <1>3, MessageKeeps, Zenon
<1>4. CASE \E t \in Task, r \in Peer : \E good \in BOOLEAN : ReceiveBlock(t, r, good)
  BY <1>4, ReceiveKeeps, Zenon
<1>5. CASE \E t \in Task : TaskStep(t) \/ StoreFails(t) \/ DropTask(t)
  BY <1>5, TaskStepKeeps, StoreFailsKeeps, DropKeeps, Zenon
<1> QED BY <1>1, <1>2, <1>3, <1>4, <1>5, Zenon DEF Next

\* Every offset and every received bit, in the shared maps and in the local
\* variables of the handlers, is backed by what is stored; every handler between
\* lock().await and the end of the guard holds the lock of its peer.
THEOREM Invariance == Spec => [](IInv /\ failures \in Nat)
<1>1. Init => IInv /\ failures \in Nat
  BY InitEstablishes, Zenon
<1>2. (IInv /\ failures \in Nat) /\ [Next]_vars => (IInv /\ failures \in Nat)'
  BY StepPreserves, FailuresCount, Zenon
<1> QED BY <1>1, <1>2, PTL DEF Spec

\* Peer.sync_lock excludes: a task inside request_piece or try_free_slow_piece
\* holds the lock of its peer, and a lock is never left with a task that is not.
THEOREM LocksExclude == Spec => []LockExclusive
<1>1. IInv /\ failures \in Nat => LockExclusive
  BY Zenon DEF IInv, LockOK
<1> QED BY <1>1, Invariance, PTL

\* update_write_piece_offset never writes an offset past what is stored, whatever
\* looting, exits and stale handlers do: a restart resumes from it without a
\* hole.  This needs that no write fails.
THEOREM ResumeSafe ==
    ASSUME WriteFailLimit = 0
    PROVE  Spec => []PrefixStored
<1>1. IInv /\ failures \in Nat => PrefixStored
  BY Zenon DEF IInv, UnderwayOK, ResponseOK, StatusInv, RespInv, Below, PrefixStored,
         StoredBelow
<1> QED BY <1>1, Invariance, PTL

-----------------------------------------------------------------------------
(* What is verified stays intact in the file, when no peer sends wrong data: a late  *)
(* write by a task of a peer that lost the piece writes the same data again.         *)

\* No wrong data in the file or in a handler, and a verdict that is not acted on
\* yet is still true.
Clean ==
    /\ \A p \in Piece, b \in Block : disk[p][b] # "bad"
    /\ \A t \in Task : task[t].pc # "verdict" => task[t].good = TRUE
    /\ \A t \in Task : task[t].pc = "verdict" /\ task[t].good = TRUE =>
                         Intact(task[t].piece)
    /\ bytefield \subseteq Piece
    /\ FinishedIntact

\* t moves on with its data, or ends.
Sound ==
    \A u \in Task :
        \/ task'[u] = task[u]
        \/ task'[u].good = TRUE /\ task'[u].pc # "verdict"

\* Such a step, which neither writes nor marks a piece, keeps the claim.
LEMMA CleanStep ==
    ASSUME IInv, Clean, Sound, UNCHANGED <<disk, bytefield>>
    PROVE  Clean'
<1>1. \A q : Intact(q)' <=> Intact(q)
  BY Zenon DEF Intact
<1> QED BY <1>1, Zenon DEF Clean, Sound, FinishedIntact

\* A handler that moves on keeps its data, one that ends has none.
LEMMA MoveSound ==
    ASSUME IInv, Clean, NEW t \in Task, task[t].pc # "verdict",
           \/ End(t) \/ task' = RequestDone(t)
           \/ \E pc \in PC \ {"verdict"} : Goto(t, pc)
    PROVE  Sound
<1>1. task[t] \in TaskType /\ task \in [Task -> TaskType] /\ task[t].good = TRUE
  BY Zenon DEF IInv, TasksOK, Clean
<1>2. CASE End(t)
  BY Zenon, <1>1, <1>2 DEF End, Sound, NoTask
<1>3. CASE task' = RequestDone(t)
  BY <1>1, <1>3, Zenon DEF RequestDone, Sound, NoTask, TaskType
<1>4. CASE \E pc \in PC \ {"verdict"} : Goto(t, pc)
  BY <1>1, <1>4 DEF Goto, Sound, TaskType
<1> QED BY <1>2, <1>3, <1>4, Zenon

\* Handlers that neither write nor hash only carry their data on.
LEMMA TasksClean ==
    ASSUME IInv, Clean, NEW t \in Task,
           \/ HandlePiece(t) \/ AcquireLock(t) \/ WindowFull(t)
           \/ \E p \in Piece : FindUnrequested(t, p) \/ ApplyDownloadPiece(t, p)
           \/ RecordApplied(t) \/ ResetLost(t) \/ FindNothing(t)
           \/ LootNotNeeded(t) \/ LootEnter(t) \/ LootLock(t)
           \/ \E v \in Peer : LootVictim(t, v) \/ LootPanic(t, v)
           \/ VictimExited(t) \/ LootReset(t) \/ LootNothing(t) \/ SelfExited(t)
           \/ ReadOffset(t) \/ UpdateWritePieceOffset(t)
           \/ UpdateResponsePiece(t) \/ CheckRecvFinish(t) \/ AcquirePermit(t)
           \/ StoreFails(t) \/ DropTask(t)
    PROVE  Clean'
<1>0. task[t] \in TaskType /\ task \in [Task -> TaskType]
  BY Zenon DEF IInv, TasksOK
<1>1. CASE HandlePiece(t) \/ AcquireLock(t) \/ WindowFull(t)
  <2>1. task[t].pc # "verdict" /\ UNCHANGED <<disk, bytefield>>
    BY Zenon, <1>1 DEF HandlePiece, AcquireLock, WindowFull, pieceVars
  <2>2. \/ End(t) \/ task' = RequestDone(t)
        \/ \E pc \in PC \ {"verdict"} : Goto(t, pc)
    BY Zenon, <1>1 DEF HandlePiece, AcquireLock, WindowFull, PC
  <2> QED BY Zenon, <2>1, <2>2, MoveSound, CleanStep
<1>2. CASE \E p \in Piece : FindUnrequested(t, p)
  <2>1. task[t].pc # "verdict" /\ UNCHANGED <<disk, bytefield>>
    BY <1>2, Zenon DEF FindUnrequested, Finding, pieceVars
  <2>2. End(t) \/ \E pc \in PC \ {"verdict"} : Goto(t, pc)
    BY Zenon, <1>2 DEF FindUnrequested, SendRequest, PC
  <2> QED BY Zenon, <2>1, <2>2, MoveSound, CleanStep
<1>3. CASE \E p \in Piece : ApplyDownloadPiece(t, p)
  <2>1. task[t].good = TRUE
    BY <1>3, Zenon DEF ApplyDownloadPiece, Finding, Clean
  <2>2. \E f : task' = [task EXCEPT ![t].pc = "applied", ![t].free = f]
    BY Zenon, <1>3 DEF ApplyDownloadPiece
  <2>3. UNCHANGED <<disk, bytefield>>
    BY <1>3, Zenon DEF ApplyDownloadPiece
  <2>4. Sound
    BY <1>0, <2>1, <2>2 DEF Sound, TaskType
  <2> QED BY <2>3, <2>4, CleanStep, Zenon
<1>4. CASE RecordApplied(t)
  <2>1. task[t].pc # "verdict" /\ UNCHANGED <<disk, bytefield>>
    BY Zenon, <1>4 DEF RecordApplied, pieceVars
  <2>2. End(t) \/ \E pc \in PC \ {"verdict"} : Goto(t, pc)
    BY Zenon, <1>4 DEF RecordApplied, SendRequest, PC
  <2> QED BY Zenon, <2>1, <2>2, MoveSound, CleanStep
<1>5. CASE ResetLost(t)
  <2>1. UNCHANGED <<disk, bytefield, task>>
    BY Zenon, <1>5 DEF ResetLost, pieceVars
  <2>2. Sound
    BY Zenon, <2>1 DEF Sound
  <2> QED BY <2>1, <2>2, CleanStep, Zenon
<1>6. CASE FindNothing(t) \/ LootNotNeeded(t) \/ LootEnter(t)
  <2>1. task[t].pc # "verdict" /\ UNCHANGED <<disk, bytefield>>
    BY Zenon, <1>6 DEF FindNothing, NothingToFind, Finding, LootNotNeeded,
                       LootEnter, pieceVars
  <2>2. task' = RequestDone(t) \/ \E pc \in PC \ {"verdict"} : Goto(t, pc)
    BY Zenon, <1>6 DEF FindNothing, LootNotNeeded, LootEnter, PC
  <2> QED BY Zenon, <2>1, <2>2, MoveSound, CleanStep
<1>7. CASE LootLock(t)
  <2>1. task[t].good = TRUE
    BY <1>7, Zenon DEF LootLock, Clean
  <2>2. Sound /\ UNCHANGED <<disk, bytefield>>
    BY Zenon, <1>0, <1>7, <2>1 DEF LootLock, Sound, TaskType, pieceVars
  <2> QED BY <2>2, CleanStep, Zenon
<1>8. CASE \E v \in Peer : LootVictim(t, v)
  <2>1. task[t].good = TRUE
    BY Zenon, <1>8 DEF LootVictim, Clean
  <2>2. UNCHANGED <<disk, bytefield>>
    BY Zenon, <1>8 DEF LootVictim, pieceVars
  <2>3. PICK v \in Peer : LootVictim(t, v)
    BY <1>8, Zenon
  <2> DEFINE f == Loot(t, v)
             pc == IF /\ ~has_transfer_data(v, [p \in Piece |->
                           IF f[p] # None THEN None ELSE response_pieces[v][p]])
                      /\ life[v] = "live" THEN "lootexit" ELSE "victim"
  <2>4. task' = [task EXCEPT ![t].free = f, ![t].victims = @ \ {v},
                             ![t].exit = v, ![t].pc = pc]
    BY Zenon, <2>3 DEF LootVictim
  <2>5. pc # "verdict"
    BY Zenon
  <2> HIDE DEF f, pc
  <2>6. Sound
    BY <1>0, <2>1, <2>4, <2>5, Zenon DEF Sound, TaskType
  <2> QED BY <2>2, <2>6, CleanStep, Zenon
<1>9. CASE \E v \in Peer : LootPanic(t, v)
  <2>1. task[t].pc # "verdict" /\ End(t) /\ UNCHANGED <<disk, bytefield>>
    BY Zenon, <1>9 DEF LootPanic, pieceVars
  <2> QED BY Zenon, <2>1, MoveSound, CleanStep
<1>10. CASE VictimExited(t) \/ LootReset(t) \/ SelfExited(t)
  <2>1. task[t].pc # "verdict" /\ UNCHANGED <<disk, bytefield>>
    BY Zenon, <1>10 DEF VictimExited, LootReset, SelfExited, pieceVars
  <2>2. \/ End(t) \/ task' = RequestDone(t)
        \/ \E pc \in PC \ {"verdict"} : Goto(t, pc)
    BY Zenon, <1>10 DEF VictimExited, LootReset, SelfExited, PC
  <2> QED BY Zenon, <2>1, <2>2, MoveSound, CleanStep
<1>11. CASE LootNothing(t)
  <2>1. task[t].pc # "verdict" /\ UNCHANGED <<disk, bytefield>>
    BY <1>11, Zenon DEF LootNothing, pieceVars
  <2>2. CASE task' = RequestDone(t)
    BY Zenon, <2>1, <2>2, MoveSound, CleanStep
  <2>3. CASE task' = [task EXCEPT ![t].pc = "selfexit", ![t].exit = Me(t)]
    <3>1. Sound
      BY <1>0, <2>1, <2>3, Zenon DEF Sound, TaskType, Clean
    <3> QED BY Zenon, <2>1, <3>1, CleanStep
  <2> QED BY <1>11, <2>2, <2>3, Zenon DEF LootNothing
<1>12. CASE ReadOffset(t)
  <2>1. task[t].good = TRUE
    BY <1>12, Zenon DEF ReadOffset, Clean
  <2>2. Sound /\ UNCHANGED <<disk, bytefield>>
    BY <1>0, <1>12, <2>1 DEF ReadOffset, End, NoTask, Sound, TaskType, pieceVars
  <2> QED BY <2>2, CleanStep, Zenon
<1>13. CASE \/ UpdateWritePieceOffset(t) \/ UpdateResponsePiece(t)
            \/ CheckRecvFinish(t) \/ AcquirePermit(t)
  <2>1. task[t].pc # "verdict" /\ UNCHANGED <<disk, bytefield>>
    BY Zenon, <1>13 DEF UpdateWritePieceOffset, UpdateResponsePiece, CheckRecvFinish,
                 AcquirePermit, pieceVars
  <2>2. End(t) \/ \E pc \in PC \ {"verdict"} : Goto(t, pc)
    BY Zenon, <1>13 DEF UpdateWritePieceOffset, UpdateResponsePiece, CheckRecvFinish,
                 AcquirePermit, PC
  <2> QED BY Zenon, <2>1, <2>2, MoveSound, CleanStep
<1>14. CASE StoreFails(t) \/ DropTask(t)
  <2>1. task[t].pc # "verdict" /\ End(t) /\ UNCHANGED <<disk, bytefield>>
    BY Zenon, <1>14 DEF StoreFails, DropTask, Suspended, pieceVars
  <2> QED BY Zenon, <2>1, MoveSound, CleanStep
<1> QED BY ZenonT(60), <1>1, <1>2, <1>3, <1>4, <1>5, <1>6, <1>7, <1>8, <1>9, <1>10, <1>11,
           <1>12, <1>13, <1>14

\* Messages: a new handler has no data, or that of an honest peer.
LEMMA MessagesClean ==
    ASSUME Corrupt = {}, IInv, Clean, NEW t \in Task, NEW r \in Peer,
           \/ HandleUnChoke(t, r)
           \/ \E bits \in Bitfields : HandleBitfield(t, r, bits)
           \/ \E p \in Piece : HandleHave(t, r, p)
           \/ \E good \in BOOLEAN : ReceiveBlock(t, r, good)
    PROVE  Clean'
<1>0. task \in [Task -> TaskType]
  BY Zenon DEF IInv, TasksOK
<1>1. UNCHANGED <<disk, bytefield>>
  BY Zenon DEF HandleUnChoke, HandleBitfield, HandleHave, ReceiveBlock, pieceVars
<1>2. CASE \E un, bf : EnterRequest(t, r, un, bf)
  <2>1. Sound
    BY <1>0, <1>2 DEF EnterRequest, Sound, NoTask
  <2> QED BY <1>1, <2>1, CleanStep, Zenon
<1>3. CASE \E good \in BOOLEAN : ReceiveBlock(t, r, good)
  <2>1. PICK good \in BOOLEAN : ReceiveBlock(t, r, good)
    BY <1>3, Zenon
  <2>2. good = TRUE
    BY Zenon, <2>1 DEF ReceiveBlock
  <2>3. \E m : task' = [task EXCEPT ![t] =
                 [NoTask EXCEPT !.pc = "spawned", !.peer = r, !.good = good,
                                !.piece = m.piece, !.block = m.block]]
    BY Zenon, <2>1 DEF ReceiveBlock
  <2>4. Sound
    BY <1>0, <2>2, <2>3 DEF Sound, NoTask
  <2> QED BY <1>1, <2>4, CleanStep, Zenon
<1> QED BY Zenon, <1>2, <1>3 DEF HandleUnChoke, HandleBitfield, HandleHave

\* Connections do not touch the file.
LEMMA ConnectionsClean ==
    ASSUME IInv, Clean, NEW r \in Peer,
           AddPeer(r) \/ HandleChoke(r) \/ PeerExit(r) \/ ReturnPieces(r)
    PROVE  Clean'
<1>1. UNCHANGED <<disk, bytefield, task>>
  BY Zenon DEF AddPeer, HandleChoke, PeerExit, ReturnPieces, pieceVars
<1>2. Sound
  BY <1>1, Zenon DEF Sound
<1> QED BY <1>1, <1>2, CleanStep, Zenon

\* A block is only ever overwritten with the same data.
LEMMA StoreBlockClean ==
    ASSUME IInv, Clean, NEW t \in Task, StoreBlock(t)
    PROVE  Clean'
<1> DEFINE p == task[t].piece
           b == task[t].block
<1>1. task[t] \in TaskType /\ TaskInv(disk, task[t]) /\ task[t].pc = "store"
      /\ task \in [Task -> TaskType] /\ disk \in DiskType
  BY Zenon DEF StoreBlock, IInv, TasksOK
<1>2. p \in Piece /\ b \in Block /\ task[t].good = TRUE
  BY Zenon, <1>1 DEF TaskInv, BlockPC, TaskType, Clean
<1>3. disk' = [disk EXCEPT ![p][b] = "good"]
  BY Zenon, <1>2 DEF StoreBlock
<1>4. \A q \in Piece, c \in Block : disk'[q][c] = disk[q][c] \/ disk'[q][c] = "good"
  BY <1>1, <1>2, <1>3, Zenon DEF DiskType
<1>5. \A q \in Piece : Intact(q) => Intact(q)'
  BY <1>4, Zenon DEF Intact
<1>6. Goto(t, "ub") /\ "ub" \in PC \ {"verdict"} /\ bytefield' = bytefield
  BY Zenon DEF StoreBlock, PC
<1>7. Sound
  BY <1>1, <1>6, MoveSound, Zenon
<1>8. \A u \in Task : task[u].pc = "verdict" => task[u].piece \in Piece
  BY Zenon DEF IInv, TasksOK, TaskInv, BlockPC
<1>9. \A q \in Piece, c \in Block : disk'[q][c] # "bad"
  BY <1>4, ZenonT(30) DEF Clean
<1>10. \A u \in Task : task'[u].pc # "verdict" => task'[u].good = TRUE
  BY <1>7, Zenon DEF Clean, Sound
<1>11. ASSUME NEW u \in Task, task'[u].pc = "verdict", task'[u].good = TRUE
       PROVE  Intact(task[u].piece)'
  <2>1. task'[u] = task[u]
    BY <1>7, <1>11, Zenon DEF Sound
  <2>2. task[u].piece \in Piece /\ Intact(task[u].piece)
    BY <1>8, <1>11, <2>1, Zenon DEF Clean
  <2>3. \A c \in Block : disk'[task'[u].piece][c] = "good"
    BY <1>4, <2>1, <2>2, ZenonT(30) DEF Intact
  <2> QED BY <2>3, Zenon DEF Intact
<1>12. bytefield' \subseteq Piece /\ FinishedIntact'
  BY <1>5, <1>6, Zenon DEF Clean, FinishedIntact
<1> QED BY Zenon, <1>9, <1>10, <1>11, <1>12 DEF Clean

\* The verdict of checkout_piece_hash is still true when it is acted on.
LEMMA HashingClean ==
    ASSUME IInv, Clean, NEW t \in Task, Checkout(t) \/ Verdict(t)
    PROVE  Clean'
<1>1. task[t] \in TaskType /\ TaskInv(disk, task[t]) /\ task \in [Task -> TaskType]
  BY Zenon DEF IInv, TasksOK
<1>2. disk' = disk
  BY Zenon DEF Checkout, Verdict
<1>3. \A q : Intact(q)' <=> Intact(q)
  BY <1>2, Zenon DEF Intact
<1>4. CASE Checkout(t)
  <2>1. /\ bytefield' = bytefield
        /\ task' = [task EXCEPT ![t].pc = "verdict",
                                ![t].good = HashMatches(task[t].piece)]
    BY <1>4, Zenon DEF Checkout
  <2>2. /\ task'[t].pc = "verdict" /\ task'[t].piece = task[t].piece
        /\ task'[t].good = HashMatches(task[t].piece)
        /\ \A u \in Task \ {t} : task'[u] = task[u]
    BY <1>1, <2>1, Zenon DEF TaskType
  <2>3. task'[t].good = TRUE => Intact(task'[t].piece)
    BY Zenon, <2>2 DEF HashMatches
  <2> QED BY Zenon, <1>2, <1>3, <2>1, <2>2, <2>3 DEF Clean, FinishedIntact
<1>5. CASE Verdict(t)
  <2>1. task[t].pc = "verdict" /\ task[t].piece \in Piece /\ task[t].good \in BOOLEAN
    BY Zenon, <1>1, <1>5 DEF Verdict, TaskInv, BlockPC, TaskType
  <2>2. /\ task'[t].good = TRUE /\ task'[t].pc # "verdict"
        /\ \A u \in Task \ {t} : task'[u] = task[u]
    BY Zenon, <1>1, <1>5 DEF Verdict, End, NoTask
  <2>3. bytefield' \subseteq Piece /\ FinishedIntact'
    <3>1. CASE task[t].good
      <4>1. Intact(task[t].piece) /\ bytefield' = bytefield \cup {task[t].piece}
        BY Zenon, <1>5, <2>1, <3>1 DEF Verdict, Clean
      <4> QED BY Zenon, <1>3, <2>1, <4>1 DEF Clean, FinishedIntact
    <3>2. CASE ~task[t].good
      <4>1. bytefield' = bytefield
        BY Zenon, <1>5, <3>2 DEF Verdict
      <4> QED BY Zenon, <1>3, <4>1 DEF Clean, FinishedIntact
    <3> QED BY <3>1, <3>2, Zenon
  <2> QED BY <1>2, <1>3, <2>2, <2>3, Zenon DEF Clean
<1> QED BY <1>4, <1>5, Zenon

\* When no peer sends wrong data, a piece in bytefield is and stays intact in
\* the file, although handlers of peers that lost it may still write to it, may
\* have been verifying it twice, and writes may fail.
THEOREM VerifiedStays ==
    ASSUME Corrupt = {}
    PROVE  Spec => []FinishedIntact
<1>1. Init => Clean
  <2> SUFFICES ASSUME Init PROVE Clean
    BY Zenon
  <2> QED BY Zenon DEF Init, Clean, FinishedIntact, NoTask
<1>2. IInv /\ Clean /\ [Next]_vars => Clean'
  <2> SUFFICES ASSUME IInv, Clean, [Next]_vars PROVE Clean'
    BY Zenon
  <2>1. CASE UNCHANGED vars
    <3>1. UNCHANGED <<disk, bytefield, task>>
      BY <2>1, Zenon DEF vars
    <3>2. Sound
      BY <3>1, Zenon DEF Sound
    <3> QED BY <3>1, <3>2, CleanStep, Zenon
  <2>2. CASE \E r \in Peer : \/ AddPeer(r) \/ HandleChoke(r) \/ PeerExit(r)
                             \/ ReturnPieces(r)
    BY <2>2, ConnectionsClean, Zenon
  <2>3. CASE \E t \in Task, r \in Peer :
               \/ HandleUnChoke(t, r)
               \/ \E bits \in Bitfields : HandleBitfield(t, r, bits)
               \/ \E p \in Piece : HandleHave(t, r, p)
               \/ \E good \in BOOLEAN : ReceiveBlock(t, r, good)
    BY <2>3, MessagesClean, Zenon
  <2>4. CASE \E t \in Task : TaskStep(t)
    BY <2>4, TasksClean, StoreBlockClean, HashingClean, Zenon DEF TaskStep
  <2>5. CASE \E t \in Task : StoreFails(t) \/ DropTask(t)
    BY <2>5, TasksClean, Zenon
  <2> QED BY <2>1, <2>2, <2>3, <2>4, <2>5, Zenon DEF Next
<1>3. Clean => FinishedIntact
  BY Zenon DEF Clean
<1> QED BY <1>1, <1>2, <1>3, Invariance, PTL DEF Spec
=============================================================================
