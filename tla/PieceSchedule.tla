--------------------------- MODULE PieceSchedule ---------------------------
(***************************************************************************)
(* How the peers of one task share out its pieces: DefaultServant          *)
(* (doro/src/bt/default_servant.rs) with the request and response records  *)
(* of each Peer (doro/src/bt/base_peer.rs).                                *)
(*                                                                         *)
(* Every message of a peer is handled by a task of its own                 *)
(* (BasePeer::persist_listen), so the handlers of one peer and of several  *)
(* peers run in parallel.  They share bytefield and underway_bytefield,    *)
(* and a looting peer writes to the records of another one.  A task is a   *)
(* program counter and its local variables; one step of the model is what  *)
(* the code does between two accesses to shared state.                     *)
(*                                                                         *)
(* Offsets count blocks: a piece is the blocks 0 .. Blocks - 1, and the    *)
(* offset Blocks is its end.                                               *)
(***************************************************************************)
EXTENDS Integers, Sequences, FiniteSets

CONSTANTS
    Peer,             \* peers of the task, by id; an id is used once
    Piece,            \* piece indices, scanned in increasing order
    Blocks,           \* blocks per piece
    Task,             \* tasks that can be running at once
    None,             \* no entry in a map
    Cwnd,             \* congestion window of every peer
    HashConcurrency,  \* permits of Store.hash_semaphore
    Corrupt,          \* peers that may send wrong data
    Bitfields,        \* bitfields a peer may send, as sets of pieces
    Leaving,          \* peers whose connection may break
    ChokeLimit,       \* how often a peer may choke us
    WriteFailLimit    \* how many writes may fail

ASSUME PieceScheduleAssumption ==
    /\ Piece \subseteq Nat /\ IsFiniteSet(Piece)
    /\ Blocks \in Nat \ {0}
    /\ None \notin Nat
    /\ {Cwnd, HashConcurrency, ChokeLimit, WriteFailLimit} \subseteq Nat
    /\ Corrupt \subseteq Peer /\ Leaving \subseteq Peer
    /\ Bitfields \subseteq SUBSET Piece
    /\ None \notin Task /\ None \notin Peer

VARIABLES
    bytefield,       \* pieces downloaded and verified
    underway,        \* underway_bytefield: piece -> Ing or Pause at an offset
    disk,            \* what is in the file for each block
    permits,         \* free permits of Store.hash_semaphore
    life,            \* membership of DefaultServant.peers and Peer.runnable
    unchoked,        \* Peer.status = UnChoke
    recv_bitfield,   \* Peer.recv_bitfield
    op_bitfield,     \* Peer.op_bitfield: the pieces the peer has
    request_pieces,  \* peer -> piece -> next offset to request
    response_pieces, \* peer -> piece -> what has been received
    inflight,        \* Dashbord.inflight
    lock,            \* holder of Peer.sync_lock
    wire,            \* requests the remote side has not answered
    task,            \* the running handlers
    chokes,          \* how often each peer has choked us
    failures         \* writes that have failed

vars == <<bytefield, underway, disk, permits, life, unchoked, recv_bitfield,
          op_bitfield, request_pieces, response_pieces, inflight, lock, wire,
          task, chokes, failures>>

pieceVars == <<bytefield, underway, disk, permits, failures>>
records == <<request_pieces, response_pieces>>
connVars == <<unchoked, recv_bitfield, op_bitfield, chokes>>

Block == 0 .. Blocks - 1
Offset == 0 .. Blocks
Status == [st : {"Ing", "Pause"}, off : Offset]
RespPiece == [off : Offset, bits : SUBSET Block, finish : BOOLEAN]

PC == {"free", "spawned", "lock", "find", "applied", "loot", "lootlock",
       "victim", "lootexit", "selfexit", "real", "store", "ub", "resp", "check",
       "permit", "hash", "verdict"}

Request == [piece : Piece, block : Nat]
TaskType == [pc : PC, peer : Peer \cup {None}, piece : Piece \cup {None},
             block : Block, good : BOOLEAN, off : Offset, victims : SUBSET Peer,
             exit : Peer \cup {None}, free : [Piece -> {None} \cup Offset]]

NoTask == [pc |-> "free", peer |-> None, piece |-> None, block |-> 0,
           good |-> TRUE, off |-> 0, victims |-> {}, exit |-> None,
           free |-> [p \in Piece |-> None]]

Goto(t, pc) == task' = [task EXCEPT ![t].pc = pc]
End(t) == task' = [task EXCEPT ![t] = NoTask]
Me(t) == task[t].peer
IsBlockTask(t) == task[t].piece # None

-----------------------------------------------------------------------------
(* Peer: the records of one peer *)

is_can_be_download(r) == unchoked[r] /\ recv_bitfield[r]

NoRecord == [p \in Piece |-> None]
IsEmpty(f) == \A p \in Piece : f[p] = None

\* has_transfer_data, from the response records and the flags of r.  HasRecords
\* does not ask whether anything is in flight.
HasRecords(r, resp) ==
    \/ ~IsEmpty(resp)
    \/ unchoked[r] /\ ~recv_bitfield[r]
has_transfer_data(r, resp) ==
    \/ ~IsEmpty(resp) /\ inflight[r] > 0
    \/ unchoked[r] /\ ~recv_bitfield[r]

has_send_window_space(r) == inflight[r] <= Cwnd

NewPiece(o) == [off |-> o, bits |-> {}, finish |-> FALSE]

\* Piece::add_finish: the offset moves over the blocks received without a gap.
Advance(o, bits) ==
    CHOOSE k \in o .. Blocks : k \notin bits /\ o .. k - 1 \subseteq bits
AddFinish(rp, b) ==
    IF rp.finish THEN rp
    ELSE LET bits == rp.bits \cup {b}
             off == Advance(rp.off, bits)
         IN  [off |-> off, bits |-> bits, finish |-> off >= Blocks]

\* reset_request_piece_origin, for every piece p with an offset f[p]: the record
\* is left alone when it already starts lower.
Resets(rq, f, p) == f[p] # None /\ ~(rq[p] # None /\ rq[p] < f[p])
ResetRequest(rq, f) ==
    [p \in Piece |-> IF Resets(rq, f, p) THEN f[p] ELSE rq[p]]
ResetResponse(rq, rs, f) ==
    [p \in Piece |-> IF Resets(rq, f, p) THEN NewPiece(f[p]) ELSE rs[p]]
At(p, o) == [NoRecord EXCEPT ![p] = o]

-----------------------------------------------------------------------------
Init ==
    /\ bytefield = {}
    /\ underway \in [Piece -> {None} \cup [st : {"Pause"}, off : Block]]
    /\ disk = [p \in Piece |-> [b \in Block |->
                 IF underway[p] # None /\ b < underway[p].off
                 THEN "good" ELSE "none"]]
    /\ permits = HashConcurrency
    /\ life = [r \in Peer |-> "absent"]
    /\ unchoked = [r \in Peer |-> FALSE]
    /\ recv_bitfield = [r \in Peer |-> FALSE]
    /\ op_bitfield = [r \in Peer |-> {}]
    /\ request_pieces = [r \in Peer |-> NoRecord]
    /\ response_pieces = [r \in Peer |-> NoRecord]
    /\ inflight = [r \in Peer |-> 0]
    /\ lock = [r \in Peer |-> None]
    /\ wire = [r \in Peer |-> <<>>]
    /\ task = [t \in Task |-> NoTask]
    /\ chokes = [r \in Peer |-> 0]
    /\ failures = 0

-----------------------------------------------------------------------------
(* Messages and the tasks that handle them *)

\* The handshake is over: add_peer.
AddPeer(r) ==
    /\ life[r] = "absent"
    /\ life' = [life EXCEPT ![r] = "live"]
    /\ UNCHANGED <<pieceVars, records, connVars, inflight, wire, lock, task>>

\* request_piece up to its lock, in a task of r that has passed the flags un
\* and bf: an unknown peer is an error and ends the handler.
EnterRequest(t, r, un, bf) ==
    task' = [task EXCEPT ![t] =
               IF life[r] = "live" /\ un /\ bf
               THEN [NoTask EXCEPT !.pc = "lock", !.peer = r] ELSE NoTask]

\* handle_un_choke and request_available.
HandleUnChoke(t, r) ==
    /\ task[t].pc = "free" /\ life[r] = "live" /\ ~unchoked[r]
    /\ unchoked' = [unchoked EXCEPT ![r] = TRUE]
    /\ EnterRequest(t, r, TRUE, recv_bitfield[r])
    /\ UNCHANGED <<pieceVars, records, recv_bitfield, op_bitfield, chokes, life,
                   inflight, wire, lock>>

\* handle_bitfield and owner_bitfield.
HandleBitfield(t, r, bits) ==
    /\ task[t].pc = "free" /\ life[r] = "live" /\ ~recv_bitfield[r]
    /\ recv_bitfield' = [recv_bitfield EXCEPT ![r] = TRUE]
    /\ op_bitfield' = [op_bitfield EXCEPT ![r] = bits]
    /\ EnterRequest(t, r, unchoked[r], TRUE)
    /\ UNCHANGED <<pieceVars, records, unchoked, chokes, life, inflight, wire,
                   lock>>

\* handle_have and have_piece_available.
HandleHave(t, r, p) ==
    /\ task[t].pc = "free" /\ life[r] = "live"
    /\ recv_bitfield[r] /\ p \notin op_bitfield[r]
    /\ op_bitfield' = [op_bitfield EXCEPT ![r] = @ \cup {p}]
    /\ EnterRequest(t, r, unchoked[r], TRUE)
    /\ UNCHANGED <<pieceVars, records, unchoked, recv_bitfield, chokes, life,
                   inflight, wire, lock>>

\* handle_choke.  The remote side forgets the requests it has not answered.
HandleChoke(r) ==
    /\ life[r] = "live" /\ unchoked[r] /\ chokes[r] < ChokeLimit
    /\ unchoked' = [unchoked EXCEPT ![r] = FALSE]
    /\ chokes' = [chokes EXCEPT ![r] = @ + 1]
    /\ wire' = [wire EXCEPT ![r] = <<>>]
    /\ UNCHANGED <<pieceVars, records, recv_bitfield, op_bitfield, life, inflight,
                   lock, task>>

\* Probe::inflight_dec.  AckTwice acknowledges a block when it is read and again
\* when it is handled.
AckTwice(n) == n - 2
Ack(n) == n - 1

\* ReadFuture: a block arrives, is acknowledged and handed to a new task.  A
\* request past the end of the piece is never answered.
ReceiveBlock(t, r, good) ==
    /\ task[t].pc = "free" /\ life[r] = "live" /\ wire[r] # <<>>
    /\ good \/ r \in Corrupt
    /\ LET m == Head(wire[r]) IN
       /\ m.block \in Block
       /\ task' = [task EXCEPT ![t] =
                     [NoTask EXCEPT !.pc = "spawned", !.peer = r, !.good = good,
                                    !.piece = m.piece, !.block = m.block]]
    /\ wire' = [wire EXCEPT ![r] = Tail(@)]
    /\ inflight' = [inflight EXCEPT ![r] = Ack(@)]
    /\ UNCHANGED <<pieceVars, records, connVars, life, lock>>

\* handle and handle_piece up to request_piece: a block of an unknown peer, or of
\* a piece that is no longer this peer's, is dropped.
HandlePiece(t) ==
    LET r == Me(t)
        p == task[t].piece
    IN  /\ task[t].pc = "spawned"
        /\ IF life[r] # "live" \/ response_pieces[r][p] = None THEN End(t)
           ELSE Goto(t, IF is_can_be_download(r) THEN "lock" ELSE "real")
        /\ UNCHANGED <<pieceVars, records, connVars, life, inflight, wire, lock>>

\* request_piece has returned Ok: a block task goes on to write_file.
RequestDone(t) ==
    IF IsBlockTask(t) THEN [task EXCEPT ![t].pc = "real"]
    ELSE [task EXCEPT ![t] = NoTask]

-----------------------------------------------------------------------------
(* request_piece *)

AcquireLock(t) ==
    /\ task[t].pc = "lock"
    /\ lock[Me(t)] = None
    /\ lock' = [lock EXCEPT ![Me(t)] = t]
    /\ Goto(t, "find")
    /\ UNCHANGED <<pieceVars, records, connVars, life, inflight, wire>>

Unlock(t) == lock' = [lock EXCEPT ![Me(t)] = None]

\* Peer::request_piece and Dashbord::send.  A peer that has been shut down
\* refuses the request, which ends the handler.
SendRequest(t, p, b) ==
    LET r == Me(t) IN
    IF life[r] = "live"
    THEN /\ wire' = [wire EXCEPT ![r] = Append(@, [piece |-> p, block |-> b])]
         /\ inflight' = [inflight EXCEPT ![r] = @ + 1]
         /\ Goto(t, "find")
         /\ UNCHANGED lock
    ELSE /\ End(t)
         /\ Unlock(t)
         /\ UNCHANGED <<wire, inflight>>

\* The pieces of r with blocks still to be requested.
Unrequested(r) ==
    {p \in Piece : request_pieces[r][p] # None /\ request_pieces[r][p] < Blocks}

\* The pieces apply_download_piece grants.
Applicable(r) ==
    {p \in Piece :
        /\ p \in op_bitfield[r] /\ p \notin bytefield
        /\ underway[p] = None \/ underway[p].st = "Pause"}

Finding(t) ==
    /\ task[t].pc = "find"
    /\ has_send_window_space(Me(t))

\* The window is full.
WindowFull(t) ==
    /\ task[t].pc = "find" /\ ~has_send_window_space(Me(t))
    /\ task' = RequestDone(t)
    /\ Unlock(t)
    /\ UNCHANGED <<pieceVars, records, connVars, life, inflight, wire>>

\* try_find_downloadable_peice takes the next block of a piece of its own.
FindUnrequested(t, p) ==
    LET r == Me(t)
        b == request_pieces[r][p]
    IN  /\ Finding(t) /\ is_can_be_download(r)
        /\ p \in Unrequested(r)
        /\ request_pieces' = [request_pieces EXCEPT ![r][p] =
                                IF b + 1 >= Blocks THEN None ELSE b + 1]
        /\ SendRequest(t, p, b)
        /\ UNCHANGED <<pieceVars, response_pieces, connVars, life>>

\* ... or applies for a new piece, the first it is granted.
ApplyDownloadPiece(t, p) ==
    LET r == Me(t)
        o == IF underway[p] = None THEN 0 ELSE underway[p].off
    IN  /\ Finding(t) /\ is_can_be_download(r)
        /\ Unrequested(r) = {}
        /\ p \in Applicable(r) /\ \A q \in Applicable(r) : p <= q
        /\ underway' = [underway EXCEPT ![p] = [st |-> "Ing", off |-> o]]
        /\ task' = [task EXCEPT ![t].pc = "applied", ![t].free = At(p, o)]
        /\ UNCHANGED <<bytefield, disk, permits, failures, records, connVars,
                       life, inflight, wire, lock>>

\* The new piece enters the records of the peer and its first block is requested.
RecordApplied(t) ==
    LET r == Me(t)
        f == task[t].free
        p == CHOOSE q \in Piece : f[q] # None
        rq == ResetRequest(request_pieces[r], f)
    IN  /\ task[t].pc = "applied"
        /\ response_pieces' = [response_pieces EXCEPT ![r] =
                                 ResetResponse(request_pieces[r], @, f)]
        /\ request_pieces' = [request_pieces EXCEPT ![r] =
                                [rq EXCEPT ![p] = @ + 1]]
        /\ SendRequest(t, p, f[p])
        /\ UNCHANGED <<pieceVars, connVars, life>>

NothingToFind(t) ==
    /\ Finding(t)
    /\ is_can_be_download(Me(t)) =>
         Unrequested(Me(t)) = {} /\ Applicable(Me(t)) = {}

ResponseLost(r) ==
    /\ inflight[r] = 0
    /\ ~IsEmpty(response_pieces[r])
    /\ IsEmpty(request_pieces[r])

\* Nothing is in flight although blocks are awaited: they are requested anew.
ResetLost(t) ==
    LET r == Me(t)
        f == [p \in Piece |-> IF response_pieces[r][p] = None THEN None
                              ELSE response_pieces[r][p].off]
    IN  /\ NothingToFind(t) /\ ResponseLost(r)
        /\ request_pieces' = [request_pieces EXCEPT ![r] = ResetRequest(@, f)]
        /\ response_pieces' = [response_pieces EXCEPT ![r] =
                                 ResetResponse(request_pieces[r], @, f)]
        /\ UNCHANGED <<pieceVars, connVars, life, inflight, wire, lock, task>>

\* Nothing to request: the lock is released before try_loot_slow_peer.
FindNothing(t) ==
    /\ NothingToFind(t) /\ ~ResponseLost(Me(t))
    /\ Goto(t, "loot")
    /\ Unlock(t)
    /\ UNCHANGED <<pieceVars, records, connVars, life, inflight, wire>>

-----------------------------------------------------------------------------
(* peer_exit *)

\* take_servant_context and shutdown: from here on nobody finds the peer, its
\* requests are refused and its tasks die at their next suspension.
TakePeer(r) ==
    /\ life' = [life EXCEPT ![r] = "exiting"]
    /\ wire' = [wire EXCEPT ![r] = <<>>]

\* The connection breaks, or a handler of r has failed.
PeerExit(r) ==
    /\ r \in Leaving /\ life[r] = "live"
    /\ TakePeer(r)
    /\ UNCHANGED <<pieceVars, records, connVars, inflight, lock, task>>

\* set_piece_status_pause.
Pause(s) == [s EXCEPT !.st = "Pause"]

\* The pieces of r are handed back.
ReturnPieces(r) ==
    /\ life[r] = "exiting"
    /\ life' = [life EXCEPT ![r] = "gone"]
    /\ underway' = [p \in Piece |->
                      IF response_pieces[r][p] # None /\ underway[p] # None
                      THEN Pause(underway[p]) ELSE underway[p]]
    /\ UNCHANGED <<bytefield, disk, permits, failures, records, connVars,
                   inflight, wire, lock, task>>

\* A task of a peer that was shut down is dropped where it is suspended: before
\* its first poll, waiting for a lock or a permit, or in on_peer_exit.  A task
\* that need not wait runs on.
Suspended(t) ==
    \/ task[t].pc = "spawned"
    \/ task[t].pc \in {"lootexit", "selfexit"} /\ life[task[t].exit] = "gone"
    \/ task[t].pc \in {"lock", "lootlock"} /\ lock[Me(t)] # None
    \/ task[t].pc = "permit" /\ permits = 0

\* The guard of a dropped task is released with it.  ReleaseNothing leaks it.
ReleaseNothing(t) == UNCHANGED lock
ReleaseGuard(t) == IF lock[Me(t)] = t THEN Unlock(t) ELSE UNCHANGED lock

DropTask(t) ==
    /\ task[t].pc # "free" /\ life[Me(t)] \in {"exiting", "gone"}
    /\ Suspended(t)
    /\ ReleaseGuard(t)
    /\ End(t)
    /\ UNCHANGED <<pieceVars, records, connVars, life, inflight, wire>>

-----------------------------------------------------------------------------
(* try_loot_slow_peer and try_free_slow_piece *)

Finished == Piece \subseteq bytefield

\* check_piece_download_finished.
LootNotNeeded(t) ==
    /\ task[t].pc = "loot" /\ Finished
    /\ task' = RequestDone(t)
    /\ UNCHANGED <<pieceVars, records, connVars, life, inflight, wire, lock>>

LootEnter(t) ==
    /\ task[t].pc = "loot" /\ ~Finished
    /\ Goto(t, "lootlock")
    /\ UNCHANGED <<pieceVars, records, connVars, life, inflight, wire, lock>>

LootLock(t) ==
    /\ task[t].pc = "lootlock" /\ lock[Me(t)] = None
    /\ lock' = [lock EXCEPT ![Me(t)] = t]
    /\ task' = [task EXCEPT ![t].pc = "victim", ![t].free = NoRecord,
                  ![t].victims = {r \in Peer \ {Me(t)} : life[r] = "live"}]
    /\ UNCHANGED <<pieceVars, records, connVars, life, inflight, wire>>

\* The offsets of the pieces that t can take from v.
Loot(t, v) ==
    [p \in Piece |-> IF p \in op_bitfield[Me(t)] /\ response_pieces[v][p] # None
                     THEN underway[p].off ELSE None]

\* get_piece_status_idx(..).unwrap() would fail.
LootPanics(t, v) ==
    \E p \in Piece : /\ p \in op_bitfield[Me(t)] /\ response_pieces[v][p] # None
                     /\ underway[p] = None

\* t is faster than v and takes the pieces it can download; a victim without
\* transfers is shut down.  The bandwidths are any.
LootVictim(t, v) ==
    LET f == Loot(t, v)
        rest == [p \in Piece |-> IF f[p] # None THEN None ELSE response_pieces[v][p]]
        idle == ~has_transfer_data(v, rest)
    IN  /\ task[t].pc = "victim" /\ IsEmpty(task[t].free)
        /\ v \in task[t].victims /\ ~LootPanics(t, v)
        /\ response_pieces' = [response_pieces EXCEPT ![v] = rest]
        /\ request_pieces' = [request_pieces EXCEPT ![v] =
                  [p \in Piece |-> IF f[p] # None THEN None ELSE @[p]]]
        /\ task' = [task EXCEPT ![t].free = f, ![t].victims = @ \ {v},
                      ![t].exit = v,
                      ![t].pc = IF idle /\ life[v] = "live" THEN "lootexit" ELSE "victim"]
        /\ IF idle /\ life[v] = "live" THEN TakePeer(v) ELSE UNCHANGED <<life, wire>>
        /\ UNCHANGED <<pieceVars, connVars, inflight, lock>>

\* The unwrap fails in the middle of the loop over the victim's pieces: the task
\* panics and its peer is shut down (happen_exeception).
LootPanic(t, v) ==
    LET r == Me(t) IN
    /\ task[t].pc = "victim" /\ IsEmpty(task[t].free)
    /\ v \in task[t].victims /\ LootPanics(t, v)
    /\ \E S \in SUBSET {p \in Piece : p \in op_bitfield[r] /\ underway[p] # None} :
         /\ response_pieces' = [response_pieces EXCEPT ![v] =
                  [p \in Piece |-> IF p \in S THEN None ELSE @[p]]]
         /\ request_pieces' = [request_pieces EXCEPT ![v] =
                  [p \in Piece |-> IF p \in S THEN None ELSE @[p]]]
    /\ Unlock(t)
    /\ End(t)
    /\ IF life[r] = "live" THEN TakePeer(r) ELSE UNCHANGED <<life, wire>>
    /\ UNCHANGED <<pieceVars, connVars, inflight>>

\* peer_exit of the victim has returned.
VictimExited(t) ==
    /\ task[t].pc = "lootexit"
    /\ life[task[t].exit] = "gone"
    /\ Goto(t, "victim")
    /\ UNCHANGED <<pieceVars, records, connVars, life, inflight, wire, lock>>

\* The loot becomes the looter's and is requested.
LootReset(t) ==
    LET r == Me(t)
        f == task[t].free
    IN  /\ task[t].pc = "victim" /\ ~IsEmpty(f)
        /\ request_pieces' = [request_pieces EXCEPT ![r] = ResetRequest(@, f)]
        /\ response_pieces' = [response_pieces EXCEPT ![r] =
                                 ResetResponse(request_pieces[r], @, f)]
        /\ Unlock(t)
        /\ IF life[r] # "live" THEN End(t)
           ELSE IF is_can_be_download(r) THEN Goto(t, "lock")
           ELSE task' = RequestDone(t)
        /\ UNCHANGED <<pieceVars, connVars, life, inflight, wire>>

\* No slower peer has anything to take: a looter without transfers shuts itself
\* down.
LootNothing(t) ==
    LET r == Me(t)
        idle == ~has_transfer_data(r, response_pieces[r]) /\ life[r] = "live"
    IN  /\ task[t].pc = "victim" /\ IsEmpty(task[t].free)
        /\ Unlock(t)
        /\ IF idle
           THEN TakePeer(r) /\ task' = [task EXCEPT ![t].pc = "selfexit", ![t].exit = r]
           ELSE task' = RequestDone(t) /\ UNCHANGED <<life, wire>>
        /\ UNCHANGED <<pieceVars, records, connVars, inflight>>

\* peer_exit of the looter itself has returned.
SelfExited(t) ==
    /\ task[t].pc = "selfexit" /\ life[task[t].exit] = "gone"
    /\ task' = RequestDone(t)
    /\ UNCHANGED <<pieceVars, records, connVars, life, inflight, wire, lock>>

-----------------------------------------------------------------------------
(* write_file and checkout_piece_hash *)

\* get_seq_last_piece_block_offset.
ReadOffset(t) ==
    LET rp == response_pieces[Me(t)][task[t].piece] IN
    /\ task[t].pc = "real"
    /\ IF rp = None THEN End(t)
       ELSE task' = [task EXCEPT ![t].pc = "store", ![t].off = rp.off]
    /\ UNCHANGED <<pieceVars, records, connVars, life, inflight, wire, lock>>

\* Store::write.
StoreBlock(t) ==
    /\ task[t].pc = "store"
    /\ disk' = [disk EXCEPT ![task[t].piece][task[t].block] =
                   IF task[t].good THEN "good" ELSE "bad"]
    /\ Goto(t, "ub")
    /\ UNCHANGED <<bytefield, underway, permits, failures, records, connVars,
                   life, inflight, wire, lock>>

\* Store::write fails: the piece is requested again from this block on.
StoreFails(t) ==
    LET r == Me(t)
        f == At(task[t].piece, task[t].block)
    IN  /\ task[t].pc = "store" /\ failures < WriteFailLimit
        /\ failures' = failures + 1
        /\ request_pieces' = [request_pieces EXCEPT ![r] = ResetRequest(@, f)]
        /\ response_pieces' = [response_pieces EXCEPT ![r] =
                                 ResetResponse(request_pieces[r], @, f)]
        /\ End(t)
        /\ UNCHANGED <<bytefield, underway, disk, permits, connVars, life,
                       inflight, wire, lock>>

\* update_write_piece_offset writes the offset read before the block was stored.
\* OffsetAfter writes the end of the block itself.
OffsetAfter(t) == task[t].block + 1
OffsetWritten(t) == task[t].off
UpdateWritePieceOffset(t) ==
    LET p == task[t].piece IN
    /\ task[t].pc = "ub"
    /\ underway' = IF underway[p] # None /\ underway[p].st = "Ing"
                   THEN [underway EXCEPT ![p].off = OffsetWritten(t)]
                   ELSE underway
    /\ Goto(t, "resp")
    /\ UNCHANGED <<bytefield, disk, permits, failures, records, connVars, life,
                   inflight, wire, lock>>

\* update_resoponse_piece and on_store_block_success.
UpdateResponsePiece(t) ==
    LET r == Me(t)
        p == task[t].piece
    IN  /\ task[t].pc = "resp"
        /\ response_pieces' =
             IF response_pieces[r][p] = None THEN response_pieces
             ELSE [response_pieces EXCEPT ![r][p] = AddFinish(@, task[t].block)]
        /\ Goto(t, "check")
        /\ UNCHANGED <<pieceVars, request_pieces, connVars, life, inflight, wire,
                       lock>>

\* piece_recv_finish and remove_finish_piece.
CheckRecvFinish(t) ==
    LET r == Me(t)
        p == task[t].piece
        rp == response_pieces[r][p]
    IN  /\ task[t].pc = "check"
        /\ IF rp # None /\ rp.finish
           THEN /\ response_pieces' = [response_pieces EXCEPT ![r][p] = None]
                /\ Goto(t, "permit")
           ELSE End(t) /\ UNCHANGED response_pieces
        /\ UNCHANGED <<pieceVars, request_pieces, connVars, life, inflight, wire,
                       lock>>

\* Store::checkout: wait for a permit, then hash what is in the file.
AcquirePermit(t) ==
    /\ task[t].pc = "permit" /\ permits > 0
    /\ permits' = permits - 1
    /\ Goto(t, "hash")
    /\ UNCHANGED <<bytefield, underway, disk, failures, records, connVars, life,
                   inflight, wire, lock>>

\* HashAnything does not look at the file.
Intact(p) == \A b \in Block : disk[p][b] = "good"
HashAnything(p) == TRUE
HashMatches(p) == Intact(p)

Checkout(t) ==
    /\ task[t].pc = "hash"
    /\ permits' = permits + 1
    /\ task' = [task EXCEPT ![t].pc = "verdict",
                            ![t].good = HashMatches(task[t].piece)]
    /\ UNCHANGED <<bytefield, underway, disk, failures, records, connVars, life,
                   inflight, wire, lock>>

\* mark_piece_finish, or reset_underway_piece.
Verdict(t) ==
    LET p == task[t].piece IN
    /\ task[t].pc = "verdict"
    /\ IF task[t].good
       THEN /\ bytefield' = bytefield \cup {p}
            /\ underway' = [underway EXCEPT ![p] = None]
       ELSE /\ underway' = [underway EXCEPT ![p] = [st |-> "Pause", off |-> 0]]
            /\ UNCHANGED bytefield
    /\ End(t)
    /\ UNCHANGED <<disk, permits, failures, records, connVars, life, inflight,
                   wire, lock>>

-----------------------------------------------------------------------------
TaskStep(t) ==
    \/ HandlePiece(t) \/ AcquireLock(t) \/ WindowFull(t)
    \/ \E p \in Piece : FindUnrequested(t, p) \/ ApplyDownloadPiece(t, p)
    \/ RecordApplied(t) \/ ResetLost(t) \/ FindNothing(t)
    \/ LootNotNeeded(t) \/ LootEnter(t) \/ LootLock(t)
    \/ \E v \in Peer : LootVictim(t, v) \/ LootPanic(t, v)
    \/ VictimExited(t) \/ LootReset(t) \/ LootNothing(t) \/ SelfExited(t)
    \/ ReadOffset(t) \/ StoreBlock(t) \/ UpdateWritePieceOffset(t)
    \/ UpdateResponsePiece(t) \/ CheckRecvFinish(t)
    \/ AcquirePermit(t) \/ Checkout(t) \/ Verdict(t)

Next ==
    \/ \E r \in Peer : AddPeer(r) \/ HandleChoke(r) \/ PeerExit(r) \/ ReturnPieces(r)
    \/ \E t \in Task, r \in Peer :
          \/ HandleUnChoke(t, r)
          \/ \E bits \in Bitfields : HandleBitfield(t, r, bits)
          \/ \E p \in Piece : HandleHave(t, r, p)
          \/ \E good \in BOOLEAN : ReceiveBlock(t, r, good)
    \/ \E t \in Task : TaskStep(t) \/ StoreFails(t) \/ DropTask(t)

Spec == Init /\ [][Next]_vars

\* Worker threads run every task, the remote side answers, and a message finds a
\* task.  Nothing is assumed of chokes, failing writes and broken connections.
Fairness ==
    /\ \A r \in Peer :
         /\ WF_vars(AddPeer(r)) /\ WF_vars(ReturnPieces(r))
         /\ WF_vars(\E t \in Task : HandleUnChoke(t, r))
         /\ WF_vars(\E t \in Task : \E bits \in Bitfields : HandleBitfield(t, r, bits))
         /\ WF_vars(\E t \in Task : ReceiveBlock(t, r, TRUE))
    /\ \A t \in Task : WF_vars(TaskStep(t))

FairSpec == Spec /\ Fairness

-----------------------------------------------------------------------------
\* Every variable keeps its shape: permits, inflight and the records stay in range.
TypeOK ==
    /\ bytefield \subseteq Piece
    /\ underway \in [Piece -> {None} \cup Status]
    /\ disk \in [Piece -> [Block -> {"none", "good", "bad"}]]
    /\ permits \in 0 .. HashConcurrency
    /\ life \in [Peer -> {"absent", "live", "exiting", "gone"}]
    /\ unchoked \in [Peer -> BOOLEAN]
    /\ recv_bitfield \in [Peer -> BOOLEAN]
    /\ op_bitfield \in [Peer -> SUBSET Piece]
    /\ request_pieces \in [Peer -> [Piece -> {None} \cup 0 .. Blocks + 1]]
    /\ response_pieces \in [Peer -> [Piece -> {None} \cup RespPiece]]
    /\ inflight \in [Peer -> Nat]
    /\ chokes \in [Peer -> 0 .. ChokeLimit]
    /\ lock \in [Peer -> {None} \cup Task]
    /\ wire \in [Peer -> Seq(Request)]
    /\ task \in [Task -> TaskType]
    /\ failures \in 0 .. WriteFailLimit

StoredBelow(p, o) == \A b \in Block : b < o => disk[p][b] # "none"

\* Every offset from which a download is resumed has everything below it in the
\* file: the offsets in underway_bytefield, which peer_exit and looting pass on
\* and save_progress stores, and those of the response records ("completed
\* offset, the next request starts here").  The offset of underway_bytefield is
\* written by tasks that may have read it long before.
PrefixStored ==
    /\ \A p \in Piece : underway[p] # None => StoredBelow(p, underway[p].off)
    /\ \A r \in Peer, p \in Piece :
          response_pieces[r][p] # None => StoredBelow(p, response_pieces[r][p].off)

\* A piece of bytefield ("really downloaded") is in the file as it was verified.
FinishedIntact == \A p \in bytefield : Intact(p)

\* No request leaves the piece: a piece that was completely received is verified,
\* or paused at 0 and given out from its beginning.  The code does not keep this:
\* see the run piece_past_end.
RequestInPiece ==
    \A r \in Peer : \A i \in DOMAIN wire[r] : wire[r][i].block \in Block

\* sync_lock serialises the request loop and the looting of a peer, and is never
\* left locked by a task that was dropped when its peer was shut down.
Critical == {"find", "applied", "victim", "lootexit"}
LockExclusive ==
    \A r \in Peer, t \in Task :
        lock[r] = t <=> task[t].pc \in Critical /\ task[t].peer = r

\* A piece being downloaded belongs to somebody: to a peer that is running or
\* about to hand its pieces back, or to a task that hands it over or verifies it.
\* peer_exit gives back ("return the pieces in progress") what a peer had.  The
\* code does not keep this: see the run piece_orphan.
Owned(p) ==
    \/ \E r \in Peer : life[r] \in {"live", "exiting"} /\ response_pieces[r][p] # None
    \/ \E t \in Task :
          \/ task[t].pc \in {"applied", "victim", "lootexit"} /\ task[t].free[p] # None
          \/ task[t].pc \in {"permit", "hash", "verdict"} /\ task[t].piece = p
NoOrphan ==
    \A p \in Piece : underway[p] # None /\ underway[p].st = "Ing" => Owned(p)

\* The piece a looter takes has an entry in underway_bytefield: the unwrap in
\* try_free_slow_piece.  The code does not keep this.
LootFindsStatus ==
    \A t \in Task : task[t].pc = "victim" =>
        \A v \in task[t].victims : ~LootPanics(t, v)

\* A piece that was looted is not downloaded by a third peer as well: it is
\* not paused, "lest another peer takes it".  The code does not keep this.
Downloads(r, p) == life[r] = "live" /\ response_pieces[r][p] # None
OneOwner ==
    \A p \in Piece : \A r1, r2 \in Peer :
        Downloads(r1, p) /\ Downloads(r2, p) => r1 = r2

\* The download gets done unless every peer is gone or one has choked us; responses
\* that are lost are requested again (request_piece).  When a write has failed, the
\* hash check may send a piece back after the last message of its peer: then it is at
\* least paused, for the next peer that applies.  After a choke nothing is promised:
\* the requests the remote forgot stay counted in inflight, and an unchoke that finds
\* the window full requests nothing.
Choked == \E r \in Peer : chokes[r] > 0
SentBack == failures > 0 /\ \A p \in Piece \ bytefield : underway[p].st = "Pause"
Settled == Finished \/ Choked \/ SentBack \/ \A r \in Peer : life[r] = "gone"
Completes == <>[]Settled
=============================================================================
