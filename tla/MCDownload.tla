----------------------------- MODULE MCDownload -----------------------------
(***************************************************************************)
(* The two views of a download, explored side by side: how it is saved     *)
(* (module TaskProgress) and how its peers share it out (PieceSchedule,    *)
(* here S).  A behaviour is of one view; the views have variables of the   *)
(* same name, and what only the other one declares stays None.             *)
(***************************************************************************)
EXTENDS TaskProgress, TLC

CONSTANTS
    SPiece, SBlocks,   \* Piece and Blocks of S
    Peer, Cwnd, HashConcurrency, Corrupt, Bitfields, Leaving, ChokeLimit, WriteFailLimit

VARIABLES
    view,  \* "progress" or "schedule"
    disk, permits, life, unchoked, recv_bitfield, op_bitfield, request_pieces,
    response_pieces, inflight, lock, wire, chokes, failures

S == INSTANCE PieceSchedule WITH Piece <- SPiece, Blocks <- SBlocks

progressOnly == <<tasks, record, status, download, cache, durable, writer, buf_size, db,
                  bads, agains, crashes>>
scheduleOnly == <<disk, permits, life, unchoked, recv_bitfield, op_bitfield, request_pieces,
                  response_pieces, inflight, lock, wire, chokes, failures>>

DownInit ==
    \/ /\ view = "progress" /\ Init
       /\ disk = None /\ permits = None /\ life = None /\ unchoked = None
       /\ recv_bitfield = None /\ op_bitfield = None /\ request_pieces = None
       /\ response_pieces = None /\ inflight = None /\ lock = None /\ wire = None
       /\ chokes = None /\ failures = None
    \/ /\ view = "schedule" /\ S!Init
       /\ tasks = None /\ record = None /\ status = None /\ download = None
       /\ cache = None /\ durable = None /\ writer = None /\ buf_size = None /\ db = None
       /\ bads = None /\ agains = None /\ crashes = None

DownNext ==
    /\ UNCHANGED view
    /\ \/ view = "progress" /\ Next /\ UNCHANGED scheduleOnly
       \/ view = "schedule" /\ S!Next /\ UNCHANGED progressOnly

Progress == view = "progress"
Schedule == view = "schedule"

Symmetric == Permutations(Task)

-----------------------------------------------------------------------------
(* The properties of the two modules, each in its view.  RowDurable and            *)
(* FinishedComplete speak of the row, which is None in the view of the schedule.   *)

\* Every variable keeps its shape: counters of written bytes and downloaded blocks,
\* permits, inflight and the records of requests and responses.
ShapesKept == (Progress => TypeOK) /\ (Schedule => S!TypeOK)

\* PrefixStored of PieceSchedule: below an offset to resume from, all is in the file.
PrefixStored == Schedule => S!PrefixStored
=============================================================================
