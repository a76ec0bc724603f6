---------------------------- MODULE MCCompletion ----------------------------
(***************************************************************************)
(* What a download comes to, in the two views of MCDownload: pieces that   *)
(* peers share out (PieceSchedule) and progress that survives the end of   *)
(* the process (TaskProgress, here P).                                     *)
(***************************************************************************)
EXTENDS PieceSchedule

CONSTANTS
    PBlocks,   \* Blocks of P
    BufLimit, CounterSize, BadLimit, AgainLimit, CrashLimit, PowerLoss

VARIABLES
    view,  \* "schedule" or "progress"
    tasks, record, status, download, cache, durable, writer, buf_size, db,
    bads, agains, crashes

P == INSTANCE TaskProgress WITH Blocks <- PBlocks

progressOnly == <<tasks, record, status, download, cache, durable, writer, buf_size, db,
                  bads, agains, crashes>>
scheduleOnly == <<disk, permits, life, unchoked, recv_bitfield, op_bitfield, request_pieces,
                  response_pieces, inflight, lock, wire, chokes, failures>>
progVars == P!vars

Progress == view = "progress"
Schedule == view = "schedule"

\* The variables of the other view have one value throughout.
ViewInit ==
    \/ /\ Progress /\ P!Init
       /\ disk = [p \in Piece |-> [k \in Block |-> "good"]] /\ permits = None /\ life = None /\ unchoked = None
       /\ recv_bitfield = None /\ op_bitfield = None /\ request_pieces = None
       /\ response_pieces = None /\ inflight = None /\ lock = None /\ wire = None
       /\ chokes = None /\ failures = None
    \/ /\ Schedule /\ Init
       /\ tasks = None /\ record = None /\ status = None /\ download = None
       /\ cache = None /\ durable = None /\ writer = None /\ buf_size = None /\ db = None
       /\ bads = None /\ agains = None /\ crashes = None

ViewNext ==
    /\ UNCHANGED view
    /\ \/ Progress /\ P!Next /\ UNCHANGED scheduleOnly
       \/ Schedule /\ Next /\ UNCHANGED progressOnly

\* Fairness of PieceSchedule and Fairness of TaskProgress, each in its view.
ViewFairness ==
    /\ \A r \in Peer :
          /\ WF_vars(Schedule /\ AddPeer(r)) /\ WF_vars(Schedule /\ ReturnPieces(r))
          /\ WF_vars(Schedule /\ \E t \in Task : HandleUnChoke(t, r))
          /\ WF_vars(Schedule /\ \E t \in Task, bits \in Bitfields : HandleBitfield(t, r, bits))
          /\ WF_vars(Schedule /\ \E t \in Task : ReceiveBlock(t, r, TRUE))
    /\ \A t \in Task : /\ WF_vars(Schedule /\ TaskStep(t))
                       /\ WF_progVars(Progress /\ P!TaskStep(t))
    /\ WF_progVars(Progress /\ P!AddTorrent) /\ WF_progVars(Progress /\ P!StartTask)
    /\ WF_progVars(Progress /\ P!InsertTask)
    /\ \A p \in Piece :
          /\ WF_progVars(Progress /\ P!Apply(p))
          /\ \A k \in 0 .. PBlocks - 1 :
                SF_progVars(Progress /\ \E t \in Task :
                                P!Awaited(p, k) /\ P!Receive(t, p, k, TRUE))

ViewSpec == ViewInit /\ [][ViewNext]_<<view, vars, progressOnly>> /\ ViewFairness

-----------------------------------------------------------------------------
\* Completes of PieceSchedule: under fair scheduling the pieces get done, or are
\* open to the next peer that applies.
Completed == <>[](Schedule => Settled)

\* Recovers of TaskProgress: after a power loss the torrent still gets complete.
Recovered == <>[](Progress => P!Complete)
=============================================================================
