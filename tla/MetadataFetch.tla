---------------------------- MODULE MetadataFetch ----------------------------
(***************************************************************************)
(* How a magnet link gets its torrent: the extension handshake and the     *)
(* ut_metadata pieces of base_peer.rs and default_servant.rs, the callbacks*)
(* of core/task/magnet.rs, and load_torrent_from_magnet_uri, which waits   *)
(* for the result.  Every message of a peer is handled by a task of its    *)
(* own (persist_listen), so two pieces of one peer are written at once; the*)
(* locks of metadata and metadata_bitfield bound the steps.                *)
(*                                                                         *)
(* Peers speak the extension protocol here; the others never get this far  *)
(* (module MagnetDispatch).  The remote side is not under src: it sends its*)
(* handshake once, answers each request with that piece under the id it    *)
(* was told, and may repeat an answer, refuse, or leave, as long as one    *)
(* peer stays that does neither of the last two.                           *)
(***************************************************************************)
EXTENDS Integers, Sequences, FiniteSets, FiniteSetsExt

CONSTANTS Peers,
          Pieces,       \* pieces of the metadata: ceil(size / METADATA_PIECE_SIZE)
          TheirIds,     \* ids a remote may give ut_metadata
          Early,        \* the remote may answer before the peer is registered
          RepeatLimit   \* answers that are repeated, of all remotes

ASSUME MdAssumption == Pieces \in Nat \ {0}

VARIABLES peer,         \* per peer: registration, handshake, ids, metadata
          inbox,        \* messages of the remote not yet taken
          tasks,        \* per peer: the running handlers
          remote,       \* per peer: its ut_metadata id, unanswered requests
          task          \* the ParseMagnet task, its subscriber, TaskManager

mdVars == <<peer, inbox, tasks, remote, task>>

\* ExtendedId: what this side calls its extensions, and what it told the remote.
UtMetadata == 2
Handshake == 0
Ours == {0, 1, 2, 3, 4, 6}

Index == 0..(Pieces - 1)

PeerNew == [reg |-> "none", hs |-> FALSE, ids |-> {<<0, Handshake>>},
            init |-> FALSE, data |-> {}, bits |-> {}, idx |-> 0]

MdInit ==
  /\ peer = [p \in Peers |-> PeerNew]
  /\ inbox = [p \in Peers |-> <<>>]
  /\ tasks = [p \in Peers |-> {}]
  /\ \E ids \in [Peers -> TheirIds] :
       remote = [p \in Peers |-> [id |-> ids[p], greeted |-> FALSE, reqs |-> <<>>,
                                  repeats |-> 0, refused |-> FALSE, n |-> 0]]
  /\ task = [finished |-> FALSE, sent |-> 0, caller |-> "waiting", listed |-> TRUE]

Transform(p, id) == {e \in Ours : <<id, e>> \in peer[p].ids}

(***************************************************************************)
(* DefaultServant::add_peer.                                               *)
(***************************************************************************)
\* on_handshake_success: request_extend_handsake.
Greet(p) ==
  /\ peer[p].reg = "none"
  /\ peer' = [peer EXCEPT ![p].reg = "greeted"]
  /\ UNCHANGED <<inbox, tasks, remote, task>>

Register(p) ==
  /\ peer[p].reg = "greeted"
  /\ peer' = [peer EXCEPT ![p].reg = "in"]
  /\ UNCHANGED <<inbox, tasks, remote, task>>

(***************************************************************************)
(* The remote side (external).                                             *)
(***************************************************************************)
\* Messages of one peer are told apart by the order they were sent in.
Post(p, k, ext, i) ==
  inbox' = [inbox EXCEPT ![p] = Append(@, [k |-> k, ext |-> ext, piece |-> i, n |-> remote[p].n])]

Willing(p) == peer[p].reg # "gone" /\ ~remote[p].refused

RemoteGreets(p) ==
  /\ ~remote[p].greeted
  /\ peer[p].reg \in (IF Early THEN {"greeted", "in"} ELSE {"in"})
  /\ remote' = [remote EXCEPT ![p].greeted = TRUE, ![p].n = @ + 1]
  /\ Post(p, "hello", Handshake, remote[p].id)
  /\ UNCHANGED <<peer, tasks, task>>

RemoteAnswers(p) ==
  /\ remote[p].reqs # <<>>
  /\ remote' = [remote EXCEPT ![p].reqs = Tail(@), ![p].n = @ + 1]
  /\ Post(p, "data", UtMetadata, Head(remote[p].reqs))
  /\ UNCHANGED <<peer, tasks, task>>

RemoteRepeats(p) ==
  /\ remote[p].reqs # <<>>
  /\ MapThenSumSet(LAMBDA q : remote[q].repeats, Peers) < RepeatLimit
  /\ remote' = [remote EXCEPT ![p].repeats = @ + 1, ![p].n = @ + 1]
  /\ Post(p, "data", UtMetadata, Head(remote[p].reqs))
  /\ UNCHANGED <<peer, tasks, task>>

RemoteRefuses(p) ==
  /\ remote[p].reqs # <<>>
  /\ \E q \in Peers \ {p} : Willing(q)
  /\ remote' = [remote EXCEPT ![p].reqs = Tail(@), ![p].refused = TRUE, ![p].n = @ + 1]
  /\ Post(p, "reject", UtMetadata, Head(remote[p].reqs))
  /\ UNCHANGED <<peer, tasks, task>>

(***************************************************************************)
(* DefaultServant::handle and handle_extension_protocol.                   *)
(***************************************************************************)
\* extend_id_map turns the id of a message into an extension, whatever the message
\* is.  Of the extensions only the handshake and ut_metadata do anything, and only
\* they are in the map here: a message whose id is in it is handled.
Understood(p, m) == Transform(p, m.ext) # {}

\* A message of a peer that is not registered (yet) is dropped; one whose id is
\* not in extend_id_map is ignored.  The listener ends with the servant, which the
\* task and the running handlers keep.
Receive(p) ==
  /\ inbox[p] # <<>>
  /\ task.listed \/ \E q \in Peers : tasks[q] # {}
  /\ inbox' = [inbox EXCEPT ![p] = Tail(@)]
  /\ LET m == Head(inbox[p])
         known == peer[p].reg = "in" /\ Understood(p, m)
     IN tasks' = IF known THEN [tasks EXCEPT ![p] = @ \cup {[m |-> m, pc |-> "start"]}]
                 ELSE tasks
  /\ UNCHANGED <<peer, remote, task>>

Running(p, t, m, pc) == t \in tasks[p] /\ t.m.k = m /\ t.pc = pc

Go(p, t, pc) == tasks' = [tasks EXCEPT ![p] = (@ \ {t}) \cup {[t EXCEPT !.pc = pc]}]
End(p, t) == tasks' = [tasks EXCEPT ![p] = @ \ {t}]

\* peer_exit: the peer leaves, and with it its listener and its task pool.
Exit(p) ==
  /\ peer' = [peer EXCEPT ![p].reg = "gone"]
  /\ inbox' = [inbox EXCEPT ![p] = <<>>]
  /\ tasks' = [tasks EXCEPT ![p] = {}]
  /\ remote' = [remote EXCEPT ![p].reqs = <<>>]

\* Mutant: the request is not written.
AskNone(p, i) == remote' = remote
RequestPiece(p, i) == remote' = [remote EXCEPT ![p].reqs = Append(@, i)]

\* handle_handshake, then on_extend_handshake_success: request_metadata_piece.
\* A second handshake is an error and ends the peer.
HandleHandshake(p, t) ==
  /\ Running(p, t, "hello", "start")
  /\ IF peer[p].hs THEN Exit(p)
     ELSE /\ peer' = [peer EXCEPT ![p].hs = TRUE,
                                  ![p].ids = {x \in @ : x[1] # t.m.piece}
                                               \cup {<<t.m.piece, UtMetadata>>}]
          /\ RequestPiece(p, peer[p].idx)
          /\ End(p, t)
          /\ UNCHANGED inbox
  /\ UNCHANGED task

\* handle_ut_metadata_data: init_metadata_piece and the copy of set_metadata_piece.
WriteData(p, t) ==
  /\ Running(p, t, "data", "start")
  /\ peer' = [peer EXCEPT ![p].init = TRUE, ![p].data = @ \cup {t.m.piece}]
  /\ Go(p, t, "mark")
  /\ UNCHANGED <<inbox, remote, task>>

\* Mutant: every piece that is written counts as the next one.
NextAlways(idx, bits) == idx + 1

\* The walk over metadata_bitfield from metadata_piece_idx.
NextMissing(idx, bits) == Min({i \in idx..Pieces : i \notin bits})

\* The second half of set_metadata_piece.
MarkPiece(p, t) ==
  /\ Running(p, t, "data", "mark")
  /\ LET bits == peer[p].bits \cup {t.m.piece}
     IN peer' = [peer EXCEPT ![p].bits = bits, ![p].idx = NextMissing(@, bits)]
  /\ Go(p, t, "check")
  /\ UNCHANGED <<inbox, remote, task>>

\* is_metadata_complete, then on_metadata_complete or on_metadata_piece_write.
CheckComplete(p, t) ==
  /\ Running(p, t, "data", "check")
  /\ IF peer[p].idx >= Pieces
       THEN Go(p, t, "parse") /\ UNCHANGED remote
       ELSE RequestPiece(p, peer[p].idx) /\ End(p, t)
  /\ UNCHANGED <<peer, inbox, task>>

\* on_metadata_complete: notify_event, whose error is ignored once the caller left.
Notify(p, t) ==
  /\ Running(p, t, "data", "parse")
  /\ task' = [task EXCEPT !.sent = IF task.caller = "waiting" THEN 1 ELSE @]
  /\ Go(p, t, "finish")
  /\ UNCHANGED <<peer, inbox, remote>>

\* finish: TaskManagerCallback takes the task out, at most once.
Finish(p, t) ==
  /\ Running(p, t, "data", "finish")
  /\ task' = [task EXCEPT !.finished = TRUE, !.listed = FALSE]
  /\ End(p, t)
  /\ UNCHANGED <<peer, inbox, remote>>

\* handle_ut_metadata_reject does nothing.
HandleReject(p, t) ==
  /\ Running(p, t, "reject", "start")
  /\ End(p, t)
  /\ UNCHANGED <<peer, inbox, remote, task>>

\* load_torrent_from_magnet_uri gets the torrent and shuts the task down.
CallerReturns ==
  /\ task.caller = "waiting" /\ task.sent = 1
  /\ task' = [task EXCEPT !.caller = "returned", !.listed = FALSE]
  /\ UNCHANGED <<peer, inbox, tasks, remote>>

\* The connection ends: the peer exits with whatever it was doing.
ReadEnds(p) ==
  /\ peer[p].reg = "in"
  /\ \E q \in Peers \ {p} : Willing(q)
  /\ Exit(p)
  /\ UNCHANGED task

HandlerStep(p, t) ==
  \/ HandleHandshake(p, t) \/ WriteData(p, t) \/ MarkPiece(p, t)
  \/ CheckComplete(p, t) \/ Notify(p, t) \/ Finish(p, t) \/ HandleReject(p, t)

MdNext ==
  \/ \E p \in Peers : \/ Greet(p) \/ Register(p) \/ Receive(p) \/ ReadEnds(p)
                      \/ RemoteGreets(p) \/ RemoteAnswers(p) \/ RemoteRepeats(p)
                      \/ RemoteRefuses(p)
  \/ \E p \in Peers : \E t \in tasks[p] : HandlerStep(p, t)
  \/ CallerReturns

MdSpec == MdInit /\ [][MdNext]_mdVars

-----------------------------------------------------------------------------
MdTypeOK ==
  /\ \A p \in Peers :
       /\ peer[p].reg \in {"none", "greeted", "in", "gone"}
       /\ peer[p].idx \in 0..Pieces
       /\ peer[p].data \subseteq Index /\ peer[p].bits \subseteq Index
       /\ \A t \in tasks[p] : t.pc \in {"start", "mark", "check", "parse", "finish"}
  /\ task.caller \in {"waiting", "returned"} /\ task.sent \in 0..1

\* The metadata is parsed only when every byte of it came from that peer: no
\* order in which two pieces are written, repeated or refused makes
\* is_metadata_complete true early (base_peer.rs: set_metadata_piece).
ParsedWhole ==
  \A p \in Peers : \A t \in tasks[p] :
    t.pc \in {"parse", "finish"} => peer[p].data = Index

\* The caller of load_torrent_from_magnet_uri gets its torrent when some peer stays
\* and keeps answering, and TaskManager forgets the task.
MetadataArrives ==
  /\ (\E p \in Peers : peer[p].reg = "in" /\ Willing(p)) ~> (task.caller = "returned")
  /\ (task.caller = "returned") ~> ~task.listed

\* "The ids of this side's extensions" (base_peer.rs: ExtendedId, sent in the
\* handshake): a message that carries this side's id of ut_metadata is handled as
\* ut_metadata once the handshake is done.
OwnIdUnderstood ==
  \A p \in Peers : peer[p].reg = "in" /\ peer[p].hs =>
    Transform(p, UtMetadata) = {UtMetadata}
=============================================================================
