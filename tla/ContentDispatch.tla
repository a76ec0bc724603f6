--------------------------- MODULE ContentDispatch ---------------------------
(***************************************************************************)
(* The peers of one download: Dispatch of core/task/content.rs with the    *)
(* launcher of module PeerLaunch, the exits raised by DefaultServant and   *)
(* the Coordinator that upgrades, replaces and adds temporary peers.       *)
(*                                                                         *)
(* Bandwidth is left out: which temporary peer is the fastest, which lt    *)
(* peer the slowest and whether one is 25% faster than the other are       *)
(* choices.  So are the ticks of the coordinator.                          *)
(***************************************************************************)
EXTENDS PeerLaunch

CONSTANT ErrorPieceLimit  \* error_piece_limit

ASSUME ErrorPieceLimitAssumption == ErrorPieceLimit \in Nat \ {0}

VARIABLES
    coord,     \* control state of Coordinator::run
    guard,     \* id whose entry of peers is locked by on_verify_piece_failed
    finished   \* status = TorrentStatus::Finished

vars == <<launchVars, coord, guard, finished>>

CoordIdle == [pc |-> "idle", id |-> NoId]
CoordTempPc == [pc |-> "temp", id |-> NoId]

Init ==
    /\ LaunchInit
    /\ coord = CoordIdle
    /\ guard = NoId
    /\ finished = FALSE

lt_peers == {id \in peers : info[id].lt}
temp_peers == {id \in peers : ~info[id].lt}

-----------------------------------------------------------------------------
(* Host sources *)

\* start_peer: refused once the download has finished.
ReceiveHost(id, a) ==
    /\ ~finished
    /\ NewPeer(id, a, TRUE)
    /\ UNCHANGED <<coord, guard, finished>>

\* A blocked send completes; the coordinator goes on if it was the sender.
SendDone(id) ==
    /\ SendReady(id)
    /\ coord' = IF coord.id # id THEN coord
                ELSE IF coord.pc = "exit" THEN CoordTempPc ELSE CoordIdle
    /\ UNCHANGED <<guard, finished>>

SendAborted(id) ==
    /\ AbortSend(id)
    /\ UNCHANGED <<coord, guard, finished>>

-----------------------------------------------------------------------------
(* The launcher.  peers.len() needs every shard of the map. *)

Recv(pool) ==
    /\ guard = NoId \/ (channel # <<>> /\ Skip(Head(channel)))
    /\ LaunchRecv(pool)
    /\ UNCHANGED <<coord, guard, finished>>

Result(id) == LaunchResult(id) /\ UNCHANGED <<coord, guard, finished>>

Wake == LaunchWake /\ UNCHANGED <<coord, guard, finished>>

AsyncRun(id) ==
    /\ StartFail(id) \/ StartListen(id) \/ AddPeer(id)
    /\ UNCHANGED <<coord, guard, finished>>

-----------------------------------------------------------------------------
(* Exits *)

\* unstart_host after the exit of id: a replaced peer keeps its address.
\* ReleaseAlways releases it all the same.
ReleaseAlways(id, replaced) == unstart_host \ {info[id].addr}
Release(id, replaced) ==
    IF replaced THEN unstart_host ELSE unstart_host \ {info[id].addr}

\* DefaultServant::peer_exit and Dispatch::on_peer_exit.  Nothing happens unless
\* the servant knows the peer, and the books of the dispatch change only if the
\* peer is in its map.  A replaced peer goes to the back of the wait queue, any
\* other is forgotten and its address released.  Then a waiting peer is started.
PeerExit(id, replaced, inf, dm) ==
    IF id \notin servant_peers
    THEN /\ info' = inf
         /\ UNCHANGED <<place, channel, wait_queue, doomed, unstart_host, servant_peers, listening>>
    ELSE /\ servant_peers' = servant_peers \ {id}
         /\ listening' = listening \ {id}
         /\ IF place[id] # "peers"
            THEN /\ info' = inf
                 /\ UNCHANGED <<place, channel, wait_queue, doomed, unstart_host>>
            ELSE /\ unstart_host' = Release(id, replaced)
                 /\ IF replaced
                    THEN StartFromQueue(Append(wait_queue, id), [place EXCEPT ![id] = "wait"],
                                        inf, TRUE, dm)
                    ELSE StartFromQueue(wait_queue, [place EXCEPT ![id] = "free"],
                                        [inf EXCEPT ![id] = NoInfo], FALSE, dm)

\* The connection ends: ReadFuture posts Exit and stops.  The exit runs in a task
\* of the peer itself, which its own shutdown aborts.
Disconnect(id) ==
    /\ id \in listening
    /\ IF id \in servant_peers
       THEN PeerExit(id, FALSE, info, TRUE)
       ELSE /\ listening' = listening \ {id}
            /\ UNCHANGED <<info, place, channel, wait_queue, doomed, unstart_host, servant_peers>>
    /\ UNCHANGED <<phase, launcher, coord, guard, finished>>

\* try_loot_slow_peer closes a peer that has nothing to transfer: its own task
\* does (own), or the task of the peer that took its pieces.
NotHasJob(id, own) ==
    /\ id \in servant_peers
    /\ PeerExit(id, FALSE, info, own)
    /\ UNCHANGED <<phase, launcher, coord, guard, finished>>

\* on_verify_piece_failed.  At the limit the peer is stopped while the write
\* guard of its entry in peers is held; on_peer_exit then waits for that entry.
VerifyFailed(id) ==
    /\ id \in servant_peers
    /\ place[id] = "peers"
    /\ info' = [info EXCEPT ![id].err = @ + 1]
    /\ IF info[id].err + 1 >= ErrorPieceLimit
       THEN /\ guard' = id
            /\ servant_peers' = servant_peers \ {id}
            /\ listening' = listening \ {id}
       ELSE UNCHANGED <<guard, servant_peers, listening>>
    /\ UNCHANGED <<place, channel, wait_queue, doomed, unstart_host, phase, launcher,
                   coord, finished>>

-----------------------------------------------------------------------------
(* Coordinator *)

\* Where the coordinator is after a PeerExit that pushed id: blocked in the send
\* of the head of the queue, or ready to start a temporary peer.
AfterExit(id) ==
    IF id \in servant_peers /\ ~CanSend
    THEN [pc |-> "exit", id |-> Head(Append(wait_queue, id))]
    ELSE CoordTempPc

\* peer_alloc up to checkout_upgrade_lt_peer: the fastest temporary peer is
\* upgraded while the lt quota has room, else it replaces the slowest lt peer or
\* is itself sent back to the wait queue.
PeerAlloc ==
    /\ coord.pc = "idle" /\ ~finished /\ guard = NoId
    /\ Cardinality(peers) <= torrent_peer_conn_limit /\ wait_queue # <<>>
    /\ \/ /\ temp_peers = {}
          /\ coord' = CoordTempPc
          /\ UNCHANGED launchVars
       \/ \E ftp \in temp_peers :
             /\ Cardinality(lt_peers) < LtLimit \/ lt_peers = {}
             /\ info' = [info EXCEPT ![ftp].lt = TRUE]
             /\ coord' = CoordTempPc
             /\ UNCHANGED <<place, channel, wait_queue, doomed, unstart_host, phase,
                            launcher, servant_peers, listening>>
       \/ \E ftp \in temp_peers, stp \in lt_peers :
             /\ Cardinality(lt_peers) >= LtLimit
             /\ \/ /\ PeerExit(stp, TRUE, [info EXCEPT ![ftp].lt = TRUE], FALSE)
                   /\ coord' = AfterExit(stp)
                \/ /\ PeerExit(ftp, TRUE, info, FALSE)
                   /\ coord' = AfterExit(ftp)
             /\ UNCHANGED <<phase, launcher>>
    /\ UNCHANGED <<guard, finished>>

\* start_temp_peer, the end of peer_alloc.
StartTempPeer ==
    /\ coord.pc = "temp"
    /\ StartFromQueue(wait_queue, place, info, TRUE, FALSE)
    /\ coord' = IF wait_queue = <<>> \/ CanSend THEN CoordIdle
                ELSE [pc |-> "send", id |-> Head(wait_queue)]
    /\ UNCHANGED <<unstart_host, phase, launcher, servant_peers, listening, guard, finished>>

\* check_finished marks the torrent finished once every piece is verified.
Finish ==
    /\ ~finished
    /\ finished' = TRUE
    /\ UNCHANGED <<launchVars, coord, guard>>

-----------------------------------------------------------------------------
Next ==
    \/ \E id \in Id, a \in Addr : ReceiveHost(id, a)
    \/ \E id \in Id : SendDone(id)
    \/ \E id \in Id : SendAborted(id)
    \/ \E pool \in BOOLEAN : Recv(pool)
    \/ \E id \in Id : Result(id)
    \/ Wake
    \/ \E id \in Id : AsyncRun(id)
    \/ \E id \in Id : Disconnect(id)
    \/ \E id \in Id, own \in BOOLEAN : NotHasJob(id, own)
    \/ \E id \in Id : VerifyFailed(id)
    \/ PeerAlloc
    \/ StartTempPeer
    \/ Finish

Spec == Init /\ [][Next]_vars

\* tokio polls every ready task again: the launcher, a start task (whose connect
\* has a timeout), a blocked sender (waiters are queued first come first served)
\* and the coordinator make progress.  Remote hosts owe nothing.
Fairness ==
    /\ SF_vars(\E pool \in BOOLEAN : Recv(pool))
    /\ \A id \in Id : SF_vars(Result(id)) /\ WF_vars(AsyncRun(id)) /\ SF_vars(SendDone(id))
    /\ WF_vars(Wake)
    /\ WF_vars(StartTempPeer)

FairSpec == Spec /\ Fairness

-----------------------------------------------------------------------------
(* Properties *)

\* Every variable keeps its shape.
TypeOK ==
    /\ LaunchTypeOK
    /\ coord \in [pc : {"idle", "exit", "temp", "send"}, id : Id \cup {NoId}]
    /\ guard \in Id \cup {NoId}
    /\ finished \in BOOLEAN

\* An address becomes startable again only in the step that drops the PeerInfo
\* that was using it (a failed start or an exit), never under a live one.
ReleasedWithHolder == [][ReleaseStep]_vars

\* A start that was begun is concluded: its PeerInfo leaves the start tasks.
StartConcluded ==
    \A id \in Id : place[id] \in {"join", "start"} ~> place[id] \notin {"join", "start"}

-----------------------------------------------------------------------------
\* What the comments say and the code does not keep.

\* "Running peers" (the comment on Dispatch::peers): an entry of peers has a live
\* peer behind it, one that the servant still knows.
PeersAreRunning ==
    \A id \in peers : id \in servant_peers \/ guard = id

\* unstart_host holds the addresses in use and, as a blacklist, those of peers
\* that sent too many bad pieces (the comment on Dispatch::unstart_host).
UnstartHostExplained ==
    \A a \in unstart_host : \E id \in Id : Accepted(id) /\ info[id].addr = a

\* The quota of long-term peers of one torrent.
LtQuotaRespected == Cardinality(lt_peers) <= LtLimit

\* The limit on the asynchronous peer starts of one task.
AsyncStartsLimited == Cardinality(join_set) <= AsyncPeerStartLimit

\* A peer that reached the limit of bad pieces is removed from peers.
BadPeerRemoved ==
    \A id \in Id : (place[id] = "peers" /\ info[id].err >= ErrorPieceLimit)
                      ~> place[id] # "peers"

\* A peer woken from the wait queue reaches the launcher.
WokenPeerIsLaunched ==
    \A id \in Id : (place[id] = "sending" /\ info[id].waited) ~> place[id] # "sending"
=============================================================================
