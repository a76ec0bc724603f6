--------------------------- MODULE MagnetDispatch ---------------------------
(***************************************************************************)
(* The peers of a magnet link that is being resolved: Dispatch of          *)
(* core/task/magnet.rs with the launcher of module PeerLaunch.  A magnet   *)
(* link has no long-term peers, so every PeerInfo has lt = FALSE and its   *)
(* limit is torrent_peer_conn_limit.  Its tracker, DHT scan and metadata   *)
(* pieces are other modules; here a peer either completes the metadata or  *)
(* does not.                                                               *)
(***************************************************************************)
EXTENDS PeerLaunch

VARIABLES
    finished,  \* the metadata has been parsed
    refused    \* peers whose on_handshake_success returned an error

vars == <<launchVars, finished, refused>>

Init ==
    /\ LaunchInit
    /\ finished = FALSE
    /\ refused = {}

-----------------------------------------------------------------------------
\* receive_host: ignored once the metadata is there.
ReceiveHost(id, a) ==
    /\ ~finished
    /\ NewPeer(id, a, FALSE)
    /\ UNCHANGED <<finished, refused>>

SendDone(id) == SendReady(id) /\ UNCHANGED <<finished, refused>>

SendAborted(id) == AbortSend(id) /\ UNCHANGED <<finished, refused>>

Recv(pool) == LaunchRecv(pool) /\ UNCHANGED <<finished, refused>>

Result(id) == LaunchResult(id) /\ UNCHANGED <<finished, refused>>

\* start_wait_peer on the queue q: start_peer drops the peer taken from the queue
\* when the metadata is already there.
StartWaitPeer(q, p, inf, dm) ==
    IF finished /\ q # <<>>
    THEN /\ wait_queue' = PopFront(q)
         /\ place' = [p EXCEPT ![Head(q)] = "free"]
         /\ info' = [inf EXCEPT ![Head(q)] = NoInfo]
         /\ UNCHANGED <<channel, doomed>>
    ELSE StartFromQueue(q, p, inf, FALSE, dm)

\* on_peer_start_failed.
Wake ==
    /\ launcher.pc = "wake"
    /\ StartWaitPeer(wait_queue, place, info, FALSE)
    /\ launcher' = IF finished THEN [pc |-> "select", id |-> NoId] ELSE AfterWake
    /\ UNCHANGED <<unstart_host, phase, servant_peers, listening, finished, refused>>

\* add_peer when request_extend_handsake fails, which it does for every peer that
\* lacks the extension protocol: on_peer_exit looks the peer up in peers, where it
\* is not yet, the peer is dropped, and async_run still reports a success.
AddPeerRefused(id) ==
    /\ phase[id] = "listen"
    /\ phase' = [phase EXCEPT ![id] = "ok"]
    /\ listening' = listening \ {id}
    /\ refused' = refused \cup {id}
    /\ UNCHANGED <<info, place, channel, wait_queue, doomed, unstart_host, launcher,
                   servant_peers, finished>>

AsyncRun(id) ==
    \/ /\ StartFail(id) \/ StartListen(id) \/ AddPeer(id)
       /\ UNCHANGED <<finished, refused>>
    \/ AddPeerRefused(id)

\* peer_exit and on_peer_exit after the connection ended or a handler failed (the
\* metadata does not parse, it is too large, an extension message is malformed).
Disconnect(id) ==
    /\ id \in listening
    /\ listening' = listening \ {id}
    /\ servant_peers' = servant_peers \ {id}
    /\ IF id \in servant_peers /\ place[id] = "peers"
       THEN /\ unstart_host' = unstart_host \ {info[id].addr}
            /\ StartWaitPeer(wait_queue, [place EXCEPT ![id] = "free"],
                             [info EXCEPT ![id] = NoInfo], TRUE)
       ELSE UNCHANGED <<info, place, channel, wait_queue, doomed, unstart_host>>
    /\ UNCHANGED <<phase, launcher, finished, refused>>

\* on_metadata_complete with metadata that parses.
MetadataComplete(id) ==
    /\ id \in servant_peers
    /\ ~finished
    /\ finished' = TRUE
    /\ UNCHANGED <<launchVars, refused>>

Next ==
    \/ \E id \in Id, a \in Addr : ReceiveHost(id, a)
    \/ \E id \in Id : SendDone(id)
    \/ \E id \in Id : SendAborted(id)
    \/ \E pool \in BOOLEAN : Recv(pool)
    \/ \E id \in Id : Result(id)
    \/ Wake
    \/ \E id \in Id : AsyncRun(id)
    \/ \E id \in Id : Disconnect(id)
    \/ \E id \in Id : MetadataComplete(id)

Spec == Init /\ [][Next]_vars

\* As for a download: the launcher and the start tasks are polled again and again.
Fairness ==
    /\ SF_vars(\E pool \in BOOLEAN : Recv(pool))
    /\ \A id \in Id : SF_vars(Result(id)) /\ WF_vars(AsyncRun(id)) /\ SF_vars(SendDone(id))
    /\ WF_vars(Wake)

FairSpec == Spec /\ Fairness

-----------------------------------------------------------------------------
(* Properties *)

\* Every variable keeps its shape.
TypeOK ==
    /\ LaunchTypeOK
    /\ finished \in BOOLEAN
    /\ refused \subseteq Id

\* A peer without the extension protocol "is terminated by the Err, as expected"
\* (the comment in on_handshake_success): its PeerInfo does not stay in peers.
RefusedPeerTerminated ==
    \A id \in Id : id \in refused ~> place[id] = "free"
=============================================================================
