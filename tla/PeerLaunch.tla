----------------------------- MODULE PeerLaunch -----------------------------
(***************************************************************************)
(* The peer launcher of one task: PeerLaunch and BasePeer::do_async_run    *)
(* (doro/src/bt/base_peer.rs), together with the part that both of its     *)
(* owners share, the Dispatch of a download (core/task/content.rs) and the *)
(* Dispatch of a magnet link (core/task/magnet.rs): the launch channel,    *)
(* the wait queue, the set unstart_host and the map of running peers.      *)
(*                                                                         *)
(* A PeerInfo is neither Clone nor Copy: it is moved from one collection   *)
(* to the next.  place[id] is the collection that owns the PeerInfo whose  *)
(* id is id; channel and wait_queue add the order of the two queues.       *)
(*                                                                         *)
(*   "free"     no PeerInfo with this id exists                            *)
(*   "channel"  queued in the launch channel                               *)
(*   "sending"  owned by a task blocked in peer_launch_singal.send().await *)
(*   "wait"     in wait_queue                                              *)
(*   "join"     owned by a start task of join_set                          *)
(*   "start"    being started inline by the launcher's own loop            *)
(*   "peers"    in the map peers ("running" peers)                         *)
(***************************************************************************)
EXTENDS Naturals, Sequences, FiniteSets, Functions

CONSTANTS
    Id,                  \* ids handed out by GlobalId::next_id (u64)
    Addr,                \* socket addresses of remote hosts
    NoId,                \* "no id"
    CHANNEL_BUFFER,      \* capacity of the launch channel
    LtLimit,             \* torrent_lt_peer_conn_limit
    TempLimit,           \* torrent_temp_peer_conn_limit
    AsyncPeerStartLimit  \* async_peer_start_limit

ASSUME PeerLaunchAssumption ==
    /\ IsFiniteSet(Id)
    /\ NoId \notin Id
    /\ CHANNEL_BUFFER \in Nat \ {0}
    /\ LtLimit \in Nat
    /\ TempLimit \in Nat
    /\ AsyncPeerStartLimit \in Nat

VARIABLES
    info,           \* the PeerInfo of every id (NoInfo when "free")
    place,          \* which collection owns it
    channel,        \* launch channel, in order
    wait_queue,     \* wait queue, in order
    doomed,         \* blocked senders whose own task was aborted by its exit
    unstart_host,   \* addresses that must not be started
    phase,          \* progress of do_async_run for "join" and "start"
    launcher,       \* control state of PeerLaunch::run
    servant_peers,  \* keys of DefaultServant.peers
    listening       \* ids whose ReadFuture is still running

launchVars == <<info, place, channel, wait_queue, doomed, unstart_host, phase,
                launcher, servant_peers, listening>>

Place == {"free", "channel", "sending", "wait", "join", "start", "peers"}
Phase == {"none", "connect", "listen", "ok", "fail"}

NoInfo == [addr |-> NoId, lt |-> FALSE, waited |-> FALSE, err |-> 0]

At(p) == {id \in Id : place[id] = p}
peers == At("peers")
join_set == At("join")

torrent_peer_conn_limit == LtLimit + TempLimit

\* get_peer_conn_limit of a PeerInfo.
ConnLimit(pi) == IF pi.lt THEN LtLimit ELSE torrent_peer_conn_limit

\* The connections that count towards the limit.  AtLimitPeersOnly forgets the
\* starts in progress.
AtLimitPeersOnly(id) == Cardinality(peers) >= ConnLimit(info[id])
AtLimit(id) == Cardinality(peers) + Cardinality(join_set) >= ConnLimit(info[id])

\* A host the launcher skips: reported anew while its address is not startable.
\* SkipNever forgets the check.
SkipNever(id) == FALSE
Skip(id) == ~info[id].waited /\ info[id].addr \in unstart_host

\* unstart_host once id is accepted.  BlockStarted forgets the queued hosts.
BlockStarted(id) ==
    IF AtLimit(id) THEN unstart_host ELSE unstart_host \cup {info[id].addr}
Block(id) == unstart_host \cup {info[id].addr}

\* get_async_start_limit: the larger of the configured limit and the room left.
AsyncStartLimit ==
    LET room == IF Cardinality(peers) >= torrent_peer_conn_limit THEN 0
                ELSE torrent_peer_conn_limit - Cardinality(peers)
    IN  IF AsyncPeerStartLimit >= room THEN AsyncPeerStartLimit ELSE room

\* An address is in use once the launcher has accepted its PeerInfo: from then
\* on it is waiting, starting, running, or on its way back from the wait queue.
Accepted(id) ==
    \/ place[id] \in {"wait", "join", "start", "peers"}
    \/ place[id] \in {"channel", "sending"} /\ info[id].waited

-----------------------------------------------------------------------------
LaunchInit ==
    /\ info = [id \in Id |-> NoInfo]
    /\ place = [id \in Id |-> "free"]
    /\ channel = <<>>
    /\ wait_queue = <<>>
    /\ doomed = {}
    /\ unstart_host = {}
    /\ phase = [id \in Id |-> "none"]
    /\ launcher = [pc |-> "select", id |-> NoId]
    /\ servant_peers = {}
    /\ listening = {}

\* A send that finds room and nobody queued before it completes at once;
\* otherwise the sender waits, owning the PeerInfo.  CanSendOneMore is off by one.
CanSendOneMore == Len(channel) <= CHANNEL_BUFFER /\ At("sending") = {}
CanSend == Len(channel) < CHANNEL_BUFFER /\ At("sending") = {}

\* peer_launch_singal.send(pi).await, starting from the places p.  dm: the
\* sending task has been aborted and dies at its first suspension.
Send(id, p, dm) ==
    IF CanSend
    THEN /\ channel' = Append(channel, id)
         /\ place' = [p EXCEPT ![id] = "channel"]
         /\ UNCHANGED doomed
    ELSE /\ place' = [p EXCEPT ![id] = "sending"]
         /\ doomed' = IF dm THEN doomed \cup {id} ELSE doomed
         /\ UNCHANGED channel

\* The wait queue after pop_front.  PeekFront leaves the peer in it.
PeekFront(q) == q
PopFront(q) == Tail(q)

\* take_from_wait_queue followed by the send, on the queue q, the places p and
\* the PeerInfos inf; temp: the peer is restarted as a temporary one.  With an
\* empty queue the call only asks the DHT for hosts (module DhtScan).
StartFromQueue(q, p, inf, temp, dm) ==
    IF q = <<>>
    THEN /\ wait_queue' = q
         /\ place' = p
         /\ info' = inf
         /\ UNCHANGED <<channel, doomed>>
    ELSE /\ wait_queue' = PopFront(q)
         /\ info' = [inf EXCEPT ![Head(q)].waited = TRUE,
                                ![Head(q)].lt = @ /\ ~temp]
         /\ Send(Head(q), p, dm)

-----------------------------------------------------------------------------
(* Tasks that feed the launch channel *)

\* A host source hands over an address: a new PeerInfo is created and sent.
NewPeer(id, a, lt) ==
    /\ place[id] = "free"
    /\ id \notin servant_peers \cup listening
    /\ info' = [info EXCEPT ![id] = [addr |-> a, lt |-> lt, waited |-> FALSE, err |-> 0]]
    /\ Send(id, place, FALSE)
    /\ UNCHANGED <<wait_queue, unstart_host, phase, launcher, servant_peers, listening>>

\* A blocked send gets its permit.  The launcher, if it was the sender, returns
\* to its select loop.
SendReady(id) ==
    /\ place[id] = "sending"
    /\ Len(channel) < CHANNEL_BUFFER
    /\ channel' = Append(channel, id)
    /\ place' = [place EXCEPT ![id] = "channel"]
    /\ doomed' = doomed \ {id}
    /\ launcher' = IF launcher.id = id THEN [pc |-> "select", id |-> NoId] ELSE launcher
    /\ UNCHANGED <<info, wait_queue, unstart_host, phase, servant_peers, listening>>

\* A blocked sender whose JoinSet was dropped by Peer::shutdown is aborted: its
\* PeerInfo is dropped with the future.
AbortSend(id) ==
    /\ place[id] = "sending"
    /\ id \in doomed
    /\ place' = [place EXCEPT ![id] = "free"]
    /\ info' = [info EXCEPT ![id] = NoInfo]
    /\ doomed' = doomed \ {id}
    /\ UNCHANGED <<channel, wait_queue, unstart_host, phase, launcher, servant_peers, listening>>

-----------------------------------------------------------------------------
(* PeerLaunch::run *)

\* The recv branch: skip a host that is in use, queue it when the connection
\* limit is reached, else start it, inline when no semaphore can be taken.
\* pool: the process-wide start pool has a free slot.
LaunchRecv(pool) ==
    /\ launcher.pc = "select"
    /\ channel # <<>>
    /\ channel' = Tail(channel)
    /\ LET id == Head(channel)
           async == Cardinality(join_set) < AsyncStartLimit /\ pool
       IN  IF Skip(id)
           THEN /\ place' = [place EXCEPT ![id] = "free"]
                /\ info' = [info EXCEPT ![id] = NoInfo]
                /\ UNCHANGED <<wait_queue, unstart_host, phase, launcher>>
           ELSE /\ unstart_host' = Block(id)
                /\ UNCHANGED info
                /\ \/ /\ AtLimit(id)
                      /\ wait_queue' = Append(wait_queue, id)
                      /\ place' = [place EXCEPT ![id] = "wait"]
                      /\ UNCHANGED <<phase, launcher>>
                   \/ /\ ~AtLimit(id) /\ async
                      /\ place' = [place EXCEPT ![id] = "join"]
                      /\ phase' = [phase EXCEPT ![id] = "connect"]
                      /\ UNCHANGED <<wait_queue, launcher>>
                   \/ /\ ~AtLimit(id) /\ ~async
                      /\ place' = [place EXCEPT ![id] = "start"]
                      /\ phase' = [phase EXCEPT ![id] = "connect"]
                      /\ launcher' = [pc |-> "start", id |-> id]
                      /\ UNCHANGED wait_queue
    /\ UNCHANGED <<doomed, servant_peers, listening>>

\* handle_peer_start_result of the start of id, whether it was joined or inline.
LaunchResult(id) ==
    /\ \/ launcher.pc = "select" /\ place[id] = "join"
       \/ launcher.pc = "start" /\ launcher.id = id
    /\ phase[id] \in {"ok", "fail"}
    /\ phase' = [phase EXCEPT ![id] = "none"]
    /\ IF phase[id] = "ok"
       THEN /\ place' = [place EXCEPT ![id] = "peers"]
            /\ launcher' = [pc |-> "select", id |-> NoId]
            /\ UNCHANGED <<info, unstart_host>>
       ELSE /\ place' = [place EXCEPT ![id] = "free"]
            /\ info' = [info EXCEPT ![id] = NoInfo]
            /\ unstart_host' = unstart_host \ {info[id].addr}
            /\ launcher' = [pc |-> "wake", id |-> NoId]
    /\ UNCHANGED <<channel, wait_queue, doomed, servant_peers, listening>>

\* Where the launcher is after start_wait_peer: blocked in the send if it found a
\* peer and no room.  WakeStalls also waits when there was nothing to send.
WakeStalls ==
    IF wait_queue # <<>> /\ CanSend THEN [pc |-> "select", id |-> NoId]
    ELSE [pc |-> "send", id |-> IF wait_queue = <<>> THEN NoId ELSE Head(wait_queue)]
AfterWake ==
    IF wait_queue = <<>> \/ CanSend THEN [pc |-> "select", id |-> NoId]
    ELSE [pc |-> "send", id |-> Head(wait_queue)]

\* on_peer_start_failed: start_wait_peer, called from the launcher's own loop.
LaunchWake ==
    /\ launcher.pc = "wake"
    /\ StartFromQueue(wait_queue, place, info, FALSE, FALSE)
    /\ launcher' = AfterWake
    /\ UNCHANGED <<unstart_host, phase, servant_peers, listening>>

-----------------------------------------------------------------------------
(* BasePeer::do_async_run *)

\* Connecting or one of the two handshakes fails.
StartFail(id) ==
    /\ phase[id] = "connect"
    /\ phase' = [phase EXCEPT ![id] = "fail"]
    /\ UNCHANGED <<info, place, channel, wait_queue, doomed, unstart_host, launcher,
                   servant_peers, listening>>

\* The handshakes succeed; the listener tasks are spawned before add_peer.
StartListen(id) ==
    /\ phase[id] = "connect"
    /\ phase' = [phase EXCEPT ![id] = "listen"]
    /\ listening' = listening \cup {id}
    /\ UNCHANGED <<info, place, channel, wait_queue, doomed, unstart_host, launcher,
                   servant_peers>>

\* add_peer with a successful on_handshake_success.
AddPeer(id) ==
    /\ phase[id] = "listen"
    /\ phase' = [phase EXCEPT ![id] = "ok"]
    /\ servant_peers' = servant_peers \cup {id}
    /\ UNCHANGED <<info, place, channel, wait_queue, doomed, unstart_host, launcher,
                   listening>>

-----------------------------------------------------------------------------
(* Properties shared by the two owners *)

LaunchTypeOK ==
    /\ place \in [Id -> Place]
    /\ info \in [Id -> [addr : Addr \cup {NoId}, lt : BOOLEAN, waited : BOOLEAN, err : Nat]]
    /\ channel \in Seq(Id) /\ Len(channel) <= CHANNEL_BUFFER
    /\ wait_queue \in Seq(Id)
    /\ doomed \subseteq Id
    /\ unstart_host \subseteq Addr
    /\ phase \in [Id -> Phase]
    /\ launcher \in [pc : {"select", "start", "wake", "send"}, id : Id \cup {NoId}]
    /\ servant_peers \subseteq Id
    /\ listening \subseteq Id

\* unstart_host is there to "avoid connecting twice to an address the tracker
\* reports again": no two accepted PeerInfos ever have the same address, however
\* receiving, starting, failing, exiting and waking are interleaved.
OneHolderPerAddr ==
    \A i, j \in Id : /\ Accepted(i) /\ Accepted(j)
                     /\ info[i].addr = info[j].addr
                     => i = j

\* The launcher's check of peers.len() + join_set.len() bounds the connections of
\* the task: running peers and starts in progress never exceed the lt quota plus
\* the temporary quota.
ConnLimitRespected ==
    Cardinality(peers \cup join_set \cup At("start")) <= torrent_peer_conn_limit

\* The two queues hold exactly the PeerInfos they own, each once: waking, sending
\* back and restarting peers neither loses nor duplicates a queue entry.
QueuesOwnTheirPeers ==
    /\ IsInjective(channel) /\ Range(channel) = At("channel")
    /\ IsInjective(wait_queue) /\ Range(wait_queue) = At("wait")

\* While a PeerInfo of an address is accepted, the address is in unstart_host, so
\* that a second report of it is skipped by the launcher.
HolderIsBlocked ==
    \A id \in Id : Accepted(id) => info[id].addr \in unstart_host

\* No address is released under the PeerInfo that holds it.
ReleaseStep ==
    \A a \in unstart_host \ unstart_host' :
        \E id \in Id : Accepted(id) /\ info[id].addr = a /\ place'[id] = "free"
=============================================================================
