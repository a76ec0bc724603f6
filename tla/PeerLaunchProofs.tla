-------------------------- MODULE PeerLaunchProofs --------------------------
(***************************************************************************)
(* Proofs about the launcher (module PeerLaunch), for every set of ids and *)
(* addresses, every channel capacity and every quota.  LaunchInv is the    *)
(* inductive invariant that the two owners of a launcher share; one lemma  *)
(* per action of the launcher shows that the action preserves it.          *)
(***************************************************************************)
EXTENDS PeerLaunch, FiniteSetTheorems, TLAPS

-----------------------------------------------------------------------------
(* Sequences without duplicates *)

\* Appending a new element.
LEMMA AppendFresh ==
    ASSUME NEW S, NEW s \in Seq(S), NEW x \in S, IsInjective(s), x \notin Range(s)
    PROVE  /\ Append(s, x) \in Seq(S)
           /\ IsInjective(Append(s, x))
           /\ Range(Append(s, x)) = Range(s) \cup {x}
<1>1. /\ Append(s, x) \in Seq(S)
      /\ Len(Append(s, x)) = Len(s) + 1
      /\ DOMAIN Append(s, x) = 1..(Len(s) + 1)
      /\ DOMAIN s = 1..Len(s)
      /\ Len(s) \in Nat
      /\ \A i \in 1..Len(s) : Append(s, x)[i] = s[i]
      /\ Append(s, x)[Len(s) + 1] = x
  OBVIOUS
<1>2. IsInjective(Append(s, x))
  BY <1>1 DEF IsInjective, Range
<1>3. Range(Append(s, x)) = Range(s) \cup {x}
  <2>1. ASSUME NEW y \in Range(Append(s, x)) PROVE y \in Range(s) \cup {x}
    BY <1>1 DEF Range
  <2>2. ASSUME NEW y \in Range(s) PROVE y \in Range(Append(s, x))
    <3>1. PICK i \in 1..Len(s) : y = s[i]
      BY <1>1, Zenon DEF Range
    <3>2. i \in 1..(Len(s) + 1) /\ y = Append(s, x)[i]
      BY <3>1, <1>1
    <3> QED BY <3>2, <1>1, Zenon DEF Range
  <2>3. x \in Range(Append(s, x))
    <3>1. Len(s) + 1 \in DOMAIN Append(s, x)
      BY <1>1
    <3> QED BY <3>1, <1>1, Zenon DEF Range
  <2> QED BY <2>1, <2>2, <2>3, Zenon
<1> QED BY <1>1, <1>2, <1>3, Zenon

\* Removing the head.
LEMMA TailDistinct ==
    ASSUME NEW S, NEW s \in Seq(S), s # <<>>, IsInjective(s)
    PROVE  /\ Head(s) \in S /\ Head(s) \in Range(s)
           /\ Tail(s) \in Seq(S) /\ Len(Tail(s)) = Len(s) - 1
           /\ IsInjective(Tail(s))
           /\ Range(Tail(s)) = Range(s) \ {Head(s)}
<1>1. /\ Tail(s) \in Seq(S)
      /\ Len(s) \in Nat \ {0}
      /\ Len(Tail(s)) = Len(s) - 1
      /\ DOMAIN Tail(s) = 1..(Len(s) - 1)
      /\ DOMAIN s = 1..Len(s)
      /\ \A i \in 1..(Len(s) - 1) : Tail(s)[i] = s[i + 1]
      /\ Head(s) = s[1]
      /\ 1 \in 1..Len(s)
      /\ \A i \in 1..Len(s) : s[i] \in S
  OBVIOUS
<1>2. Head(s) \in S /\ Head(s) \in Range(s)
  BY <1>1, Zenon DEF Range
<1>3. IsInjective(Tail(s))
  <2> SUFFICES ASSUME NEW i \in DOMAIN Tail(s), NEW j \in DOMAIN Tail(s), Tail(s)[i] = Tail(s)[j]
               PROVE  i = j
    BY Zenon DEF IsInjective
  <2>1. i + 1 \in DOMAIN s /\ j + 1 \in DOMAIN s /\ s[i + 1] = s[j + 1]
    BY <1>1
  <2>2. i + 1 = j + 1
    BY <2>1, Zenon DEF IsInjective
  <2> QED BY <2>2, <1>1
<1>4. Range(Tail(s)) = Range(s) \ {Head(s)}
  <2>1. ASSUME NEW y \in Range(Tail(s)) PROVE y \in Range(s) /\ y # Head(s)
    <3>1. PICK i \in 1..(Len(s) - 1) : y = Tail(s)[i]
      BY <1>1, Zenon DEF Range
    <3>2. i + 1 \in DOMAIN s /\ y = s[i + 1] /\ i + 1 # 1
      BY <3>1, <1>1
    <3> QED BY <3>2, <1>1, Zenon DEF Range, IsInjective
  <2>2. ASSUME NEW y \in Range(s), y # Head(s) PROVE y \in Range(Tail(s))
    <3>1. PICK i \in 1..Len(s) : y = s[i]
      BY <1>1, Zenon DEF Range
    <3>2. i - 1 \in 1..(Len(s) - 1) /\ y = Tail(s)[i - 1]
      BY <3>1, <2>2, <1>1
    <3> QED BY <3>2, <1>1, Zenon DEF Range
  <2> QED BY <2>1, <2>2, Zenon
<1> QED BY <1>1, <1>2, <1>3, <1>4, Zenon

-----------------------------------------------------------------------------
(* The inductive invariant *)

InfoType == [addr : Addr \cup {NoId}, lt : BOOLEAN, waited : BOOLEAN, err : Nat]

\* Ownership and control: a PeerInfo has an address, and the one that is started
\* inline is the one the launcher is busy with.
Bookkeeping ==
    /\ \A id \in Id : place[id] # "free" => info[id].addr \in Addr
    /\ \A id \in Id : place[id] = "start" => launcher.pc = "start" /\ launcher.id = id
    /\ launcher.pc = "start" => launcher.id \in Id /\ place[launcher.id] = "start"

LaunchInv ==
    /\ LaunchTypeOK
    /\ QueuesOwnTheirPeers
    /\ Bookkeeping
    /\ HolderIsBlocked
    /\ OneHolderPerAddr
    /\ ConnLimitRespected

\* No PeerInfo becomes accepted, and accepted ones keep their addresses.
KeepsHolders ==
    \A id \in Id : Accepted(id)' => Accepted(id) /\ info'[id].addr = info[id].addr

\* No new connection.
KeepsConnections ==
    \A id \in Id : place'[id] \in {"peers", "join", "start"}
                      => place[id] \in {"peers", "join", "start"}

\* A step that accepts nobody and releases addresses only with their holders
\* preserves the uniqueness of holders.
LEMMA HoldersPreserved ==
    ASSUME HolderIsBlocked, OneHolderPerAddr, KeepsHolders, ReleaseStep
    PROVE  HolderIsBlocked' /\ OneHolderPerAddr'
<1>1. OneHolderPerAddr'
  BY Zenon DEF OneHolderPerAddr, KeepsHolders
<1>2. HolderIsBlocked'
  <2> SUFFICES ASSUME NEW id \in Id, Accepted(id)' PROVE info'[id].addr \in unstart_host'
    BY Zenon DEF HolderIsBlocked
  <2>1. Accepted(id) /\ info'[id].addr = info[id].addr /\ info[id].addr \in unstart_host
    BY Zenon DEF KeepsHolders, HolderIsBlocked
  <2>2. ASSUME info[id].addr \notin unstart_host' PROVE FALSE
    <3>1. PICK j \in Id : Accepted(j) /\ info[j].addr = info[id].addr /\ place'[j] = "free"
      BY <2>1, <2>2, Zenon DEF ReleaseStep
    <3>2. j = id
      BY <3>1, <2>1, Zenon DEF OneHolderPerAddr
    <3> QED BY <3>1, <3>2, Zenon DEF Accepted
  <2> QED BY <2>1, <2>2, Zenon
<1> QED BY <1>1, <1>2, Zenon

\* Every set of ids is finite.
LEMMA IdSets ==
    ASSUME NEW T \in SUBSET Id
    PROVE  IsFiniteSet(T) /\ Cardinality(T) \in Nat
BY FS_Subset, FS_CardinalityType, PeerLaunchAssumption, Zenon

\* A step that opens no connection preserves the connection limit.
LEMMA ConnectionsPreserved ==
    ASSUME ConnLimitRespected, KeepsConnections
    PROVE  ConnLimitRespected'
<1> DEFINE C == peers \cup join_set \cup At("start")
<1>1. C \in SUBSET Id /\ C' \in SUBSET C
  BY Zenon DEF KeepsConnections, peers, join_set, At
<1>2. Cardinality(C') <= Cardinality(C) /\ Cardinality(C) \in Nat /\ Cardinality(C') \in Nat
  BY <1>1, IdSets, FS_Subset, Zenon
<1>3. torrent_peer_conn_limit \in Nat
  BY PeerLaunchAssumption DEF torrent_peer_conn_limit
<1>4. Cardinality(C) <= torrent_peer_conn_limit
  BY Zenon DEF ConnLimitRespected
<1>5. Cardinality(C') <= torrent_peer_conn_limit
  BY <1>2, <1>3, <1>4
<1> QED BY <1>5, Zenon DEF ConnLimitRespected, torrent_peer_conn_limit

\* The shape of the variables that QuietStepPreserves asks for.
OtherTypes ==
    /\ launcher \in [pc : {"select", "start", "wake", "send"}, id : Id \cup {NoId}]
    /\ phase \in [Id -> Phase]
    /\ servant_peers \subseteq Id /\ listening \subseteq Id

\* The types that do not depend on the queues.
LEMMA OtherTypesHold ==
    ASSUME LaunchInv
    PROVE  OtherTypes /\ info \in [Id -> InfoType]
BY Zenon DEF LaunchInv, LaunchTypeOK, OtherTypes, InfoType

\* The parts of the invariant, gathered from the parts a step is shown to keep.
LEMMA AssembleLaunchInv ==
    ASSUME LaunchInv,
           place' \in [Id -> Place], info' \in [Id -> InfoType],
           channel' \in Seq(Id), Len(channel') <= CHANNEL_BUFFER,
           wait_queue' \in Seq(Id), doomed' \subseteq Id, unstart_host' \subseteq Addr,
           OtherTypes', QueuesOwnTheirPeers', Bookkeeping',
           HolderIsBlocked', OneHolderPerAddr', ConnLimitRespected'
    PROVE  LaunchInv'
BY Zenon DEF LaunchInv, LaunchTypeOK, InfoType, OtherTypes

\* Nobody is waiting at the start.
LEMMA LaunchInitEstablishes ==
    LaunchInit => LaunchInv
<1> SUFFICES ASSUME LaunchInit PROVE LaunchInv
  BY Zenon
<1> USE DEF LaunchInit
<1>1. LaunchTypeOK
  <2>1. Len(<<>>) <= CHANNEL_BUFFER /\ <<>> \in Seq(Id)
    BY PeerLaunchAssumption
  <2>2. NoInfo \in [addr : Addr \cup {NoId}, lt : BOOLEAN, waited : BOOLEAN, err : Nat]
    BY Zenon DEF NoInfo
  <2> QED BY <2>1, <2>2, Zenon DEF LaunchTypeOK, Place, Phase
<1>2. QueuesOwnTheirPeers
  BY DEF QueuesOwnTheirPeers, At, IsInjective, Range
<1>3. Bookkeeping
  BY Zenon DEF Bookkeeping
<1>4. HolderIsBlocked /\ OneHolderPerAddr
  BY Zenon DEF HolderIsBlocked, OneHolderPerAddr, Accepted
<1>5. ConnLimitRespected
  <2> DEFINE C == peers \cup join_set \cup At("start")
  <2>1. C = {}
    BY Zenon DEF peers, join_set, At
  <2>2. Cardinality(C) = 0
    BY <2>1, FS_EmptySet, Zenon
  <2> HIDE DEF C
  <2>3. Cardinality(C) <= torrent_peer_conn_limit
    BY <2>2, PeerLaunchAssumption DEF torrent_peer_conn_limit
  <2> QED BY <2>3, Zenon DEF ConnLimitRespected, C
<1> QED BY <1>1, <1>2, <1>3, <1>4, <1>5, Zenon DEF LaunchInv

-----------------------------------------------------------------------------
(* Steps that accept nobody *)

\* What a step that wakes or drops peers may do to the books: everything but the
\* launcher's own acceptance of a host.
QuietStep ==
    /\ place' \in [Id -> Place] /\ info' \in [Id -> InfoType]
    /\ channel' \in Seq(Id) /\ Len(channel') <= CHANNEL_BUFFER
    /\ wait_queue' \in Seq(Id) /\ doomed' \subseteq Id
    /\ unstart_host' \subseteq unstart_host
    /\ QueuesOwnTheirPeers'
    /\ \A id \in Id : place'[id] # "free" => place[id] # "free" /\ info'[id].addr = info[id].addr
    /\ \A id \in Id : place'[id] = "start" <=> place[id] = "start"
    /\ KeepsHolders
    /\ ReleaseStep
    /\ KeepsConnections

\* A quiet step preserves the invariant when the launcher does not enter or leave
\* an inline start and the other variables keep their types.
LEMMA QuietStepPreserves ==
    ASSUME LaunchInv, QuietStep,
           launcher' \in [pc : {"select", "start", "wake", "send"}, id : Id \cup {NoId}],
           (launcher.pc = "start" \/ launcher'.pc = "start") => launcher' = launcher,
           phase' \in [Id -> Phase],
           servant_peers' \subseteq Id, listening' \subseteq Id
    PROVE  LaunchInv' /\ ReleaseStep
<1>1. HolderIsBlocked' /\ OneHolderPerAddr'
  BY HoldersPreserved, Zenon DEF LaunchInv, QuietStep
<1>2. ConnLimitRespected'
  BY ConnectionsPreserved, Zenon DEF LaunchInv, QuietStep
<1>3. LaunchTypeOK'
  BY Zenon DEF LaunchInv, QuietStep, LaunchTypeOK, InfoType
<1>4. Bookkeeping'
  <2>1. \A id \in Id : place'[id] # "free" => info'[id].addr \in Addr
    BY Zenon DEF LaunchInv, QuietStep, Bookkeeping
  <2>2. \A id \in Id : place'[id] = "start" => launcher'.pc = "start" /\ launcher'.id = id
    BY Zenon DEF LaunchInv, QuietStep, Bookkeeping
  <2>3. launcher'.pc = "start" => launcher'.id \in Id /\ place'[launcher'.id] = "start"
    BY Zenon DEF LaunchInv, QuietStep, Bookkeeping
  <2> QED BY <2>1, <2>2, <2>3, Zenon DEF Bookkeeping
<1> QED BY <1>1, <1>2, <1>3, <1>4, Zenon DEF LaunchInv, QuietStep

\* A quiet step, with the types it has to keep in one piece.
LEMMA QuietStepOtherTypes ==
    ASSUME LaunchInv, QuietStep, OtherTypes',
           (launcher.pc = "start" \/ launcher'.pc = "start") => launcher' = launcher
    PROVE  LaunchInv' /\ ReleaseStep
BY QuietStepPreserves, Zenon DEF OtherTypes

\* A step that moves no PeerInfo and changes at most lt and err of them.
LEMMA SamePlacesEffect ==
    ASSUME LaunchInv, UNCHANGED <<place, channel, wait_queue, doomed, unstart_host>>,
           info' \in [Id -> InfoType],
           \A id \in Id : info'[id].addr = info[id].addr /\ info'[id].waited = info[id].waited
    PROVE  QuietStep
<1>1. /\ place \in [Id -> Place] /\ channel \in Seq(Id) /\ Len(channel) <= CHANNEL_BUFFER
      /\ wait_queue \in Seq(Id) /\ doomed \subseteq Id /\ QueuesOwnTheirPeers
  BY Zenon DEF LaunchInv, LaunchTypeOK
<1>2. QueuesOwnTheirPeers'
  BY <1>1, Zenon DEF QueuesOwnTheirPeers, At
<1>3. KeepsHolders /\ KeepsConnections /\ ReleaseStep
  BY Zenon DEF KeepsHolders, Accepted, KeepsConnections, ReleaseStep
<1> QED BY <1>1, <1>2, <1>3, Zenon DEF QuietStep

\* The effect of take_from_wait_queue and the send on a queue, places and
\* PeerInfos that agree: at most the head of the queue moves, towards the
\* launcher, marked as coming from the queue.
LEMMA StartFromQueueEffect ==
    ASSUME NEW q \in Seq(Id), NEW p \in [Id -> Place], NEW inf \in [Id -> InfoType],
           NEW temp \in BOOLEAN, NEW dm \in BOOLEAN,
           LaunchTypeOK,
           IsInjective(channel), Range(channel) = {id \in Id : p[id] = "channel"},
           IsInjective(q), Range(q) = {id \in Id : p[id] = "wait"},
           StartFromQueue(q, p, inf, temp, dm)
    PROVE  /\ place' \in [Id -> Place] /\ info' \in [Id -> InfoType]
           /\ channel' \in Seq(Id) /\ Len(channel') <= CHANNEL_BUFFER
           /\ wait_queue' \in Seq(Id) /\ doomed' \subseteq Id
           /\ QueuesOwnTheirPeers'
           /\ \A id \in Id : info'[id].addr = inf[id].addr
           /\ \A id \in Id : \/ place'[id] = p[id] /\ info'[id].waited = inf[id].waited
                             \/ p[id] = "wait" /\ place'[id] \in {"channel", "sending"}
<1>1. CASE q = <<>>
  <2>1. /\ wait_queue' = q /\ place' = p /\ info' = inf /\ channel' = channel /\ doomed' = doomed
    BY <1>1, Zenon DEF StartFromQueue
  <2> QED BY <2>1, Zenon DEF QueuesOwnTheirPeers, At, LaunchTypeOK
<1>2. CASE q # <<>>
  <2> DEFINE h == Head(q)
  <2>1. /\ h \in Id /\ h \in Range(q) /\ Tail(q) \in Seq(Id)
        /\ IsInjective(Tail(q)) /\ Range(Tail(q)) = Range(q) \ {h}
    BY <1>2, TailDistinct, Zenon
  <2>2. p[h] = "wait"
    BY <2>1, Zenon
  <2>3. /\ wait_queue' = Tail(q)
        /\ info' = [inf EXCEPT ![h].waited = TRUE, ![h].lt = @ /\ ~temp]
        /\ Send(h, p, dm)
    BY <1>2, Zenon DEF StartFromQueue, PopFront
  <2> HIDE DEF h
  <2>4. inf[h] \in InfoType
    BY <2>1, Zenon
  <2>5. /\ info' \in [Id -> InfoType]
        /\ \A id \in Id : info'[id].addr = inf[id].addr
        /\ \A id \in Id : id # h => info'[id].waited = inf[id].waited
    BY <2>1, <2>3, <2>4, Zenon DEF InfoType
  <2>6. CASE CanSend
    <3>1. channel' = Append(channel, h) /\ place' = [p EXCEPT ![h] = "channel"] /\ doomed' = doomed
      BY <2>3, <2>6, Zenon DEF Send
    <3>2. h \notin Range(channel)
      BY <2>2, Zenon
    <3>3. /\ channel' \in Seq(Id) /\ IsInjective(channel')
          /\ Range(channel') = Range(channel) \cup {h}
      BY <3>1, <3>2, <2>1, AppendFresh DEF LaunchTypeOK
    <3>4. Len(channel') <= CHANNEL_BUFFER
      BY <3>1, <2>1, <2>6, PeerLaunchAssumption DEF CanSend, LaunchTypeOK
    <3>5. place' \in [Id -> Place]
      BY <3>1, <2>1, Zenon DEF Place
    <3>6. QueuesOwnTheirPeers'
      BY <3>1, <3>3, <2>1, <2>2, <2>3, ZenonT(30) DEF QueuesOwnTheirPeers, At, Place
    <3> QED BY <3>1, <3>3, <3>4, <3>5, <3>6, <2>1, <2>2, <2>3, <2>5, ZenonT(30) DEF LaunchTypeOK
  <2>7. CASE ~CanSend
    <3>1. channel' = channel /\ place' = [p EXCEPT ![h] = "sending"] /\ doomed' \subseteq doomed \cup {h}
      BY <2>3, <2>7, Zenon DEF Send
    <3>2. place' \in [Id -> Place]
      BY <3>1, <2>1, Zenon DEF Place
    <3>3. QueuesOwnTheirPeers'
      BY <3>1, <2>1, <2>2, <2>3, Zenon DEF QueuesOwnTheirPeers, At, Place
    <3> QED BY <3>1, <3>2, <3>3, <2>1, <2>2, <2>3, <2>5, ZenonT(30) DEF LaunchTypeOK
  <2> QED BY <2>6, <2>7, Zenon
<1> QED BY <1>1, <1>2, Zenon

\* Waking a peer outside an exit, from the queue as it stands.
LEMMA WakeEffect ==
    ASSUME LaunchInv, NEW temp \in BOOLEAN,
           StartFromQueue(wait_queue, place, info, temp, FALSE),
           unstart_host' = unstart_host
    PROVE  QuietStep
<1>0. /\ wait_queue \in Seq(Id) /\ place \in [Id -> Place] /\ info \in [Id -> InfoType]
      /\ LaunchTypeOK
      /\ IsInjective(channel) /\ Range(channel) = {id \in Id : place[id] = "channel"}
      /\ IsInjective(wait_queue) /\ Range(wait_queue) = {id \in Id : place[id] = "wait"}
  BY Zenon DEF LaunchInv, LaunchTypeOK, InfoType, QueuesOwnTheirPeers, At
<1> DEFINE dm == FALSE
<1>1. dm \in BOOLEAN /\ StartFromQueue(wait_queue, place, info, temp, dm)
  BY Zenon
<1> HIDE DEF dm
<1>2. /\ place' \in [Id -> Place] /\ info' \in [Id -> InfoType]
      /\ channel' \in Seq(Id) /\ Len(channel') <= CHANNEL_BUFFER
      /\ wait_queue' \in Seq(Id) /\ doomed' \subseteq Id
      /\ QueuesOwnTheirPeers'
      /\ \A id \in Id : info'[id].addr = info[id].addr
      /\ \A id \in Id : \/ place'[id] = place[id] /\ info'[id].waited = info[id].waited
                        \/ place[id] = "wait" /\ place'[id] \in {"channel", "sending"}
  BY ONLY <1>0, <1>1, StartFromQueueEffect, temp \in BOOLEAN
<1>3. KeepsHolders /\ KeepsConnections /\ ReleaseStep
  BY <1>2, Zenon DEF KeepsHolders, Accepted, KeepsConnections, ReleaseStep
<1> QED BY <1>2, <1>3, Zenon DEF QuietStep

-----------------------------------------------------------------------------
(* The actions *)

\* A new PeerInfo is not accepted until the launcher receives it.
LEMMA NewPeerPreserves ==
    ASSUME LaunchInv, NEW id \in Id, NEW a \in Addr, NEW lt \in BOOLEAN,
           NewPeer(id, a, lt)
    PROVE  LaunchInv' /\ ReleaseStep
<1>0. /\ place \in [Id -> Place] /\ channel \in Seq(Id) /\ Len(channel) <= CHANNEL_BUFFER
      /\ wait_queue \in Seq(Id) /\ doomed \subseteq Id /\ unstart_host \subseteq Addr
      /\ QueuesOwnTheirPeers /\ Bookkeeping /\ info \in [Id -> InfoType] /\ OtherTypes
  BY OtherTypesHold, Zenon DEF LaunchInv, LaunchTypeOK
<1>1. /\ place[id] = "free" /\ Send(id, place, FALSE)
      /\ info' = [info EXCEPT ![id] = [addr |-> a, lt |-> lt, waited |-> FALSE, err |-> 0]]
      /\ UNCHANGED <<wait_queue, unstart_host, phase, launcher, servant_peers, listening>>
  BY Zenon DEF NewPeer
<1>2. /\ info' \in [Id -> InfoType]
      /\ info'[id].addr = a /\ ~info'[id].waited
      /\ \A j \in Id : j # id => info'[j] = info[j]
  BY <1>0, <1>1, Zenon DEF InfoType
<1>3. /\ place'[id] \in {"channel", "sending"}
      /\ \A j \in Id : j # id => place'[j] = place[j]
      /\ place' \in [Id -> Place] /\ doomed' \subseteq Id
  BY <1>0, <1>1, Zenon DEF Send, Place
<1>4. /\ channel' \in Seq(Id) /\ Len(channel') <= CHANNEL_BUFFER
      /\ IsInjective(channel') /\ Range(channel') = {j \in Id : place'[j] = "channel"}
  <2>1. CASE CanSend
    <3>1. channel' = Append(channel, id) /\ place' = [place EXCEPT ![id] = "channel"]
      BY <1>1, <2>1, Zenon DEF Send
    <3>2. id \notin Range(channel)
      BY <1>0, <1>1, Zenon DEF QueuesOwnTheirPeers, At
    <3>3. channel' \in Seq(Id) /\ IsInjective(channel') /\ Range(channel') = Range(channel) \cup {id}
      BY <1>0, <3>1, <3>2, AppendFresh DEF QueuesOwnTheirPeers
    <3>4. Len(channel') <= CHANNEL_BUFFER
      BY <1>0, <2>1, <3>1, PeerLaunchAssumption DEF CanSend
    <3> QED BY <1>0, <1>3, <3>1, <3>3, <3>4 DEF QueuesOwnTheirPeers, At
  <2>2. CASE ~CanSend
    <3>1. channel' = channel /\ place' = [place EXCEPT ![id] = "sending"]
      BY <1>1, <2>2, Zenon DEF Send
    <3> QED BY <1>0, <1>1, <3>1, Zenon DEF QueuesOwnTheirPeers, At
  <2> QED BY <2>1, <2>2, Zenon
<1>5. QueuesOwnTheirPeers'
  BY <1>0, <1>1, <1>3, <1>4, Zenon DEF QueuesOwnTheirPeers, At
<1>6. Bookkeeping'
  BY <1>0, <1>1, <1>2, <1>3 DEF Bookkeeping
<1>7. KeepsHolders /\ KeepsConnections /\ ReleaseStep
  BY <1>1, <1>2, <1>3, Zenon DEF KeepsHolders, Accepted, KeepsConnections, ReleaseStep
<1>8. HolderIsBlocked' /\ OneHolderPerAddr' /\ ConnLimitRespected'
  BY <1>7, HoldersPreserved, ConnectionsPreserved, Zenon DEF LaunchInv
<1>9. OtherTypes' /\ unstart_host' \subseteq Addr /\ wait_queue' \in Seq(Id)
  BY <1>0, <1>1, Zenon DEF OtherTypes
<1> QED BY <1>2, <1>3, <1>4, <1>5, <1>6, <1>7, <1>8, <1>9, AssembleLaunchInv, Zenon

\* A send that waited for room goes through.
LEMMA SendReadyPreserves ==
    ASSUME LaunchInv, NEW id \in Id, SendReady(id)
    PROVE  LaunchInv' /\ ReleaseStep
<1>0. /\ place \in [Id -> Place] /\ channel \in Seq(Id) /\ Len(channel) <= CHANNEL_BUFFER
      /\ wait_queue \in Seq(Id) /\ doomed \subseteq Id /\ QueuesOwnTheirPeers
      /\ info \in [Id -> InfoType] /\ OtherTypes
  BY OtherTypesHold, Zenon DEF LaunchInv, LaunchTypeOK
<1>1. /\ place[id] = "sending" /\ Len(channel) < CHANNEL_BUFFER
      /\ channel' = Append(channel, id) /\ place' = [place EXCEPT ![id] = "channel"]
      /\ doomed' = doomed \ {id}
      /\ launcher' = IF launcher.id = id THEN [pc |-> "select", id |-> NoId] ELSE launcher
      /\ UNCHANGED <<info, wait_queue, unstart_host, phase, servant_peers, listening>>
  BY Zenon DEF SendReady
<1>2. id \notin Range(channel)
  BY <1>0, <1>1, Zenon DEF QueuesOwnTheirPeers, At
<1>3. channel' \in Seq(Id) /\ IsInjective(channel') /\ Range(channel') = Range(channel) \cup {id}
  BY <1>0, <1>1, <1>2, AppendFresh DEF QueuesOwnTheirPeers
<1>4. Len(channel') <= CHANNEL_BUFFER
  BY <1>0, <1>1, PeerLaunchAssumption
<1>5. place' \in [Id -> Place] /\ doomed' \subseteq Id
  BY <1>0, <1>1, Zenon DEF Place
<1>6. QueuesOwnTheirPeers'
  BY <1>0, <1>1, <1>3, Zenon DEF QueuesOwnTheirPeers, At
<1>7. KeepsHolders /\ KeepsConnections /\ ReleaseStep
  BY <1>0, <1>1, Zenon DEF KeepsHolders, Accepted, KeepsConnections, ReleaseStep
<1>8. QuietStep
  BY <1>0, <1>1, <1>3, <1>4, <1>5, <1>6, <1>7, Zenon DEF QuietStep
<1>9. (launcher.pc = "start" \/ launcher'.pc = "start") => launcher' = launcher
  BY <1>1, Zenon DEF LaunchInv, Bookkeeping
<1>10. OtherTypes'
  BY <1>0, <1>1, Zenon DEF OtherTypes
<1> QED BY <1>8, <1>9, <1>10, QuietStepOtherTypes, Zenon

\* A send that is aborted leaves its entry behind.
LEMMA AbortSendPreserves ==
    ASSUME LaunchInv, NEW id \in Id, AbortSend(id)
    PROVE  LaunchInv' /\ ReleaseStep
<1>0. /\ place \in [Id -> Place] /\ channel \in Seq(Id) /\ Len(channel) <= CHANNEL_BUFFER
      /\ wait_queue \in Seq(Id) /\ doomed \subseteq Id /\ QueuesOwnTheirPeers
      /\ info \in [Id -> InfoType] /\ OtherTypes
  BY OtherTypesHold, Zenon DEF LaunchInv, LaunchTypeOK
<1>1. /\ place[id] = "sending"
      /\ place' = [place EXCEPT ![id] = "free"]
      /\ info' = [info EXCEPT ![id] = NoInfo]
      /\ doomed' = doomed \ {id}
      /\ UNCHANGED <<channel, wait_queue, unstart_host, phase, launcher, servant_peers,
                     listening>>
  BY Zenon DEF AbortSend
<1>2. place' \in [Id -> Place] /\ info' \in [Id -> InfoType]
  BY <1>0, <1>1, Zenon DEF Place, InfoType, NoInfo
<1>3. QueuesOwnTheirPeers'
  BY <1>0, <1>1, Zenon DEF QueuesOwnTheirPeers, At
<1>4. KeepsHolders /\ KeepsConnections /\ ReleaseStep
  BY <1>0, <1>1, Zenon DEF KeepsHolders, Accepted, KeepsConnections, ReleaseStep
<1>5. QuietStep
  BY <1>0, <1>1, <1>2, <1>3, <1>4, Zenon DEF QuietStep
<1>6. OtherTypes'
  BY <1>0, <1>1, Zenon DEF OtherTypes
<1> QED BY <1>1, <1>5, <1>6, QuietStepOtherTypes, Zenon

\* The only step that accepts a PeerInfo or opens a connection.
LEMMA LaunchRecvPreserves ==
    ASSUME LaunchInv, NEW pool \in BOOLEAN, LaunchRecv(pool)
    PROVE  LaunchInv' /\ ReleaseStep
<1>0. /\ place \in [Id -> Place] /\ channel \in Seq(Id) /\ Len(channel) <= CHANNEL_BUFFER
      /\ wait_queue \in Seq(Id) /\ doomed \subseteq Id /\ unstart_host \subseteq Addr
      /\ QueuesOwnTheirPeers /\ Bookkeeping /\ info \in [Id -> InfoType] /\ OtherTypes
  BY OtherTypesHold, Zenon DEF LaunchInv, LaunchTypeOK
<1> DEFINE h == Head(channel)
<1>1. /\ launcher.pc = "select" /\ channel # <<>> /\ channel' = Tail(channel)
      /\ UNCHANGED <<doomed, servant_peers, listening>>
      /\ \/ /\ Skip(h)
            /\ place' = [place EXCEPT ![h] = "free"]
            /\ info' = [info EXCEPT ![h] = NoInfo]
            /\ UNCHANGED <<wait_queue, unstart_host, phase, launcher>>
         \/ /\ ~Skip(h) /\ unstart_host' = Block(h) /\ UNCHANGED info
            /\ \/ /\ AtLimit(h) /\ wait_queue' = Append(wait_queue, h)
                  /\ place' = [place EXCEPT ![h] = "wait"]
                  /\ UNCHANGED <<phase, launcher>>
               \/ /\ ~AtLimit(h) /\ UNCHANGED wait_queue
                  /\ phase' = [phase EXCEPT ![h] = "connect"]
                  /\ \/ place' = [place EXCEPT ![h] = "join"] /\ UNCHANGED launcher
                     \/ /\ place' = [place EXCEPT ![h] = "start"]
                        /\ launcher' = [pc |-> "start", id |-> h]
  BY Zenon DEF LaunchRecv
<1>2. /\ h \in Id /\ h \in Range(channel) /\ Tail(channel) \in Seq(Id)
      /\ IsInjective(Tail(channel)) /\ Range(Tail(channel)) = Range(channel) \ {h}
      /\ Len(Tail(channel)) <= CHANNEL_BUFFER
  BY <1>0, <1>1, TailDistinct, PeerLaunchAssumption DEF QueuesOwnTheirPeers
<1>3. place[h] = "channel" /\ info[h].addr \in Addr /\ \A j \in Id : place[j] # "start"
  BY <1>0, <1>1, <1>2, Zenon DEF QueuesOwnTheirPeers, At, Bookkeeping
<1> HIDE DEF h
<1>4. /\ place' \in [Id -> Place] /\ place'[h] \in {"free", "wait", "join", "start"}
      /\ \A j \in Id : j # h => place'[j] = place[j]
      /\ info' \in [Id -> InfoType]
      /\ \A j \in Id : j # h => info'[j] = info[j]
      /\ place'[h] # "free" => info'[h] = info[h] /\ ~Skip(h)
  <2>1. NoInfo \in InfoType
    BY Zenon DEF InfoType, NoInfo
  <2>2. CASE place' = [place EXCEPT ![h] = "free"] /\ info' = [info EXCEPT ![h] = NoInfo]
    BY <1>0, <1>2, <2>1, <2>2, Zenon DEF Place
  <2>3. CASE /\ ~Skip(h) /\ UNCHANGED info
             /\ \E p \in {"wait", "join", "start"} : place' = [place EXCEPT ![h] = p]
    BY <1>0, <1>2, <2>3, Zenon DEF Place
  <2> QED BY <1>1, <2>2, <2>3, Zenon
<1>5. /\ unstart_host \subseteq unstart_host' /\ unstart_host' \subseteq Addr
      /\ place'[h] # "free" => unstart_host' = unstart_host \cup {info[h].addr}
  BY <1>0, <1>1, <1>2, <1>3, Zenon DEF Block
<1>6. /\ wait_queue' \in Seq(Id) /\ IsInjective(wait_queue')
      /\ Range(wait_queue') = {j \in Id : place'[j] = "wait"}
  <2>1. CASE wait_queue' = wait_queue /\ place'[h] # "wait"
    BY <1>0, <1>2, <1>3, <1>4, <2>1, Zenon DEF QueuesOwnTheirPeers, At
  <2>2. CASE wait_queue' = Append(wait_queue, h) /\ place'[h] = "wait"
    <3>1. h \notin Range(wait_queue)
      BY <1>0, <1>3, Zenon DEF QueuesOwnTheirPeers, At
    <3>2. /\ wait_queue' \in Seq(Id) /\ IsInjective(wait_queue')
          /\ Range(wait_queue') = Range(wait_queue) \cup {h}
      BY <1>0, <1>2, <2>2, <3>1, AppendFresh DEF QueuesOwnTheirPeers
    <3> QED BY <1>0, <1>2, <1>4, <2>2, <3>2 DEF QueuesOwnTheirPeers, At
  <2> QED BY <1>0, <1>1, <1>2, <2>1, <2>2, Zenon
<1>7. Range(channel') = {j \in Id : place'[j] = "channel"} /\ IsInjective(channel')
  BY <1>0, <1>1, <1>2, <1>4 DEF QueuesOwnTheirPeers, At
<1>8. QueuesOwnTheirPeers'
  BY <1>6, <1>7, Zenon DEF QueuesOwnTheirPeers, At
<1>9. Bookkeeping'
  <2>1. \A j \in Id : place'[j] # "free" => info'[j].addr \in Addr
    BY <1>0, <1>3, <1>4, Zenon DEF Bookkeeping
  <2>2. CASE place'[h] # "start" /\ launcher' = launcher
    BY <1>1, <1>3, <1>4, <2>1, <2>2, Zenon DEF Bookkeeping
  <2>3. CASE place'[h] = "start" /\ launcher' = [pc |-> "start", id |-> h]
    BY <1>2, <1>3, <1>4, <2>1, <2>3, Zenon DEF Bookkeeping
  <2>4. (place'[h] # "start" /\ launcher' = launcher) \/
        (place'[h] = "start" /\ launcher' = [pc |-> "start", id |-> h])
    BY <1>0, <1>1, <1>2, Zenon
  <2> QED BY <2>2, <2>3, <2>4, Zenon
<1>10. OtherTypes'
  <2>1. /\ phase' = phase \/ phase' = [phase EXCEPT ![h] = "connect"]
        /\ launcher' = launcher \/ launcher' = [pc |-> "start", id |-> h]
        /\ UNCHANGED <<servant_peers, listening>>
    BY <1>1, Zenon
  <2>2. phase' \in [Id -> Phase]
    BY <1>0, <2>1, Zenon DEF OtherTypes, Phase
  <2>3. launcher' \in [pc : {"select", "start", "wake", "send"}, id : Id \cup {NoId}]
    BY <1>0, <1>2, <2>1 DEF OtherTypes
  <2> QED BY <1>0, <2>1, <2>2, <2>3, Zenon DEF OtherTypes
<1>11. \A j \in Id : Accepted(j)' => /\ j # h => Accepted(j)
                                     /\ info'[j].addr = info[j].addr
                                     /\ j = h => place'[h] # "free" /\ ~Skip(h)
  BY <1>2, <1>3, <1>4, Zenon DEF Accepted
<1>12. Accepted(h) \/ Skip(h) \/ info[h].addr \notin unstart_host
  BY <1>2, <1>3, Zenon DEF Accepted, Skip
<1>13. HolderIsBlocked'
  BY <1>5, <1>11, Zenon DEF HolderIsBlocked, LaunchInv
<1>14. OneHolderPerAddr'
  <2> SUFFICES ASSUME NEW i \in Id, NEW j \in Id, Accepted(i)', Accepted(j)',
                      info'[i].addr = info'[j].addr, i # j
               PROVE  FALSE
    BY Zenon DEF OneHolderPerAddr
  <2>1. info[i].addr = info[j].addr
    BY <1>11, Zenon
  <2>2. CASE Accepted(i) /\ Accepted(j)
    BY <2>1, <2>2, Zenon DEF OneHolderPerAddr, LaunchInv
  <2>3. CASE ~Accepted(i) \/ ~Accepted(j)
    BY <1>11, <1>12, <2>1, <2>3, Zenon DEF HolderIsBlocked, LaunchInv
  <2> QED BY <2>2, <2>3, Zenon
<1>15. ReleaseStep
  BY <1>5, Zenon DEF ReleaseStep
<1>16. ConnLimitRespected'
  <2> DEFINE C == peers \cup join_set \cup At("start")
  <2>1. CASE place'[h] \in {"free", "wait"}
    <3>1. KeepsConnections
      BY <1>4, <2>1, Zenon DEF KeepsConnections
    <3> QED BY <3>1, ConnectionsPreserved, Zenon DEF LaunchInv
  <2>2. CASE place'[h] \in {"join", "start"}
    <3>1. ~AtLimit(h)
      BY <1>1, <1>0, <1>2, <2>2, Zenon
    <3>2. C = peers \cup join_set /\ peers \in SUBSET Id /\ join_set \in SUBSET Id
      BY <1>3, Zenon DEF peers, join_set, At
    <3>3. /\ Cardinality(peers) \in Nat /\ Cardinality(join_set) \in Nat
          /\ IsFiniteSet(peers) /\ IsFiniteSet(join_set)
      BY <3>2, IdSets, Zenon
    <3>4. peers \cap join_set = {}
      BY Zenon DEF peers, join_set, At
    <3>5. Cardinality(peers \cup join_set) = Cardinality(peers) + Cardinality(join_set)
      BY <3>3, <3>4, FS_Union, FS_EmptySet
    <3>6. Cardinality(C) = Cardinality(peers) + Cardinality(join_set)
      BY <3>2, <3>5, Zenon
    <3>7. C' = C \cup {h} /\ IsFiniteSet(C) /\ h \notin C
      <4>1. C' = C \cup {h} /\ h \notin C /\ C \in SUBSET Id
        BY <1>2, <1>3, <1>4, <2>2, Zenon DEF peers, join_set, At
      <4> QED BY <4>1, IdSets, Zenon
    <3>8. Cardinality(C') = Cardinality(C) + 1
      BY <3>7, FS_AddElement, Zenon
    <3>9. ConnLimit(info[h]) \in Nat /\ ConnLimit(info[h]) <= torrent_peer_conn_limit
      BY PeerLaunchAssumption DEF ConnLimit, torrent_peer_conn_limit
    <3>10. Cardinality(peers) + Cardinality(join_set) < ConnLimit(info[h])
      BY <3>1, <3>3, <3>9 DEF AtLimit
    <3>11. Cardinality(C') <= torrent_peer_conn_limit
      <4> HIDE DEF C
      <4>1. torrent_peer_conn_limit \in Nat
        BY PeerLaunchAssumption DEF torrent_peer_conn_limit
      <4> QED BY <3>3, <3>6, <3>8, <3>9, <3>10, <4>1
    <3> QED BY <3>11, Zenon DEF ConnLimitRespected, torrent_peer_conn_limit
  <2> QED BY <1>4, <2>1, <2>2, Zenon
<1>17. channel' \in Seq(Id) /\ Len(channel') <= CHANNEL_BUFFER /\ doomed' \subseteq Id
  BY <1>0, <1>1, <1>2, Zenon
<1> QED
  BY <1>4, <1>5, <1>6, <1>8, <1>9, <1>10, <1>13, <1>14, <1>15, <1>16, <1>17, AssembleLaunchInv, ZenonT(30)

\* A start that is concluded moves its PeerInfo to peers or drops it with its
\* address.
LEMMA LaunchResultPreserves ==
    ASSUME LaunchInv, NEW id \in Id, LaunchResult(id)
    PROVE  LaunchInv' /\ ReleaseStep
<1>0. /\ place \in [Id -> Place] /\ channel \in Seq(Id) /\ Len(channel) <= CHANNEL_BUFFER
      /\ wait_queue \in Seq(Id) /\ doomed \subseteq Id /\ unstart_host \subseteq Addr
      /\ QueuesOwnTheirPeers /\ Bookkeeping /\ info \in [Id -> InfoType] /\ OtherTypes
  BY OtherTypesHold, Zenon DEF LaunchInv, LaunchTypeOK
<1>1. /\ phase' = [phase EXCEPT ![id] = "none"]
      /\ UNCHANGED <<channel, wait_queue, doomed, servant_peers, listening>>
      /\ \/ launcher.pc = "select" /\ place[id] = "join"
         \/ launcher.pc = "start" /\ launcher.id = id
      /\ \/ /\ place' = [place EXCEPT ![id] = "peers"]
            /\ launcher' = [pc |-> "select", id |-> NoId]
            /\ UNCHANGED <<info, unstart_host>>
         \/ /\ place' = [place EXCEPT ![id] = "free"]
            /\ info' = [info EXCEPT ![id] = NoInfo]
            /\ unstart_host' = unstart_host \ {info[id].addr}
            /\ launcher' = [pc |-> "wake", id |-> NoId]
  BY Zenon DEF LaunchResult
<1>2. place[id] \in {"join", "start"} /\ \A j \in Id : place[j] = "start" => j = id
  BY <1>0, <1>1, Zenon DEF Bookkeeping
<1>3. /\ place' \in [Id -> Place] /\ place'[id] \in {"peers", "free"}
      /\ \A j \in Id : j # id => place'[j] = place[j]
      /\ info' \in [Id -> InfoType]
      /\ \A j \in Id : j # id => info'[j] = info[j]
      /\ place'[id] = "peers" => info'[id] = info[id] /\ unstart_host' = unstart_host
      /\ unstart_host' \subseteq Addr
      /\ unstart_host \ unstart_host' \subseteq {info[id].addr}
  <2>1. NoInfo \in InfoType
    BY Zenon DEF InfoType, NoInfo
  <2>2. CASE place' = [place EXCEPT ![id] = "peers"] /\ UNCHANGED <<info, unstart_host>>
    BY <1>0, <2>2, Zenon DEF Place
  <2>3. CASE /\ place' = [place EXCEPT ![id] = "free"] /\ info' = [info EXCEPT ![id] = NoInfo]
             /\ unstart_host' = unstart_host \ {info[id].addr}
    BY <1>0, <2>1, <2>3, Zenon DEF Place
  <2> QED BY <1>1, <2>2, <2>3, Zenon
<1>4. launcher'.pc # "start" /\ launcher' \in [pc : {"select", "start", "wake", "send"}, id : Id \cup {NoId}]
  BY <1>1
<1>5. OtherTypes'
  BY <1>0, <1>1, <1>4, Zenon DEF OtherTypes, Phase
<1>6. QueuesOwnTheirPeers'
  <2>1. channel' = channel /\ wait_queue' = wait_queue
    BY <1>1, Zenon
  <2>2. \A j \in Id : /\ place'[j] = "channel" <=> place[j] = "channel"
                      /\ place'[j] = "wait" <=> place[j] = "wait"
    BY <1>2, <1>3, Zenon
  <2>3. At("channel")' = At("channel") /\ At("wait")' = At("wait")
    BY <2>2, Zenon DEF At
  <2> QED BY <1>0, <2>1, <2>3, Zenon DEF QueuesOwnTheirPeers
<1>7. Bookkeeping'
  BY <1>0, <1>2, <1>3, <1>4 DEF Bookkeeping
<1>8. KeepsHolders /\ KeepsConnections
  BY <1>2, <1>3, Zenon DEF KeepsHolders, Accepted, KeepsConnections
<1>9. ReleaseStep
  BY <1>2, <1>3, Zenon DEF ReleaseStep, Accepted
<1>10. HolderIsBlocked' /\ OneHolderPerAddr' /\ ConnLimitRespected'
  BY <1>8, <1>9, HoldersPreserved, ConnectionsPreserved, Zenon DEF LaunchInv
<1>11. /\ channel' \in Seq(Id) /\ Len(channel') <= CHANNEL_BUFFER
       /\ wait_queue' \in Seq(Id) /\ doomed' \subseteq Id
  BY <1>0, <1>1, Zenon
<1> QED BY <1>3, <1>5, <1>6, <1>7, <1>9, <1>10, <1>11, AssembleLaunchInv, Zenon

\* The launcher has finished a host and starts one from the wait queue.
LEMMA LaunchWakePreserves ==
    ASSUME LaunchInv, LaunchWake
    PROVE  LaunchInv' /\ ReleaseStep
<1> DEFINE temp == FALSE
<1>1. /\ temp \in BOOLEAN /\ StartFromQueue(wait_queue, place, info, temp, FALSE)
      /\ launcher.pc = "wake" /\ launcher' = AfterWake
      /\ UNCHANGED <<unstart_host, phase, servant_peers, listening>>
  BY Zenon DEF LaunchWake
<1> HIDE DEF temp
<1>2. QuietStep
  BY ONLY <1>1, WakeEffect, LaunchInv, Zenon
<1>3. OtherTypes /\ wait_queue \in Seq(Id)
  BY OtherTypesHold, Zenon DEF LaunchInv, LaunchTypeOK
<1>4. /\ launcher' \in [pc : {"select", "start", "wake", "send"}, id : Id \cup {NoId}]
      /\ launcher'.pc # "start"
  BY <1>1, <1>3 DEF AfterWake
<1>5. OtherTypes'
  BY <1>1, <1>3, <1>4, Zenon DEF OtherTypes
<1> QED BY <1>1, <1>2, <1>4, <1>5, QuietStepOtherTypes, Zenon

\* PeerLaunch fails, listens, or hands the peer to the servant.
LEMMA StartStepPreserves ==
    ASSUME LaunchInv, NEW id \in Id, StartFail(id) \/ StartListen(id) \/ AddPeer(id)
    PROVE  LaunchInv' /\ ReleaseStep
<1>1. UNCHANGED <<info, place, channel, wait_queue, doomed, unstart_host, launcher>>
  BY Zenon DEF StartFail, StartListen, AddPeer
<1>2. OtherTypes /\ info \in [Id -> InfoType]
  BY OtherTypesHold, Zenon
<1>3. phase' \in [Id -> Phase] /\ servant_peers' \subseteq Id /\ listening' \subseteq Id
  BY <1>2, Zenon DEF OtherTypes, StartFail, StartListen, AddPeer, Phase
<1>4. OtherTypes'
  BY <1>1, <1>2, <1>3, Zenon DEF OtherTypes
<1>5. QuietStep
  BY <1>1, <1>2, SamePlacesEffect, Zenon
<1> QED BY <1>1, <1>4, <1>5, QuietStepOtherTypes, Zenon

=============================================================================
