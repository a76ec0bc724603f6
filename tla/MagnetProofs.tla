---------------------------- MODULE MagnetProofs ----------------------------
(***************************************************************************)
(* A magnet link, for every number of peers and pieces: MetadataFetch      *)
(* parses nothing that has a gap, and MagnetDispatch accounts for every    *)
(* peer it takes on (on the invariant of PeerLaunchProofs).                *)
(***************************************************************************)
EXTENDS MagnetDispatch, PeerLaunchProofs, MetadataFetch

-----------------------------------------------------------------------------
(* MetadataFetch *)

\* A piece that is sent was asked for; none comes before the handshake.
MsgType == {m \in [k : {"hello", "data", "reject"}, ext : {Handshake, UtMetadata},
                   piece : TheirIds \cup Index, n : Nat] : m.k = "data" => m.piece \in Index}
NoData == {m \in MsgType : m.k # "data"}
MayCome(p) == IF peer[p].hs THEN MsgType ELSE NoData
MdPc == {"start", "mark", "check", "parse", "finish"}

\* The entries of a peer's table of extension ids.
IdPairs == (TheirIds \cup Index \cup {0}) \X {Handshake, UtMetadata}
PeerType == [reg : {"none", "greeted", "in", "gone"}, hs : BOOLEAN,
             ids : SUBSET IdPairs,
             init : BOOLEAN, data : SUBSET Index, bits : SUBSET Index, idx : 0 .. Pieces]
Requests == Seq(Index)
RemoteType == [id : TheirIds, greeted : BOOLEAN, reqs : Requests, repeats : Nat,
               refused : BOOLEAN, n : Nat]

MdTypes ==
    /\ peer \in [Peers -> PeerType] /\ remote \in [Peers -> RemoteType]
    /\ DOMAIN inbox = Peers /\ DOMAIN tasks = Peers
    /\ \A p \in Peers : /\ inbox[p] \in Seq(MayCome(p))
                        /\ tasks[p] \subseteq [m : MayCome(p), pc : MdPc]

\* Before the handshake nothing was asked for.
Unasked == \A p \in Peers : ~peer[p].hs => peer[p].idx = 0 /\ remote[p].reqs = <<>>

\* What is marked was written, and everything below metadata_piece_idx is marked.
Prefixed ==
    \A p \in Peers : /\ peer[p].bits \subseteq peer[p].data
                     /\ \A i \in Index : i < peer[p].idx => i \in peer[p].bits

\* A handler about to mark its piece has written it; one that parses has seen
\* metadata_piece_idx at the end, where it stays.
Working ==
    \A p \in Peers : \A t \in tasks[p] :
        /\ t.pc = "mark" => t.m.piece \in peer[p].data
        /\ t.pc \in {"parse", "finish"} => peer[p].idx = Pieces

MdInv == MdTypes /\ Unasked /\ Prefixed /\ Working

LEMMA LeastElement ==
    ASSUME NEW T, T \subseteq Nat, T # {}
    PROVE  \E x \in T : \A y \in T : x <= y
<1>1. PICK x \in T : \A y \in T : ~(<<y, x>> \in OpToRel(<, Nat))
  BY WFMin, NatLessThanWellFounded, Zenon
<1>2. \A y \in T : ~(y < x)
  BY <1>1, Zenon DEF OpToRel
<1> QED BY <1>2

\* The walk over metadata_bitfield ends at the first piece that is missing.
LEMMA NextMissingFacts ==
    ASSUME NEW idx \in 0 .. Pieces, NEW bits, bits \subseteq Index
    PROVE  /\ NextMissing(idx, bits) \in 0 .. Pieces
           /\ NextMissing(idx, bits) >= idx
           /\ \A i \in Index : i >= idx /\ i < NextMissing(idx, bits) => i \in bits
<1> DEFINE T == {i \in idx .. Pieces : i \notin bits}
<1>1. T \subseteq Nat /\ Pieces \in T
  BY MdAssumption DEF Index
<1>2. \E x \in T : \A y \in T : x <= y
  BY <1>1, LeastElement, ZenonT(30)
<1>3. NextMissing(idx, bits) \in T /\ \A y \in T : NextMissing(idx, bits) <= y
  BY <1>2, Zenon DEF NextMissing, Min
<1> QED BY <1>3, MdAssumption DEF Index

\* What a step makes of one peer and of its remote.
IsPeer(g, f, p, hs, data, bits, idx) ==
    /\ g \in [Peers -> PeerType]
    /\ g[p].hs = hs /\ g[p].data = data /\ g[p].bits = bits /\ g[p].idx = idx
    /\ \A q \in Peers \ {p} : g[q] = f[q]
IsRemote(g, f, p, reqs) ==
    /\ g \in [Peers -> RemoteType] /\ g[p].reqs = reqs /\ \A q \in Peers \ {p} : g[q] = f[q]

LEMMA PeerReg ==
    ASSUME NEW f \in [Peers -> PeerType], NEW p \in Peers, NEW r \in {"greeted", "in", "gone"}
    PROVE  IsPeer([f EXCEPT ![p].reg = r], f, p, f[p].hs, f[p].data, f[p].bits, f[p].idx)
BY ZenonT(30) DEF IsPeer, PeerType

LEMMA PeerShake ==
    ASSUME NEW f \in [Peers -> PeerType], NEW p \in Peers,
           NEW x \in SUBSET IdPairs
    PROVE  IsPeer([f EXCEPT ![p].hs = TRUE, ![p].ids = x], f, p, TRUE, f[p].data, f[p].bits, f[p].idx)
BY ZenonT(30) DEF IsPeer, PeerType

LEMMA PeerWrite ==
    ASSUME NEW f \in [Peers -> PeerType], NEW p \in Peers, NEW d \in SUBSET Index
    PROVE  IsPeer([f EXCEPT ![p].init = TRUE, ![p].data = d], f, p, f[p].hs, d, f[p].bits, f[p].idx)
BY ZenonT(60) DEF IsPeer, PeerType

LEMMA PeerMark ==
    ASSUME NEW f \in [Peers -> PeerType], NEW p \in Peers, NEW b \in SUBSET Index, NEW i \in 0 .. Pieces
    PROVE  IsPeer([f EXCEPT ![p].bits = b, ![p].idx = i], f, p, f[p].hs, f[p].data, b, i)
BY ZenonT(60) DEF IsPeer, PeerType

LEMMA RemoteGreeted ==
    ASSUME NEW f \in [Peers -> RemoteType], NEW p \in Peers, NEW k \in Nat
    PROVE  IsRemote([f EXCEPT ![p].greeted = TRUE, ![p].n = k], f, p, f[p].reqs)
BY ZenonT(30) DEF IsRemote, RemoteType

LEMMA RemoteAsked ==
    ASSUME NEW f \in [Peers -> RemoteType], NEW p \in Peers, NEW s \in Requests, NEW k \in Nat
    PROVE  /\ IsRemote([f EXCEPT ![p].reqs = s], f, p, s)
           /\ IsRemote([f EXCEPT ![p].reqs = s, ![p].n = k], f, p, s)
           /\ IsRemote([f EXCEPT ![p].reqs = s, ![p].refused = TRUE, ![p].n = k], f, p, s)
<1>1. IsRemote([f EXCEPT ![p].reqs = s], f, p, s)
  BY Zenon DEF IsRemote, RemoteType
<1>2. IsRemote([f EXCEPT ![p].reqs = s, ![p].n = k], f, p, s)
  BY ZenonT(30) DEF IsRemote, RemoteType
<1>3. IsRemote([f EXCEPT ![p].reqs = s, ![p].refused = TRUE, ![p].n = k], f, p, s)
  BY ZenonT(60) DEF IsRemote, RemoteType
<1> QED BY <1>1, <1>2, <1>3, Zenon

LEMMA RemoteRepeated ==
    ASSUME NEW f \in [Peers -> RemoteType], NEW p \in Peers, NEW j \in Nat, NEW k \in Nat
    PROVE  IsRemote([f EXCEPT ![p].repeats = j, ![p].n = k], f, p, f[p].reqs)
BY ZenonT(30) DEF IsRemote, RemoteType

LEMMA SeqFacts ==
    ASSUME NEW S, NEW q \in Seq(S)
    PROVE  /\ \A x \in S : Append(q, x) \in Seq(S)
           /\ q # <<>> => Head(q) \in S /\ Tail(q) \in Seq(S)
           /\ <<>> \in Seq(S)
OBVIOUS

LEMMA SeqLarger ==
    ASSUME NEW S, NEW T, S \subseteq T, NEW q \in Seq(S)
    PROVE  q \in Seq(T)
OBVIOUS

LEMMA MdInit0 == MdInit => MdInv
<1> SUFFICES ASSUME MdInit PROVE MdInv
  BY Zenon
<1>1. PeerNew \in PeerType /\ PeerNew.idx = 0 /\ PeerNew.bits = {} /\ PeerNew.data = {}
  <2>1. <<0, Handshake>> \in IdPairs
    BY Zenon DEF IdPairs
  <2>2. 0 \in 0 .. Pieces
    BY MdAssumption
  <2> QED BY <2>1, <2>2, Zenon DEF PeerNew, PeerType
<1>2. peer \in [Peers -> PeerType] /\ \A p \in Peers : peer[p] = PeerNew
  BY <1>1, Zenon DEF MdInit
<1>3. remote \in [Peers -> RemoteType] /\ \A p \in Peers : remote[p].reqs = <<>>
  <2>1. PICK ids \in [Peers -> TheirIds] :
            remote = [p \in Peers |-> [id |-> ids[p], greeted |-> FALSE, reqs |-> <<>>,
                                       repeats |-> 0, refused |-> FALSE, n |-> 0]]
    BY Zenon DEF MdInit
  <2>2. <<>> \in Requests
    BY DEF Requests
  <2> QED BY <2>1, <2>2, Zenon DEF RemoteType
<1>4. /\ DOMAIN inbox = Peers /\ DOMAIN tasks = Peers
      /\ \A p \in Peers : inbox[p] = <<>> /\ tasks[p] = {}
  BY Zenon DEF MdInit
<1>5. MdTypes
  <2>0. \A S : <<>> \in Seq(S)
    OBVIOUS
  <2>1. \A p \in Peers : inbox[p] \in Seq(MayCome(p)) /\ tasks[p] \subseteq [m : MayCome(p), pc : MdPc]
    BY <1>4, <2>0, ZenonT(30)
  <2> QED BY <1>2, <1>3, <1>4, <2>1, ZenonT(30) DEF MdTypes
<1>6. Unasked /\ Prefixed /\ Working
  BY <1>1, <1>2, <1>3, <1>4, MdAssumption, SMTT(30) DEF Unasked, Prefixed, Working, Index
<1> QED BY <1>5, <1>6, ZenonT(30) DEF MdInv

\* A message of the remote is queued.
LEMMA PostInv ==
    ASSUME MdInv, NEW p \in Peers, NEW m \in MayCome(p),
           inbox' = [inbox EXCEPT ![p] = Append(@, m)],
           NEW s, IsRemote(remote', remote, p, s), ~peer[p].hs => s = <<>>,
           UNCHANGED <<peer, tasks>>
    PROVE  MdInv'
<1>1. /\ DOMAIN inbox' = Peers /\ inbox'[p] = Append(inbox[p], m)
      /\ \A q \in Peers \ {p} : inbox'[q] = inbox[q]
  BY Zenon DEF MdInv, MdTypes
<1>2. inbox'[p] \in Seq(MayCome(p))
  BY <1>1, SeqFacts, ZenonT(30) DEF MdInv, MdTypes
<1>3. \A q \in Peers : MayCome(q)' = MayCome(q)
  BY Zenon DEF MayCome
<1>4. MdTypes'
  BY <1>1, <1>2, <1>3, ZenonT(30) DEF MdInv, MdTypes, IsRemote
<1>5. Unasked'
  BY Zenon DEF MdInv, Unasked, IsRemote
<1> QED BY <1>4, <1>5, Zenon DEF MdInv, Prefixed, Working

LEMMA RemoteInv ==
    ASSUME MdInv, NEW p \in Peers,
           RemoteGreets(p) \/ RemoteAnswers(p) \/ RemoteRepeats(p) \/ RemoteRefuses(p)
    PROVE  MdInv'
<1> DEFINE k == remote[p].n + 1
<1>0. /\ remote \in [Peers -> RemoteType] /\ k \in Nat /\ remote[p].n \in Nat
      /\ remote[p].id \in TheirIds /\ remote[p].reqs \in Requests
  BY DEF MdInv, MdTypes, RemoteType
<1>1. remote[p].reqs # <<>> =>
          /\ Head(remote[p].reqs) \in Index /\ Tail(remote[p].reqs) \in Requests
          /\ peer[p].hs
  BY <1>0, SeqFacts, Zenon DEF Requests, MdInv, Unasked
<1>2. ASSUME RemoteGreets(p) PROVE MdInv'
  <2> DEFINE m == [k |-> "hello", ext |-> Handshake, piece |-> remote[p].id, n |-> remote[p].n]
  <2>1. m \in MayCome(p)
    BY <1>0, Zenon DEF MayCome, NoData, MsgType
  <2>2. remote' = [remote EXCEPT ![p].greeted = TRUE, ![p].n = k]
    BY <1>2, Zenon DEF RemoteGreets
  <2>3. inbox' = [inbox EXCEPT ![p] = Append(@, m)] /\ UNCHANGED <<peer, tasks>>
    BY <1>2, ZenonT(30) DEF RemoteGreets, Post
  <2> HIDE DEF k, m
  <2>4. IsRemote(remote', remote, p, remote[p].reqs)
    BY <1>0, <2>2, RemoteGreeted, ZenonT(30)
  <2>5. ~peer[p].hs => remote[p].reqs = <<>>
    BY Zenon DEF MdInv, Unasked
  <2> QED BY <2>1, <2>3, <2>4, <2>5, PostInv, Zenon
<1>3. ASSUME remote[p].reqs # <<>>, NEW kind \in {"data", "reject"},
             NEW s, IsRemote(remote', remote, p, s),
             Post(p, kind, UtMetadata, Head(remote[p].reqs)), UNCHANGED <<peer, tasks>>
      PROVE  MdInv'
  <2> DEFINE m == [k |-> kind, ext |-> UtMetadata, piece |-> Head(remote[p].reqs), n |-> remote[p].n]
  <2>1. m \in MayCome(p)
    BY <1>0, <1>1, <1>3, ZenonT(30) DEF MayCome, MsgType
  <2>2. inbox' = [inbox EXCEPT ![p] = Append(@, m)] /\ UNCHANGED <<peer, tasks>>
    BY <1>3, Zenon DEF Post
  <2> HIDE DEF m
  <2> QED BY <1>1, <1>3, <2>1, <2>2, PostInv, ZenonT(30)
<1>4. ASSUME RemoteAnswers(p) PROVE MdInv'
  <2>1. remote[p].reqs # <<>> /\ remote' = [remote EXCEPT ![p].reqs = Tail(@), ![p].n = k]
    BY <1>4, ZenonT(30) DEF RemoteAnswers
  <2> HIDE DEF k
  <2>2. IsRemote(remote', remote, p, Tail(remote[p].reqs))
    BY <1>0, <1>1, <2>1, RemoteAsked, ZenonT(30)
  <2> QED BY <1>3, <1>4, <2>1, <2>2, ZenonT(30) DEF RemoteAnswers
<1>5. ASSUME RemoteRepeats(p) PROVE MdInv'
  <2> DEFINE j == remote[p].repeats + 1
  <2>1. remote[p].reqs # <<>> /\ remote' = [remote EXCEPT ![p].repeats = j, ![p].n = k]
    BY <1>5, ZenonT(30) DEF RemoteRepeats
  <2>2. j \in Nat
    BY <1>0 DEF RemoteType
  <2> HIDE DEF k, j
  <2>3. IsRemote(remote', remote, p, remote[p].reqs)
    BY <1>0, <2>1, <2>2, RemoteRepeated, Zenon
  <2> QED BY <1>3, <1>5, <2>1, <2>3, ZenonT(30) DEF RemoteRepeats
<1>6. ASSUME RemoteRefuses(p) PROVE MdInv'
  <2>1. /\ remote[p].reqs # <<>>
        /\ remote' = [remote EXCEPT ![p].reqs = Tail(@), ![p].refused = TRUE, ![p].n = k]
    BY <1>6, ZenonT(30) DEF RemoteRefuses
  <2> HIDE DEF k
  <2>2. IsRemote(remote', remote, p, Tail(remote[p].reqs))
    BY <1>0, <1>1, <2>1, RemoteAsked, ZenonT(30)
  <2> QED BY <1>3, <1>6, <2>1, <2>2, ZenonT(30) DEF RemoteRefuses
<1> QED BY <1>2, <1>4, <1>5, <1>6, ZenonT(30)

\* The control state of the peer changes, or nothing but the ParseMagnet task.
LEMMA RegInv ==
    ASSUME MdInv, NEW p \in Peers, Greet(p) \/ Register(p)
    PROVE  MdInv'
<1>1. IsPeer(peer', peer, p, peer[p].hs, peer[p].data, peer[p].bits, peer[p].idx)
  BY PeerReg, ZenonT(30) DEF MdInv, MdTypes, Greet, Register
<1>2. UNCHANGED <<inbox, tasks, remote>>
  BY Zenon DEF Greet, Register
<1>3. \A q \in Peers : MayCome(q)' = MayCome(q)
  BY <1>1, ZenonT(30) DEF MayCome, IsPeer
<1> QED BY <1>1, <1>2, <1>3, ZenonT(30) DEF MdInv, MdTypes, Unasked, Prefixed, Working, IsPeer

LEMMA SameInv ==
    ASSUME MdInv, UNCHANGED <<peer, inbox, tasks, remote>>
    PROVE  MdInv'
<1>1. \A q \in Peers : MayCome(q)' = MayCome(q)
  BY Zenon DEF MayCome
<1> QED BY <1>1, ZenonT(30) DEF MdInv, MdTypes, Unasked, Prefixed, Working

LEMMA ReceiveInv ==
    ASSUME MdInv, NEW p \in Peers, Receive(p)
    PROVE  MdInv'
<1> DEFINE t == [m |-> Head(inbox[p]), pc |-> "start"]
<1>1. Head(inbox[p]) \in MayCome(p) /\ Tail(inbox[p]) \in Seq(MayCome(p))
  BY SeqFacts, ZenonT(30) DEF MdInv, MdTypes, Receive
<1>2. /\ DOMAIN inbox' = Peers /\ inbox'[p] = Tail(inbox[p])
      /\ \A q \in Peers \ {p} : inbox'[q] = inbox[q]
      /\ UNCHANGED <<peer, remote>>
  BY Zenon DEF MdInv, MdTypes, Receive
<1>3. /\ DOMAIN tasks' = Peers /\ tasks'[p] \subseteq tasks[p] \cup {t}
      /\ \A q \in Peers \ {p} : tasks'[q] = tasks[q]
  BY Zenon DEF MdInv, MdTypes, Receive
<1>4. t \in [m : MayCome(p), pc : MdPc] /\ t.pc = "start"
  BY <1>1, ZenonT(30) DEF MdPc
<1>5. \A q \in Peers : MayCome(q)' = MayCome(q)
  BY <1>2, ZenonT(30) DEF MayCome
<1> HIDE DEF t
<1>6. MdTypes'
  BY <1>1, <1>2, <1>3, <1>4, <1>5, ZenonT(30) DEF MdInv, MdTypes
<1>7. Working'
  BY <1>2, <1>3, <1>4, ZenonT(30) DEF MdInv, Working
<1> QED BY <1>2, <1>6, <1>7, ZenonT(30) DEF MdInv, Unasked, Prefixed

LEMMA ExitInv ==
    ASSUME MdInv, NEW p \in Peers, Exit(p)
    PROVE  MdInv'
<1>1. IsPeer(peer', peer, p, peer[p].hs, peer[p].data, peer[p].bits, peer[p].idx)
  BY PeerReg, Zenon DEF MdInv, MdTypes, Exit
<1>2. <<>> \in Requests /\ \A S : <<>> \in Seq(S)
  BY DEF Requests
<1>3. IsRemote(remote', remote, p, <<>>)
  BY <1>2, RemoteAsked, ZenonT(30) DEF MdInv, MdTypes, Exit
<1>4. /\ DOMAIN inbox' = Peers /\ inbox'[p] = <<>> /\ DOMAIN tasks' = Peers /\ tasks'[p] = {}
      /\ \A q \in Peers \ {p} : inbox'[q] = inbox[q] /\ tasks'[q] = tasks[q]
  BY Zenon DEF MdInv, MdTypes, Exit
<1>5. \A q \in Peers : MayCome(q)' = MayCome(q)
  BY <1>1, ZenonT(30) DEF MayCome, IsPeer
<1>6. MdTypes'
  BY <1>1, <1>2, <1>3, <1>4, <1>5, ZenonT(30) DEF MdInv, MdTypes, IsPeer, IsRemote
<1>7. Unasked' /\ Prefixed'
  BY <1>1, <1>3, ZenonT(30) DEF MdInv, Unasked, Prefixed, IsPeer, IsRemote
<1>8. Working'
  BY <1>1, <1>4, ZenonT(30) DEF MdInv, Working, IsPeer
<1> QED BY <1>6, <1>7, <1>8, ZenonT(30) DEF MdInv

\* A handler of a peer that has shaken hands goes on or ends; data, bits and idx grow.
LEMMA HandlerInv ==
    ASSUME MdInv, NEW p \in Peers, NEW t \in tasks[p],
           NEW d, NEW b, NEW i, NEW h, NEW q, h = peer[p].hs \/ h,
           IsPeer(peer', peer, p, h, d, b, i), IsRemote(remote', remote, p, q),
           ~h => i = 0 /\ q = <<>>,
           peer[p].data \subseteq d, b \subseteq d, i >= peer[p].idx,
           \A j \in Index : j < i => j \in b,
           inbox' = inbox,
           \/ End(p, t)
           \/ \E pc \in MdPc : /\ Go(p, t, pc)
                               /\ pc = "mark" => t.m.piece \in d
                               /\ pc \in {"parse", "finish"} => i = Pieces
    PROVE  MdInv'
<1>1. MayCome(p) \subseteq MayCome(p)' /\ \A r \in Peers \ {p} : MayCome(r)' = MayCome(r)
  BY Zenon DEF MayCome, IsPeer, NoData
<1>2. inbox[p] \in Seq(MayCome(p)')
  BY <1>1, SeqLarger, ZenonT(30) DEF MdInv, MdTypes
<1>3. t \in [m : MayCome(p), pc : MdPc]
  BY Zenon DEF MdInv, MdTypes
<1>4. \A pc \in MdPc : LET u == [t EXCEPT !.pc = pc]
                       IN  u \in [m : MayCome(p), pc : MdPc] /\ u.pc = pc /\ u.m = t.m
  BY <1>3, ZenonT(30)
<1>5. /\ DOMAIN tasks' = Peers /\ \A r \in Peers \ {p} : tasks'[r] = tasks[r]
      /\ \A u \in tasks'[p] : \/ u \in tasks[p]
                              \/ /\ u \in [m : MayCome(p), pc : MdPc]
                                 /\ u.pc = "mark" => u.m.piece \in d
                                 /\ u.pc \in {"parse", "finish"} => i = Pieces
  <2>1. DOMAIN tasks = Peers
    BY Zenon DEF MdInv, MdTypes
  <2>2. CASE End(p, t)
    BY <2>1, <2>2, ZenonT(30) DEF End
  <2>3. ASSUME NEW pc \in MdPc, Go(p, t, pc), pc = "mark" => t.m.piece \in d,
               pc \in {"parse", "finish"} => i = Pieces
        PROVE  /\ DOMAIN tasks' = Peers /\ \A r \in Peers \ {p} : tasks'[r] = tasks[r]
               /\ \A u \in tasks'[p] : \/ u \in tasks[p]
                                       \/ /\ u \in [m : MayCome(p), pc : MdPc]
                                          /\ u.pc = "mark" => u.m.piece \in d
                                          /\ u.pc \in {"parse", "finish"} => i = Pieces
    <3> DEFINE x == [t EXCEPT !.pc = pc]
    <3>1. x \in [m : MayCome(p), pc : MdPc] /\ x.pc = pc /\ x.m = t.m
      BY <1>4, ZenonT(30)
    <3>2. tasks' = [tasks EXCEPT ![p] = (tasks[p] \ {t}) \cup {x}]
      BY <2>3, ZenonT(30) DEF Go
    <3> HIDE DEF x
    <3> QED BY <2>1, <2>3, <3>1, <3>2, ZenonT(30)
  <2> QED BY <2>2, <2>3, ZenonT(30)
<1>6. tasks'[p] \subseteq [m : MayCome(p)', pc : MdPc]
  BY <1>1, <1>5, ZenonT(30) DEF MdInv, MdTypes
<1>7. MdTypes'
  BY <1>1, <1>2, <1>5, <1>6, ZenonT(30) DEF MdInv, MdTypes, IsPeer, IsRemote
<1>8. Unasked' /\ Prefixed'
  BY ZenonT(30) DEF MdInv, Unasked, Prefixed, IsPeer, IsRemote
<1>9. Working'
  <2>1. peer[p].idx = Pieces => i = Pieces
    BY MdAssumption DEF IsPeer, PeerType
  <2> QED BY <1>5, <2>1, SMTT(30) DEF MdInv, Working, IsPeer
<1> QED BY <1>7, <1>8, <1>9, ZenonT(30) DEF MdInv

\* The piece of a data message, and what its handler knows.
LEMMA DataTask ==
    ASSUME MdInv, NEW p \in Peers, NEW t \in tasks[p]
    PROVE  /\ t.m.piece \in TheirIds \cup Index /\ t.pc \in MdPc
           /\ t.m.k = "data" => t.m.piece \in Index /\ peer[p].hs
<1>1. t \in [m : MayCome(p), pc : MdPc]
  BY Zenon DEF MdInv, MdTypes
<1>2. t.m \in MayCome(p) /\ t.pc \in MdPc
  BY <1>1, ZenonT(30)
<1> QED BY <1>2, Zenon DEF MayCome, NoData, MsgType

LEMMA HandshakeInv ==
    ASSUME MdInv, NEW p \in Peers, NEW t \in tasks[p], HandleHandshake(p, t)
    PROVE  MdInv'
<1>1. CASE peer[p].hs
  BY <1>1, ExitInv, ZenonT(30) DEF HandleHandshake
<1>2. CASE ~peer[p].hs
  <2> DEFINE x == {y \in peer[p].ids : y[1] # t.m.piece} \cup {<<t.m.piece, UtMetadata>>}
  <2>0. peer \in [Peers -> PeerType] /\ remote \in [Peers -> RemoteType]
    BY Zenon DEF MdInv, MdTypes
  <2>1. <<t.m.piece, UtMetadata>> \in IdPairs
    BY DataTask, ZenonT(30) DEF IdPairs
  <2>2. peer[p].ids \subseteq IdPairs
    BY <2>0, ZenonT(30) DEF PeerType
  <2>3. x \in SUBSET IdPairs
    BY <2>1, <2>2, ZenonT(30)
  <2>4. peer' = [peer EXCEPT ![p].hs = TRUE, ![p].ids = x]
    BY <1>2, ZenonT(30) DEF HandleHandshake
  <2> HIDE DEF x
  <2>5. IsPeer(peer', peer, p, TRUE, peer[p].data, peer[p].bits, peer[p].idx)
    BY <2>0, <2>3, <2>4, PeerShake, ZenonT(30)
  <2>6. peer[p].idx = 0 /\ remote[p].reqs = <<>> /\ 0 \in Index
    BY <1>2, MdAssumption, SMTT(30) DEF MdInv, Unasked, Index
  <2>7. Append(remote[p].reqs, peer[p].idx) \in Requests
    BY <2>6, SeqFacts, SMTT(30) DEF Requests
  <2>8. IsRemote(remote', remote, p, Append(remote[p].reqs, peer[p].idx))
    <3>1. RequestPiece(p, peer[p].idx)
      BY <1>2, ZenonT(30) DEF HandleHandshake
    <3> QED BY <2>0, <2>7, <3>1, RemoteAsked, Zenon DEF RequestPiece
  <2>9. End(p, t) /\ inbox' = inbox
    BY <1>2, Zenon DEF HandleHandshake
  <2>10. /\ peer[p].bits \subseteq peer[p].data /\ peer[p].idx >= peer[p].idx
         /\ \A j \in Index : j < peer[p].idx => j \in peer[p].bits
    BY <2>0 DEF MdInv, Prefixed, PeerType
  <2> QED BY <2>5, <2>8, <2>9, <2>10, HandlerInv, ZenonT(30)
<1> QED BY <1>1, <1>2, ZenonT(30)

LEMMA DataInv ==
    ASSUME MdInv, NEW p \in Peers, NEW t \in tasks[p],
           \/ WriteData(p, t) \/ MarkPiece(p, t) \/ CheckComplete(p, t)
           \/ Notify(p, t) \/ Finish(p, t) \/ HandleReject(p, t)
    PROVE  MdInv'
<1>0. /\ peer \in [Peers -> PeerType] /\ remote \in [Peers -> RemoteType]
      /\ peer[p] \in PeerType /\ remote[p] \in RemoteType
      /\ peer[p].data \subseteq Index /\ peer[p].bits \subseteq Index /\ peer[p].idx \in 0 .. Pieces
  BY Zenon DEF MdInv, MdTypes, PeerType
<1>1. /\ peer[p].bits \subseteq peer[p].data
      /\ \A j \in Index : j < peer[p].idx => j \in peer[p].bits
      /\ ~peer[p].hs => peer[p].idx = 0 /\ remote[p].reqs = <<>>
  BY Zenon DEF MdInv, Prefixed, Unasked
<1>2. /\ peer' = peer =>
             IsPeer(peer', peer, p, peer[p].hs, peer[p].data, peer[p].bits, peer[p].idx)
      /\ remote' = remote => IsRemote(remote', remote, p, remote[p].reqs)
      /\ peer[p].idx >= peer[p].idx
  BY <1>0, SMTT(30) DEF IsPeer, IsRemote
<1>3. CASE WriteData(p, t)
  <2> DEFINE d == peer[p].data \cup {t.m.piece}
  <2>1. d \in SUBSET Index
    BY <1>0, <1>3, DataTask, ZenonT(30) DEF WriteData, Running
  <2>2. peer' = [peer EXCEPT ![p].init = TRUE, ![p].data = d]
    BY <1>3, ZenonT(30) DEF WriteData
  <2>3. t.m.piece \in d /\ peer[p].data \subseteq d /\ peer[p].bits \subseteq d
    BY <1>1, ZenonT(30)
  <2> HIDE DEF d
  <2>4. IsPeer(peer', peer, p, peer[p].hs, d, peer[p].bits, peer[p].idx)
    BY <1>0, <2>1, <2>2, PeerWrite, ZenonT(30)
  <2>5. Go(p, t, "mark") /\ UNCHANGED <<inbox, remote>> /\ "mark" \in MdPc
    BY <1>3, ZenonT(30) DEF WriteData, MdPc
  <2> QED BY <1>1, <1>2, <2>3, <2>4, <2>5, HandlerInv, SMTT(30)
<1>4. CASE MarkPiece(p, t)
  <2> DEFINE b == peer[p].bits \cup {t.m.piece}
             i == NextMissing(peer[p].idx, b)
  <2>1. b \subseteq peer[p].data
    BY <1>1, <1>4, ZenonT(30) DEF MarkPiece, Running, MdInv, Working
  <2>2. b \subseteq Index
    BY <1>0, <2>1, ZenonT(30)
  <2>3. peer' = [peer EXCEPT ![p].bits = b, ![p].idx = i]
    BY <1>4, ZenonT(30) DEF MarkPiece
  <2>4. peer[p].bits \subseteq b
    BY Zenon
  <2> HIDE DEF b
  <2>5. /\ i \in 0 .. Pieces /\ i >= peer[p].idx
        /\ \A j \in Index : j >= peer[p].idx /\ j < i => j \in b
    BY <1>0, <2>2, NextMissingFacts, ZenonT(30)
  <2> HIDE DEF i
  <2>6. \A j \in Index : j < i => j \in b
    BY <1>0, <1>1, <2>4, <2>5, SMTT(30) DEF Index
  <2>7. IsPeer(peer', peer, p, peer[p].hs, peer[p].data, b, i)
    BY <1>0, <2>2, <2>3, <2>5, PeerMark, ZenonT(60)
  <2>8. Go(p, t, "check") /\ UNCHANGED <<inbox, remote>> /\ "check" \in MdPc
    BY <1>4, Zenon DEF MarkPiece, MdPc
  <2>9. peer[p].hs
    BY <1>4, DataTask, ZenonT(30) DEF MarkPiece, Running
  <2>10. IsRemote(remote', remote, p, remote[p].reqs) /\ inbox' = inbox
    BY <1>2, <2>8, ZenonT(30)
  <2> QED BY <2>1, <2>5, <2>6, <2>7, <2>8, <2>9, <2>10, HandlerInv, ZenonT(30)
<1>5. CASE CheckComplete(p, t)
  <2>0. peer[p].hs /\ UNCHANGED <<peer, inbox>>
    BY <1>5, DataTask, ZenonT(30) DEF CheckComplete, Running
  <2>1. CASE peer[p].idx >= Pieces
    <3>1. Go(p, t, "parse") /\ remote' = remote /\ "parse" \in MdPc
      BY <1>5, <2>1, ZenonT(30) DEF CheckComplete, MdPc
    <3>2. peer[p].idx = Pieces
      BY <1>0, <2>1, MdAssumption, SMTT(30)
    <3> QED BY <1>1, <1>2, <2>0, <3>1, <3>2, HandlerInv, ZenonT(30)
  <2>2. CASE ~(peer[p].idx >= Pieces)
    <3>1. RequestPiece(p, peer[p].idx) /\ End(p, t)
      BY <1>5, <2>2, ZenonT(30) DEF CheckComplete
    <3>2. peer[p].idx \in Index /\ remote[p].reqs \in Requests
      BY <1>0, <2>2, MdAssumption, SMTT(30) DEF Index, RemoteType
    <3>3. Append(remote[p].reqs, peer[p].idx) \in Requests
      BY <3>2, SeqFacts, Zenon DEF Requests
    <3>4. IsRemote(remote', remote, p, Append(remote[p].reqs, peer[p].idx))
      BY <1>0, <3>1, <3>3, RemoteAsked, ZenonT(30) DEF RequestPiece
    <3> QED BY <1>1, <1>2, <2>0, <3>1, <3>4, HandlerInv, ZenonT(30)
  <2> QED BY <2>1, <2>2, ZenonT(30)
<1>6. CASE Notify(p, t)
  <2>1. Go(p, t, "finish") /\ UNCHANGED <<peer, inbox, remote>> /\ "finish" \in MdPc
    BY <1>6, ZenonT(30) DEF Notify, MdPc
  <2>2. peer[p].idx = Pieces
    BY <1>6, ZenonT(30) DEF Notify, Running, MdInv, Working
  <2> QED BY <1>1, <1>2, <2>1, <2>2, HandlerInv, ZenonT(30)
<1>7. CASE Finish(p, t) \/ HandleReject(p, t)
  <2>1. End(p, t) /\ UNCHANGED <<peer, inbox, remote>>
    BY <1>7, Zenon DEF Finish, HandleReject
  <2> QED BY <1>1, <1>2, <2>1, HandlerInv, ZenonT(30)
<1> QED BY <1>3, <1>4, <1>5, <1>6, <1>7, ZenonT(60)

\* No order in which pieces arrive, are written, repeated or refused lets
\* on_metadata_complete parse metadata with a gap: a handler that parses sees every
\* piece written.
THEOREM NeverParsesGap == MdSpec => []ParsedWhole
<1>1. MdInv /\ [MdNext]_mdVars => MdInv'
  <2> SUFFICES ASSUME MdInv, [MdNext]_mdVars PROVE MdInv'
    BY Zenon
  <2>1. CASE UNCHANGED mdVars \/ CallerReturns
    BY <2>1, SameInv, ZenonT(30) DEF mdVars, CallerReturns
  <2>2. ASSUME NEW p \in Peers, NEW t \in tasks[p], HandlerStep(p, t) PROVE MdInv'
    BY <2>2, HandshakeInv, DataInv, ZenonT(30) DEF HandlerStep
  <2>3. ASSUME NEW p \in Peers, ReadEnds(p) PROVE MdInv'
    BY <2>3, ExitInv, Zenon DEF ReadEnds
  <2> QED BY <2>1, <2>2, <2>3, RegInv, ReceiveInv, RemoteInv, ZenonT(30) DEF MdNext
<1>2. MdInv => ParsedWhole
  <2> SUFFICES ASSUME MdInv, NEW p \in Peers, NEW t \in tasks[p], t.pc \in {"parse", "finish"}
               PROVE  peer[p].data = Index
    BY Zenon DEF ParsedWhole
  <2>1. peer[p].idx = Pieces /\ peer[p].bits \subseteq peer[p].data /\ peer[p].data \subseteq Index
    BY Zenon DEF MdInv, Working, Prefixed, MdTypes, PeerType
  <2>2. \A i \in Index : i \in peer[p].bits
    BY <2>1, MdAssumption, SMTT(30) DEF MdInv, Prefixed, Index
  <2> QED BY <2>1, <2>2, ZenonT(30)
<1> QED BY <1>1, <1>2, MdInit0, PTL DEF MdSpec

-----------------------------------------------------------------------------
(* MagnetDispatch *)

IInv ==
    /\ LaunchInv
    /\ finished \in BOOLEAN
    /\ refused \subseteq Id

-----------------------------------------------------------------------------
(* MagnetDispatch: exits *)

\* start_wait_peer on places and PeerInfos that agree with the queues: the head
\* of the wait queue moves towards the launcher or is dropped.
LEMMA StartWaitPeerEffect ==
    ASSUME NEW p \in [Id -> Place], NEW inf \in [Id -> InfoType], NEW dm \in BOOLEAN,
           LaunchTypeOK,
           IsInjective(channel), Range(channel) = {id \in Id : p[id] = "channel"},
           IsInjective(wait_queue), Range(wait_queue) = {id \in Id : p[id] = "wait"},
           StartWaitPeer(wait_queue, p, inf, dm)
    PROVE  /\ place' \in [Id -> Place] /\ info' \in [Id -> InfoType]
           /\ channel' \in Seq(Id) /\ Len(channel') <= CHANNEL_BUFFER
           /\ wait_queue' \in Seq(Id) /\ doomed' \subseteq Id
           /\ QueuesOwnTheirPeers'
           /\ \A id \in Id : \/ /\ info'[id].addr = inf[id].addr
                                /\ \/ place'[id] = p[id] /\ info'[id].waited = inf[id].waited
                                   \/ p[id] = "wait" /\ place'[id] \in {"channel", "sending"}
                             \/ p[id] = "wait" /\ place'[id] = "free"
<1>0. wait_queue \in Seq(Id)
  BY Zenon DEF LaunchTypeOK
<1>1. CASE finished /\ wait_queue # <<>>
  <2> DEFINE h == Head(wait_queue)
  <2>1. /\ h \in Id /\ h \in Range(wait_queue) /\ Tail(wait_queue) \in Seq(Id)
        /\ IsInjective(Tail(wait_queue)) /\ Range(Tail(wait_queue)) = Range(wait_queue) \ {h}
    BY <1>0, <1>1, TailDistinct, ZenonT(30)
  <2>2. p[h] = "wait"
    BY <2>1, ZenonT(30)
  <2>3. /\ wait_queue' = Tail(wait_queue) /\ place' = [p EXCEPT ![h] = "free"]
        /\ info' = [inf EXCEPT ![h] = NoInfo] /\ UNCHANGED <<channel, doomed>>
    BY <1>1, ZenonT(30) DEF StartWaitPeer, PopFront
  <2> HIDE DEF h
  <2>4. NoInfo \in InfoType
    BY Zenon DEF NoInfo, InfoType
  <2>5. place' \in [Id -> Place] /\ info' \in [Id -> InfoType]
    BY <2>1, <2>3, <2>4, ZenonT(30) DEF Place
  <2>6. QueuesOwnTheirPeers'
    BY <2>1, <2>2, <2>3, ZenonT(30) DEF QueuesOwnTheirPeers, At
  <2> QED BY <2>1, <2>2, <2>3, <2>5, <2>6, ZenonT(30) DEF LaunchTypeOK
<1>2. CASE ~(finished /\ wait_queue # <<>>)
  <2> DEFINE temp == FALSE
  <2>1. temp \in BOOLEAN /\ StartFromQueue(wait_queue, p, inf, temp, dm)
    BY <1>2, ZenonT(30) DEF StartWaitPeer
  <2> HIDE DEF temp
  <2>2. /\ place' \in [Id -> Place] /\ info' \in [Id -> InfoType]
        /\ channel' \in Seq(Id) /\ Len(channel') <= CHANNEL_BUFFER
        /\ wait_queue' \in Seq(Id) /\ doomed' \subseteq Id
        /\ QueuesOwnTheirPeers'
        /\ \A id \in Id : info'[id].addr = inf[id].addr
        /\ \A id \in Id : \/ place'[id] = p[id] /\ info'[id].waited = inf[id].waited
                          \/ p[id] = "wait" /\ place'[id] \in {"channel", "sending"}
    BY <1>0, <2>1, StartFromQueueEffect, SMTT(30)
  <2> QED BY <2>2, ZenonT(30)
<1> QED BY <1>1, <1>2, Zenon

\* What LaunchInv says of the two queues, in the form the lemma above asks for.
LEMMA QueueFacts ==
    ASSUME LaunchInv
    PROVE  /\ LaunchTypeOK /\ place \in [Id -> Place] /\ info \in [Id -> InfoType]
           /\ IsInjective(channel) /\ Range(channel) = {id \in Id : place[id] = "channel"}
           /\ IsInjective(wait_queue) /\ Range(wait_queue) = {id \in Id : place[id] = "wait"}
BY Zenon DEF LaunchInv, LaunchTypeOK, InfoType, QueuesOwnTheirPeers, At

\* The launcher has finished a host and starts one from the wait queue.
LEMMA WakePreserves ==
    ASSUME LaunchInv, Wake
    PROVE  LaunchInv' /\ ReleaseStep
<1> DEFINE dm == FALSE
<1>1. dm \in BOOLEAN /\ StartWaitPeer(wait_queue, place, info, dm)
  BY Zenon DEF Wake
<1>2. /\ launcher.pc = "wake"
      /\ launcher' = IF finished THEN [pc |-> "select", id |-> NoId] ELSE AfterWake
      /\ UNCHANGED <<unstart_host, phase, servant_peers, listening>>
  BY Zenon DEF Wake
<1> HIDE DEF dm
<1>3. /\ place' \in [Id -> Place] /\ info' \in [Id -> InfoType]
      /\ channel' \in Seq(Id) /\ Len(channel') <= CHANNEL_BUFFER
      /\ wait_queue' \in Seq(Id) /\ doomed' \subseteq Id
      /\ QueuesOwnTheirPeers'
      /\ \A id \in Id : \/ /\ info'[id].addr = info[id].addr
                           /\ \/ place'[id] = place[id] /\ info'[id].waited = info[id].waited
                              \/ place[id] = "wait" /\ place'[id] \in {"channel", "sending"}
                        \/ place[id] = "wait" /\ place'[id] = "free"
  BY ONLY <1>1, QueueFacts, StartWaitPeerEffect, LaunchInv, SMTT(30)
<1>4. KeepsHolders /\ KeepsConnections /\ ReleaseStep
  BY <1>2, <1>3, ZenonT(30) DEF KeepsHolders, Accepted, KeepsConnections, ReleaseStep
<1>5. QuietStep
  BY <1>2, <1>3, <1>4, ZenonT(30) DEF QuietStep
<1>6. OtherTypes /\ wait_queue \in Seq(Id)
  BY OtherTypesHold, ZenonT(30) DEF LaunchInv, LaunchTypeOK
<1>7. /\ launcher' \in [pc : {"select", "start", "wake", "send"}, id : Id \cup {NoId}]
      /\ launcher'.pc # "start"
  BY <1>2, <1>6, SMTT(30) DEF AfterWake
<1>8. OtherTypes'
  BY <1>2, <1>6, <1>7, ZenonT(30) DEF OtherTypes
<1> QED BY <1>2, <1>5, <1>7, <1>8, QuietStepOtherTypes, Zenon

\* on_peer_exit removes the peer and starts the next.
LEMMA DisconnectPreserves ==
    ASSUME LaunchInv, NEW id \in Id, Disconnect(id)
    PROVE  LaunchInv' /\ ReleaseStep
<1>0. OtherTypes /\ info \in [Id -> InfoType]
  BY OtherTypesHold, ZenonT(30)
<1>1. UNCHANGED <<phase, launcher>> /\ servant_peers' \subseteq servant_peers /\ listening' \subseteq listening
  BY Zenon DEF Disconnect
<1>2. OtherTypes'
  BY <1>0, <1>1, ZenonT(30) DEF OtherTypes
<1>3. CASE ~(id \in servant_peers /\ place[id] = "peers")
  <2>1. UNCHANGED <<info, place, channel, wait_queue, doomed, unstart_host>>
    BY <1>3, ZenonT(30) DEF Disconnect
  <2>2. QuietStep
    BY <1>0, <2>1, SamePlacesEffect, ZenonT(30)
  <2> QED BY <1>1, <1>2, <2>2, QuietStepOtherTypes, ZenonT(30)
<1>4. CASE id \in servant_peers /\ place[id] = "peers"
  <2> DEFINE p == [place EXCEPT ![id] = "free"]
             inf == [info EXCEPT ![id] = NoInfo]
             dm == TRUE
  <2>1. /\ dm \in BOOLEAN /\ StartWaitPeer(wait_queue, p, inf, dm)
        /\ unstart_host' = unstart_host \ {info[id].addr}
    BY <1>4, ZenonT(30) DEF Disconnect
  <2>2. p \in [Id -> Place] /\ inf \in [Id -> InfoType]
    <3>1. NoInfo \in InfoType
      BY Zenon DEF NoInfo, InfoType
    <3> QED BY <3>1, QueueFacts, ZenonT(30) DEF Place
  <2>3. /\ Range(channel) = {j \in Id : p[j] = "channel"}
        /\ Range(wait_queue) = {j \in Id : p[j] = "wait"}
    BY <1>4, QueueFacts, ZenonT(30)
  <2>4. p[id] = "free" /\ \A j \in Id : j # id => p[j] = place[j] /\ inf[j] = info[j]
    BY QueueFacts, ZenonT(30)
  <2> HIDE DEF p, inf, dm
  <2>5. /\ place' \in [Id -> Place] /\ info' \in [Id -> InfoType]
        /\ channel' \in Seq(Id) /\ Len(channel') <= CHANNEL_BUFFER
        /\ wait_queue' \in Seq(Id) /\ doomed' \subseteq Id
        /\ QueuesOwnTheirPeers'
        /\ \A j \in Id : \/ /\ info'[j].addr = inf[j].addr
                            /\ \/ place'[j] = p[j] /\ info'[j].waited = inf[j].waited
                               \/ p[j] = "wait" /\ place'[j] \in {"channel", "sending"}
                         \/ p[j] = "wait" /\ place'[j] = "free"
    BY ONLY <2>1, <2>2, <2>3, QueueFacts, StartWaitPeerEffect, LaunchInv, SMTT(30)
  <2>6. /\ place'[id] = "free"
        /\ \A j \in Id : j # id =>
              \/ /\ info'[j].addr = info[j].addr
                 /\ \/ place'[j] = place[j] /\ info'[j].waited = info[j].waited
                    \/ place[j] = "wait" /\ place'[j] \in {"channel", "sending"}
              \/ place[j] = "wait" /\ place'[j] = "free"
    BY <2>4, <2>5, ZenonT(30)
  <2>7. KeepsHolders /\ KeepsConnections
    BY <2>6, ZenonT(30) DEF KeepsHolders, Accepted, KeepsConnections
  <2>8. ReleaseStep
    BY <1>4, <2>1, <2>6, ZenonT(30) DEF ReleaseStep, Accepted
  <2>9. QuietStep
    BY <1>4, <2>1, <2>5, <2>6, <2>7, <2>8, ZenonT(30) DEF QuietStep
  <2> QED BY <1>1, <1>2, <2>9, QuietStepOtherTypes, ZenonT(30)
<1> QED BY <1>3, <1>4, ZenonT(30)

-----------------------------------------------------------------------------
(* MagnetDispatch: the steps *)

\* Steps that leave places, queues and PeerInfos alone: a refused handshake, the
\* end of the parsing and stuttering.
LEMMA QuietRest ==
    ASSUME LaunchInv,
           \/ \E id \in Id : AddPeerRefused(id) \/ MetadataComplete(id)
           \/ UNCHANGED vars
    PROVE  LaunchInv' /\ ReleaseStep
<1>1. OtherTypes /\ info \in [Id -> InfoType]
  BY OtherTypesHold, ZenonT(30)
<1>2. UNCHANGED <<info, place, channel, wait_queue, doomed, unstart_host, launcher, servant_peers>>
  BY Zenon DEF AddPeerRefused, MetadataComplete, vars, launchVars
<1>3. phase' \in [Id -> Phase] /\ listening' \subseteq listening
  <2>1. CASE \E id \in Id : AddPeerRefused(id)
    BY <1>1, <2>1, ZenonT(30) DEF AddPeerRefused, OtherTypes, Phase
  <2>2. CASE (\E id \in Id : MetadataComplete(id)) \/ UNCHANGED vars
    BY <1>1, <2>2, ZenonT(30) DEF MetadataComplete, OtherTypes, vars, launchVars
  <2> QED BY <2>1, <2>2, ZenonT(30)
<1>4. OtherTypes'
  BY <1>1, <1>2, <1>3, ZenonT(30) DEF OtherTypes
<1>5. QuietStep
  BY <1>1, <1>2, SamePlacesEffect, ZenonT(30)
<1> QED BY <1>2, <1>4, <1>5, QuietStepOtherTypes, ZenonT(30)

\* Every step keeps the invariant shared with the content dispatch.
LEMMA LaunchStep ==
    ASSUME LaunchInv, [Next]_vars
    PROVE  LaunchInv' /\ ReleaseStep
<1>1. CASE \E id \in Id, a \in Addr : ReceiveHost(id, a)
  <2> DEFINE lt == FALSE
  <2>1. PICK id \in Id, a \in Addr : NewPeer(id, a, lt)
    BY <1>1, ZenonT(30) DEF ReceiveHost
  <2>2. lt \in BOOLEAN
    BY Zenon
  <2> HIDE DEF lt
  <2> QED BY <2>1, <2>2, NewPeerPreserves, ZenonT(30)
<1>2. CASE \E id \in Id : SendDone(id)
  BY <1>2, SendReadyPreserves, ZenonT(30) DEF SendDone
<1>3. CASE \E id \in Id : SendAborted(id)
  BY <1>3, AbortSendPreserves, ZenonT(30) DEF SendAborted
<1>4. CASE \E pool \in BOOLEAN : Recv(pool)
  BY <1>4, LaunchRecvPreserves, ZenonT(30) DEF Recv
<1>5. CASE \E id \in Id : Result(id)
  BY <1>5, LaunchResultPreserves, ZenonT(30) DEF Result
<1>6. CASE Wake
  BY <1>6, WakePreserves, ZenonT(30)
<1>7. CASE \E id \in Id : AsyncRun(id)
  BY <1>7, StartStepPreserves, QuietRest, ZenonT(30) DEF AsyncRun
<1>8. CASE \E id \in Id : Disconnect(id)
  BY <1>8, DisconnectPreserves, ZenonT(30)
<1>9. CASE (\E id \in Id : MetadataComplete(id)) \/ UNCHANGED vars
  BY <1>9, QuietRest, ZenonT(30)
<1> QED BY <1>1, <1>2, <1>3, <1>4, <1>5, <1>6, <1>7, <1>8, <1>9, ZenonT(30) DEF Next

\* Every step of the magnet dispatch.
LEMMA StepPreserves ==
    IInv /\ [Next]_vars => IInv' /\ ReleaseStep
<1> SUFFICES ASSUME IInv, [Next]_vars PROVE IInv' /\ ReleaseStep
  BY Zenon
<1>1. LaunchInv' /\ ReleaseStep
  BY LaunchStep, ZenonT(30) DEF IInv
<1>2. finished' \in {finished, TRUE} /\ refused' \subseteq refused \cup Id
  BY Zenon DEF Next, vars, ReceiveHost, SendDone, SendAborted, Recv, Result, Wake, AsyncRun,
         AddPeerRefused, Disconnect, MetadataComplete
<1> QED BY <1>1, <1>2, ZenonT(30) DEF IInv

-----------------------------------------------------------------------------
(* MagnetDispatch: the theorems *)

\* The inductive invariant holds in every state of every magnet link.
THEOREM Invariance == Spec => []IInv
<1>1. Init => IInv
  BY LaunchInitEstablishes, ZenonT(30) DEF Init, IInv
<1> QED BY <1>1, StepPreserves, PTL DEF Spec

\* Every variable keeps its shape.
THEOREM TypeCorrect == Spec => []TypeOK
<1>1. IInv => TypeOK
  BY Zenon DEF IInv, LaunchInv, TypeOK
<1> QED BY <1>1, Invariance, PTL

\* At most one accepted PeerInfo per address while a magnet link is resolved, in
\* spite of start_peer dropping woken peers once it is finished.
THEOREM UniqueHolder == Spec => []OneHolderPerAddr
<1>1. IInv => OneHolderPerAddr
  BY Zenon DEF IInv, LaunchInv
<1> QED BY <1>1, Invariance, PTL

\* The address of every accepted PeerInfo is in unstart_host, and neither queue
\* loses or duplicates a PeerInfo.
THEOREM HoldersAndQueues == Spec => [](HolderIsBlocked /\ QueuesOwnTheirPeers)
<1>1. IInv => HolderIsBlocked /\ QueuesOwnTheirPeers
  BY Zenon DEF IInv, LaunchInv
<1> QED BY <1>1, Invariance, PTL

\* The connections made for a magnet link never exceed torrent_peer_conn_limit.
THEOREM ConnectionLimit == Spec => []ConnLimitRespected
<1>1. IInv => ConnLimitRespected
  BY Zenon DEF IInv, LaunchInv
<1> QED BY <1>1, Invariance, PTL
=============================================================================
