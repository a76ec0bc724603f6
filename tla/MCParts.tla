------------------------------- MODULE MCParts -------------------------------
(***************************************************************************)
(* The parts of the program around the download itself, checked beside     *)
(* each other: a behaviour follows the part that its first state selects,  *)
(* the others stay in one of their initial states.                         *)
(***************************************************************************)
EXTENDS UdpServer, RoutingTable, DhtScan, TrackerScan, Subscription, RemoteControl,
        MetadataFetch, RateControl, Framing, CryptoHandshake, Bencode, Codecs, FileLayout

CONSTANT Parts   \* the parts that a run follows

VARIABLE part

mcVars == <<part, udpVars, buckets, scanVars, trkVars, subVars, ctlVars, mdVars, rateVars,
            frmVars, cryVars, benVars, codVars, layVars>>

-----------------------------------------------------------------------------
(* Instances *)

Own == <<0, 0, 0, 0>>
\* The own bucket is split twice, and then three nodes share one of two places.
FiveNodes == {Own, <<0, 1, 0, 0>>, <<0, 1, 0, 1>>, <<0, 1, 1, 0>>, <<1, 0, 0, 0>>}

\* Two feeds that gain an item, one of them the same in both; two items are of one
\* torrent.
TwoFeeds == [f \in {"f1", "f2"} |-> IF f = "f1" THEN << <<"g1">>, <<"g1", "g2">> >>
                                    ELSE << <<"g3">>, <<"g3", "g2">> >>]
TwoTorrents == [g \in {"g1", "g2", "g3"} |-> IF g = "g1" THEN "t1" ELSE "t2"]

\* Conversations with empty and longer fields.
Hello(p, payload) == [kind |-> "hello", protocol |-> p, payload |-> payload]
Auth(u, p) == [kind |-> "auth", user |-> u, pass |-> p]
Req(c, t, bytes) == [kind |-> "request", code |-> c, tran |-> t, body |-> bytes]
Said(t, bytes) == [kind |-> "peer", type |-> t, body |-> bytes]
KeepAlive == [kind |-> "keepalive"]
Bodies == {<<>>, <<1>>, <<1, 2>>}
Control(msgs) == [kind |-> "control", msgs |-> msgs]
FromPeer(msgs) == [kind |-> "peer", msgs |-> msgs]
Conversations ==
    {Control(<<Hello(BitTorrent, <<1, 2>>)>>)}
    \cup {Control(<<Hello(RemoteControl, <<>>), Auth(u, p), Req(1, 1, c), Req(2, 2, d)>>) :
              u \in {<<>>, <<2>>}, p \in {<<>>, <<1>>}, c \in Bodies, d \in Bodies}
    \cup {FromPeer(<<Said(t, c), Said(1, d), Said(2, <<>>)>>) :
              t \in {0, 2}, c \in Bodies, d \in Bodies}
    \cup {FromPeer(<<Said(1, c), KeepAlive, Said(2, d)>>) : c \in Bodies, d \in Bodies}

\* Documents made of tokens, well-formed or not: i1e, 1:a, 1:b, 0:, l, d, e, and
\* i-0e, i01e, i-1e, 01:a, 2:a, x.
UpTo(S, n) == UNION {[1 .. k -> S] : k \in 0 .. n}
DictA == <<CharD, 49, 58, 97>>
Good == {<<105, 49, 101>>, <<49, 58, 97>>, <<48, 58>>, <<CharL>>, <<CharD>>, <<CharE>>}
Bad == {<<105, 45, 48, 101>>, <<105, 48, 49, 101>>, <<105, 45, 49, 101>>, <<48, 49, 58, 97>>,
        <<50, 58, 97>>, <<120>>}
Documented ==
    {FlattenSeq(d) : d \in UpTo(Good, 3)}
    \cup {<<CharL>> \o FlattenSeq(d) : d \in UpTo(Good, 3)}
    \cup {FlattenSeq(<<x>> \o d) : x \in Bad, d \in UpTo(Good, 1)}
    \cup {DictA \o FlattenSeq(d) : d \in UpTo(Good \cup {<<49, 58, 98>>}, 3) \cup UpTo(Bad, 1)}
    \cup {<<CharL>> \o x : x \in Bad}

\* Values nested up to one level more than MaxDepth, with keys that are equal,
\* prefixes of each other, or out of order.
Num1 == [t |-> "int", text |-> <<45, 49>>]
Leaves == {Num1, [t |-> "str", text |-> <<97, 98>>]}
SomeKeys == {<<>>, <<97>>, <<97, 97>>, <<98>>}
ListsOf(S, n) == {[t |-> "list", items |-> l] : l \in UpTo(S, n)}
DictsOf(S, n) == {[t |-> k, pairs |-> l] : k \in {"dict", "unsorted"}, l \in UpTo(SomeKeys \X S, n)}
Shallow == Leaves \cup ListsOf({Num1}, 1) \cup DictsOf({Num1}, 1)
Nestings ==
    ListsOf(Shallow, 1) \cup DictsOf(Shallow, 1) \cup DictsOf({Num1}, 3)
    \cup ListsOf(DictsOf(Shallow, 1), 1) \cup DictsOf(ListsOf(Shallow, 1), 1)

\* IPv4 lists of addresses and hosts, IPv6 lists of hosts below the length that is
\* also one of IPv4 hosts.
Compact ==
    [of : {"addrs", "hosts"}, family : {"v4"}, count : 0 .. 12]
    \cup [of : {"hosts"}, family : {"v6"}, count : 1 .. 12]
Trackers80 == {[scheme |-> s80, host |-> <<"t", "r", ":", "8", "0">>, path |-> <<>>] :
                   s80 \in {"udp", "http", "wss"}}

\* Up to four files, some of them empty.
FourFiles == UNION {[1 .. n -> {0, 1, 3, 5}] : n \in 1 .. 4}

-----------------------------------------------------------------------------
\* Only the part that is followed starts in all its initial states.
Init ==
    /\ part \in Parts
    /\ UdpInit /\ RtInit /\ ScanInit /\ TrkInit /\ SubInit /\ CtlInit /\ MdInit /\ RateInit
    /\ IF part = "framing" THEN FrmInit
       ELSE /\ stream = Control(<<>>) /\ wire = <<>> /\ socket = <<>> /\ out = <<>>
            /\ future = First("control")
    /\ CryInit /\ (part # "crypto" => b.pad_b + b.pad_d = 0 /\ b.select = "rc4")
    /\ IF part = "bencode" THEN BenInit
       ELSE /\ value = <<>> /\ source = <<>> /\ ordered = TRUE /\ done = FALSE
            /\ dec = [off |-> 0, st |-> <<>>, toks |-> <<>>] /\ open = <<>> /\ raw = <<>>
    /\ IF part = "codecs" THEN CodInit
       ELSE msg = (CHOOSE m \in Built : TRUE) /\ pairs = Nothing /\ got = Nothing
    /\ IF part = "layout" THEN LayInit
       ELSE files = <<1>> /\ listed = TRUE /\ request = NoRequest /\ blocks = <<>>

Next ==
    /\ UNCHANGED part
    /\ IF part = "udp" THEN UdpNext ELSE UNCHANGED udpVars
    /\ IF part = "table" THEN RtNext ELSE UNCHANGED buckets
    /\ IF part = "scan" THEN ScanNext ELSE UNCHANGED scanVars
    /\ IF part = "tracker" THEN TrkNext ELSE UNCHANGED trkVars
    /\ IF part = "feeds" THEN SubNext ELSE UNCHANGED subVars
    /\ IF part = "control" THEN CtlNext ELSE UNCHANGED ctlVars
    /\ IF part = "metadata" THEN MdNext ELSE UNCHANGED mdVars
    /\ IF part = "rate" THEN RateNext ELSE UNCHANGED rateVars
    /\ IF part = "framing" THEN FrmNext ELSE UNCHANGED frmVars
    /\ IF part = "crypto" THEN CryNext ELSE UNCHANGED cryVars
    /\ IF part = "bencode" THEN BenNext ELSE UNCHANGED benVars
    /\ IF part = "codecs" THEN CodNext ELSE UNCHANGED codVars
    /\ IF part = "layout" THEN LayNext ELSE UNCHANGED layVars

\* Tasks run, timers fire and the receive loop finishes what it began; nothing is
\* assumed of the network.
UdpFairness ==
    /\ \A c \in Calls : /\ WF_udpVars(part = "udp" /\ CallStep(c))
                        /\ WF_udpVars(part = "udp" /\ TimerFires(c))
    /\ WF_udpVars(part = "udp" /\ RecvStore)

\* Tasks run and calls of UdpServer end.  The semaphore of tokio is first come,
\* first served: a scan that waits while permits come and go is given one.
ScanFairness ==
    /\ \A t \in Tasks : /\ WF_scanVars(part = "scan" /\ ScanStep(t))
                        /\ WF_scanVars(part = "scan" /\ \E p \in queries[t] : Query(t, p))
                        /\ SF_scanVars(part = "scan" /\ Acquire(t))
    /\ WF_scanVars(part = "scan" /\ \E p \in orphans : OrphanQuery(p))

\* Every exchange with a UDP tracker has a timeout, and timers fire.  So has the
\* request to an HTTP tracker; the body of its answer, which is read without one,
\* is assumed to end.
TrkFairness ==
    /\ WF_trkVars(part = "tracker" /\ (ScanTrackers \/ Sleep \/ WakeScan))
    /\ \A t \in Trackers : WF_trkVars(part = "tracker" /\ TrkStep(t))

\* Tasks run, and downloads of a feed end, also those without a timeout.  The pool
\* hands out its connections in the order they were asked for.
SubFairness ==
    /\ \A w \in Workers : SF_subVars(part = "feeds" /\ WorkerStep(w))
    /\ SF_subVars(part = "feeds" /\ (SetManager \/ ListTorrent \/ LoadTask))
    /\ WF_subVars(part = "feeds" /\ JoinFlush)
    /\ \A f \in Feeds : WF_subVars(part = "feeds" /\ SpawnFlush(f))
    /\ WF_subVars(part = "feeds" /\ dht_conn = 1 /\ RefreshTable)

\* Tasks run.  A peer's messages arrive in the end, and one that stays answers.
MdFairness ==
    /\ \A p \in Peers : /\ WF_mdVars(part = "metadata" /\ (Greet(p) \/ Register(p)))
                        /\ WF_mdVars(part = "metadata" /\ Receive(p))
                        /\ WF_mdVars(part = "metadata" /\ (RemoteGreets(p) \/ RemoteAnswers(p)))
                        /\ WF_mdVars(part = "metadata" /\ \E t \in tasks[p] : HandlerStep(p, t))
    /\ WF_mdVars(part = "metadata" /\ CallerReturns)

Spec == /\ Init /\ [][Next]_mcVars
        /\ UdpFairness /\ ScanFairness /\ TrkFairness /\ SubFairness /\ MdFairness

-----------------------------------------------------------------------------
\* Every part keeps its types: the maps, counters, buffers and records of every
\* module.
PartsTypeOK ==
    /\ part = "udp" => UdpTypeOK
    /\ part = "table" => RtTypeOK
    /\ part = "scan" => ScanTypeOK
    /\ part = "tracker" => TrkTypeOK
    /\ part = "feeds" => SubTypeOK
    /\ part = "control" => CtlTypeOK
    /\ part = "metadata" => MdTypeOK
    /\ part = "rate" => RateTypeOK
    /\ part = "framing" => FrmTypeOK
    /\ part = "crypto" => CryTypeOK
    /\ part = "bencode" => BenTypeOK
    /\ part = "codecs" => CodTypeOK
    /\ part = "layout" => LayTypeOK

\* CallEnds of UdpServer: every call of ping and get_peers returns.
CallsEnd == part = "udp" => CallEnds
\* ScanEnds of DhtScan: a scan comes to its end beside others.
ScansEnd == part = "scan" => ScanEnds
\* HttpAgain of TrackerScan: an HTTP tracker that works is announced to for ever.
HttpAnnounced == part = "tracker" => HttpAgain
\* RefreshEnds of Subscription: a refresh of all feeds ends, so the next can begin.
FeedsRefreshed == part = "feeds" => RefreshEnds
\* MetadataArrives of MetadataFetch: a magnet link gets its torrent.
MagnetResolved == part = "metadata" => MetadataArrives
=============================================================================
