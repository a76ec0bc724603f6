------------------------------- MODULE Codecs -------------------------------
(***************************************************************************)
(* The messages the program exchanges as bencoded dictionaries: the DHT's  *)
(* (bt/dht/entity.rs), the extension protocol's (default_servant/          *)
(* extend_data.rs), an HTTP tracker's answer and a torrent file, and the   *)
(* compact address lists inside them (doro-util/src/bendy_ext.rs).         *)
(*                                                                         *)
(* Bencode checks the encoder and the decoder underneath; here a           *)
(* dictionary is the sequence of its pairs <<key, value>>, and a value is  *)
(* "v" (one the field's reader takes), "bad" (one it refuses) or "other"   *)
(* (one of another kind).  A message is the function of its set fields.    *)
(***************************************************************************)
EXTENDS Integers, Sequences, FiniteSets, SequencesExt, Functions

CONSTANTS
  Width,        \* the most pairs in a dictionary that a remote sends
  Lists,        \* the compact lists tried, as [of, family, count]
  Announces     \* the tracker addresses tried, as [scheme, host, path]

VARIABLES
  msg,          \* the message its sender wants to say, with its type
  pairs,        \* the dictionary on the wire
  got           \* what the receiver's decoder returned

codVars == <<msg, pairs, got>>

\* Every key of every message, in the byte order bencode requires.
KeyOrder == <<"a", "announce", "announce-list", "comment", "complete", "created by",
  "creation date", "dn", "downloaded", "encoding", "extra", "files", "id", "incomplete", "info",
  "info_hash", "interval", "ip", "ipv4", "ipv6", "length", "m", "md5sum", "metadata_size",
  "min interval", "msg_type", "name", "nodes", "p", "path", "peers", "peers6", "piece",
  "piece length", "pieces", "port", "private", "q", "r", "reqq", "t", "target", "token",
  "total_size", "tr", "v", "values", "xl", "xt", "y", "yourip">>

Rank(key) == CHOOSE i \in 1..Len(KeyOrder) : KeyOrder[i] = key

\* The Result of a call: none yet, an error, or a value.
Nothing == <<>>

Refusal == <<"error">>

Ok(x) == <<"ok", x>>

Value(r) == r[2]

-----------------------------------------------------------------------------
\* A codec: the pairs the encoder emits, in its order, as <<key, field>>; the
\* field each key the decoder knows sets; the keys it only matches when the
\* value is a byte string; the keys whose value may be of any kind; and the
\* groups of fields of which one must be there.
Codec(emits, reads, bytes, any, needs) ==
  [emits |-> emits, reads |-> reads, bytes |-> bytes, any |-> any, needs |-> needs]

Same(keys) == [k \in keys |-> k]

Each(keys) == {{k} : k \in keys}

Ping == Codec(<< <<"id", "id">>, <<"port", "port">> >>, [id |-> "id", p |-> "port"],
              {}, {}, {{"id"}})

GetPeersReq == Codec(<< <<"id", "id">>, <<"info_hash", "info_hash">> >>, <<>>, {}, {}, {})

FindNodeReq == Codec(<< <<"id", "id">>, <<"target", "target">> >>, <<>>, {}, {}, {})

GetPeersResp == Codec(<<>>, Same({"id", "nodes", "values", "token", "p"}),
                      {"nodes"}, {"token"}, {{"id"}})

FindNodeResp == Codec(<<>>, Same({"id", "nodes"}), {"nodes"}, {}, Each({"id", "nodes"}))

DHTBase ==
  Codec([i \in 1..5 |-> LET k == <<"a", "r", "q", "t", "y">>[i] IN <<k, k>>],
        Same({"a", "r", "q", "t", "y", "p", "v", "ip", "ipv6", "ipv4", "reqq"}),
        {}, {"t", "v"}, {{"t"}, {"y"}, {"a", "r"}})

HandshakeKeys == <<"m", "p", "v", "yourip", "ipv6", "ipv4", "reqq", "metadata_size">>

HandshakeData ==
  Codec([i \in 1..Len(HandshakeKeys) |-> <<HandshakeKeys[i], HandshakeKeys[i]>>],
        Same(Range(HandshakeKeys)), {}, {}, {{"m"}})

Metadata ==
  Codec([i \in 1..3 |-> LET k == <<"msg_type", "piece", "total_size">>[i] IN <<k, k>>],
        Same({"msg_type", "piece", "total_size"}), {}, {}, Each({"msg_type", "piece"}))

HttpAnnounce ==
  Codec(<<>>, Same({"interval", "incomplete", "complete", "downloaded", "peers",
                    "min interval", "peers6"}),
        {"peers", "peers6"}, {}, Each({"interval", "incomplete", "complete"}))

\* `info` is matched as a dictionary: a value of another kind is passed over.
Torrent ==
  Codec(<<>>, Same({"announce", "announce-list", "created by", "creation date", "info",
                    "comment", "encoding"}),
        {"info"}, {}, Each({"announce", "announce-list", "creation date", "info"}))

Info ==
  Codec(<<>>, Same({"name", "length", "piece length", "pieces", "files", "md5sum", "private"}),
        {}, {}, {{"name"}, {"piece length"}, {"pieces"}, {"files", "length"}})

File == Codec(<<>>, Same({"length", "path", "md5sum"}), {}, {}, Each({"length", "path"}))

\* Magnet::from_url, over the query pairs of the address.
Magnet == Codec(<<>>, Same({"xt", "tr", "dn", "xl"}), {}, {"tr", "dn"}, {{"xt"}})

CodecOf == [Ping |-> Ping, GetPeersReq |-> GetPeersReq, FindNodeReq |-> FindNodeReq,
            GetPeersResp |-> GetPeersResp, FindNodeResp |-> FindNodeResp,
            DHTBase |-> DHTBase, HandshakeData |-> HandshakeData, Metadata |-> Metadata,
            HttpAnnounce |-> HttpAnnounce, Torrent |-> Torrent, Info |-> Info, File |-> File,
            Magnet |-> Magnet]

\* MetadataType on the wire.
MetadataType == [Request |-> "0", Data |-> "1", Reject |-> "2"]

\* What a decoder checks beyond the fields it must find: a query names its
\* method, and a data message says how long the metadata is.
Consistent(type, m) ==
  /\ type = "DHTBase" /\ "a" \in DOMAIN m => "q" \in DOMAIN m
  /\ type = "Metadata" /\ m["msg_type"] = MetadataType["Data"] => "total_size" \in DOMAIN m

-----------------------------------------------------------------------------
\* emit_dict with the pairs of the fields that are set: the encoder refuses a
\* key that is not greater than the one before it.
InOrder(ps) == \A i \in 2..Len(ps) : Rank(ps[i - 1][1]) < Rank(ps[i][1])

EncodeFields(type, m) ==
  LET set == SelectSeq(CodecOf[type].emits, LAMBDA e : e[2] \in DOMAIN m)
      ps  == [i \in 1..Len(set) |-> <<set[i][1], m[set[i][2]]>>]
  IN  IF InOrder(ps) /\ (type = "DHTBase" /\ "a" \in DOMAIN m => "q" \in DOMAIN m)
      THEN Ok(ps) ELSE Refusal

\* One pair as the decoder's match sees it.
Refuses(c, p) ==
  /\ p[1] \in DOMAIN c.reads \ c.any
  /\ p[2] = "bad" \/ (p[2] = "other" /\ p[1] \notin c.bytes)

Sets(c, p) == p[1] \in DOMAIN c.reads /\ (p[1] \in c.bytes => p[2] # "other")

\* decode_bencode_object: the loop over next_pair, with MUST_ORDER = false, and
\* the missing-field checks after it.
DecodeFields(type, ps) ==
  LET c      == CodecOf[type]
      taken  == SelectSeq(ps, LAMBDA p : Sets(c, p))
      fields == {c.reads[taken[i][1]] : i \in 1..Len(taken)}
      value(f) == LET i == CHOOSE k \in 1..Len(taken) :
                             /\ c.reads[taken[k][1]] = f
                             /\ \A j \in (k + 1)..Len(taken) : c.reads[taken[j][1]] # f
                  IN  taken[i][2]
      m == [f \in fields |-> value(f)]
  IN  IF /\ \A i \in 1..Len(ps) : ~Refuses(c, ps[i])
         /\ \A g \in c.needs : g \cap fields # {}
         /\ Consistent(type, m)
      THEN Ok(m) ELSE Refusal

-----------------------------------------------------------------------------
\* Compact lists: n entries of a family, as the number of their bytes.
EntrySize == [addrs |-> [v4 |-> 6, v6 |-> 18], hosts |-> [v4 |-> 26, v6 |-> 38]]

\* Mutant: the longer entry is tried first.
ChunkLonger(of, len) ==
  IF len % EntrySize[of]["v6"] = 0 THEN "v6"
  ELSE IF len % EntrySize[of]["v4"] = 0 THEN "v4" ELSE "none"

\* The chunk_size of to_object for Vec<SocketAddrExt> and VecHost.
ChunkFamily(of, len) ==
  IF len % EntrySize[of]["v4"] = 0 THEN "v4"
  ELSE IF len % EntrySize[of]["v6"] = 0 THEN "v6" ELSE "none"

\* parse_peers_v4 reads the whole of a UDP tracker's answer as IPv4 addresses.
to_object(of, len) ==
  LET f == ChunkFamily(of, len)
  IN  IF f = "none" THEN Refusal
      ELSE Ok([of |-> of, family |-> f, count |-> len \div EntrySize[of][f]])

\* parse_tracker_host on udp://<host><path>: "udp://" is stripped, and what is
\* left is cut as if it were still there.
AnnouncePath == <<"/", "a", "n", "n", "o", "u", "n", "c", "e">>

parse_tracker_host(u) ==
  LET rest == u.host \o u.path
  IN  CASE u.scheme = "http" -> Ok(rest)
        [] u.scheme = "udp" /\ IsPrefix(AnnouncePath, u.path) ->
             Ok(SubSeq(rest, 7, Len(u.host) + 6))
        [] u.scheme = "udp" /\ ~IsPrefix(AnnouncePath, u.path) -> Ok(rest)
        [] OTHER -> Refusal

-----------------------------------------------------------------------------
Message(from, type, m) == [from |-> from, type |-> type, fields |-> m]

V(fields) == [f \in fields |-> "v"]

\* The messages the program itself builds: DHTBase::request around a Ping, a
\* GetPeersReq or a FindNodeReq, request_extend_handsake, Metadata::request.
Built ==
  {Message("us", "Ping", V({"id"})), Message("us", "GetPeersReq", V({"id", "info_hash"})),
   Message("us", "FindNodeReq", V({"id", "target"})),
   Message("us", "DHTBase", V({"a", "q", "t", "y"})),
   Message("us", "HandshakeData", V({"m"})),
   Message("us", "Metadata", [msg_type |-> MetadataType["Request"], piece |-> "v"])}

\* What a remote may send: some of the keys, one of them possibly with a value
\* its reader does not expect, and possibly a key the program does not know.
RemoteFields(type) ==
  LET keys   == {ks \in SUBSET (DOMAIN CodecOf[type].reads) : Cardinality(ks) <= Width}
      values(ks) == IF type # "Metadata" THEN {V(ks)} ELSE
        {[k \in ks |-> IF k = "msg_type" THEN n ELSE "v"] : n \in Range(MetadataType)}
  IN  UNION {UNION {{m} \cup {[m EXCEPT ![k] = x] : k \in ks, x \in {"bad", "other"}} :
                      m \in values(ks)} : ks \in keys}

Sorted(m) == SetToSortSeq(DOMAIN m, LAMBDA x, y : Rank(x) < Rank(y))

Dictionary(m) == LET ks == Sorted(m) IN [i \in 1..Len(ks) |-> <<ks[i], m[ks[i]]>>]

Readers == {t \in DOMAIN CodecOf : CodecOf[t].reads # <<>>}

CodInit ==
  /\ pairs = Nothing /\ got = Nothing
  /\ \/ msg \in Built
     \/ \E t \in Readers : \E m \in RemoteFields(t) : msg = Message("remote", t, m)
     \/ \E l \in Lists : msg = Message("remote", "list", l)
     \/ \E u \in Announces : msg = Message("us", "announce", u)

\* The program encodes a message: to_bencode().
Say ==
  /\ msg.from = "us" /\ msg.type # "announce" /\ pairs = Nothing
  /\ pairs' = EncodeFields(msg.type, msg.fields)
  /\ UNCHANGED <<msg, got>>

\* A remote's dictionary comes in: its keys in order or not, and one unknown.
RemoteSays ==
  /\ msg.from = "remote" /\ msg.type # "list" /\ pairs = Nothing /\ msg.fields # <<>>
  /\ LET ps == Dictionary(msg.fields)
     IN  pairs' \in {Ok(ps), Ok(Reverse(ps)), Ok(Append(ps, <<"extra", "v">>))}
  /\ UNCHANGED <<msg, got>>

\* from_bencode of what is on the wire.
Hear ==
  /\ pairs \notin {Nothing, Refusal} /\ got = Nothing /\ msg.type \in Readers
  /\ got' = DecodeFields(msg.type, Value(pairs))
  /\ UNCHANGED <<msg, pairs>>

HearList ==
  /\ msg.type = "list" /\ got = Nothing
  /\ got' = to_object(msg.fields.of, msg.fields.count * EntrySize[msg.fields.of][msg.fields.family])
  /\ UNCHANGED <<msg, pairs>>

Instance ==
  /\ msg.type = "announce" /\ got = Nothing
  /\ got' = parse_tracker_host(msg.fields)
  /\ UNCHANGED <<msg, pairs>>

CodNext == Say \/ RemoteSays \/ Hear \/ HearList \/ Instance

-----------------------------------------------------------------------------
CodTypeOK ==
  /\ msg.from \in {"us", "remote"}
  /\ msg.type \in DOMAIN CodecOf \cup {"list", "announce"}
  /\ pairs \in {Nothing, Refusal} \/ \A i \in 1..Len(Value(pairs)) : Value(pairs)[i][1] \in Range(KeyOrder)

\* The unwraps around the codecs never fail: a message the program builds is
\* one its encoder accepts, with its keys in order (`to_bencode().unwrap()` in
\* dht.rs), and reads back as it was; a metadata data message that is accepted
\* says how long the metadata is (`total_size.unwrap()` in default_servant.rs).  A
\* compact list is read as the entries it was made of, although the receiver tells
\* the family from the length alone (to_object in bendy_ext.rs and entity.rs).
CodecsAgree ==
  /\ msg.from = "us" => pairs # Refusal
  /\ msg.from = "us" /\ msg.type \in Readers /\ got # Nothing => got = Ok(msg.fields)
  /\ msg.type = "Metadata" /\ got \notin {Nothing, Refusal} =>
       (Value(got)["msg_type"] = MetadataType["Data"] => "total_size" \in DOMAIN Value(got))
  /\ msg.type = "list" /\ got # Nothing => got = Ok(msg.fields)

\* A UDP tracker is looked for at the host its announce address names
\* (tracker.rs, parse_tracker_host).
TrackerReached ==
  msg.type = "announce" /\ got # Nothing /\ msg.fields.scheme = "udp" =>
    got = Ok(msg.fields.host)
=============================================================================
