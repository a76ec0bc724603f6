------------------------------ MODULE Framing ------------------------------
(***************************************************************************)
(* Messages cut out of a byte stream that arrives in pieces of any size:   *)
(* doro-util's ReaderHandle and the futures built on it, Accept,           *)
(* HandshakeParse and RequestParse for a remote control client, PeerResp   *)
(* for a peer.  A byte is a small number.  Multi-byte fields of the        *)
(* control protocol are one byte here; the length of a peer message keeps  *)
(* two, because its first byte matters when the stream is out of step.     *)
(***************************************************************************)
EXTENDS Integers, Sequences, SequencesExt

CONSTANTS
    Streams   \* the conversations: records of kind and the messages sent

VARIABLES
    stream,   \* the conversation under way
    wire,     \* bytes sent that have not arrived
    socket,   \* bytes that arrived and are not read
    future,   \* which future reads, its state, and its ReaderHandle
    out       \* what the futures returned, in order

frmVars == <<stream, wire, socket, future, out>>

KnownTypes == {0, 1, 2}         \* MsgType::try_from
RemoteControl == <<3, 3>>       \* REMOTE_CONTROL_PROTOCOL
BitTorrent == <<3>>             \* BIT_TORRENT_PROTOCOL
PayloadLen(p) == IF p = BitTorrent THEN 2 ELSE 0

\* How the other side writes its messages.
Frame(m) ==
    CASE m.kind = "hello"   -> <<Len(m.protocol)>> \o m.protocol \o m.payload
      [] m.kind = "auth"    -> <<Len(m.user)>> \o m.user \o <<Len(m.pass)>> \o m.pass
      [] m.kind = "request" -> <<m.code, m.tran, Len(m.body)>> \o m.body
      [] m.kind = "peer"    -> <<0, Len(m.body) + 1, m.type>> \o m.body
      [] m.kind = "keepalive" -> <<0, 0>>

Written(msgs) == FlattenSeq([i \in DOMAIN msgs |-> Frame(msgs[i])])

\* A future that begins to read n bytes.
Reading(parser, state, n, got) ==
    [parser |-> parser, state |-> state, cap |-> n, buf |-> <<>>, got |-> got]
First(kind) ==
    IF kind = "peer" THEN Reading("PeerResp", "Head", 3, <<>>)
                     ELSE Reading("Accept", "ProtocolLen", 1, <<>>)
Closed == Reading("closed", "Finished", 0, <<>>)

FrmInit ==
    /\ stream \in Streams
    /\ wire = Written(stream.msgs)
    /\ socket = <<>>
    /\ future = First(stream.kind)
    /\ out = <<>>

-----------------------------------------------------------------------------
(* The futures: what poll does with a full buffer.  A result is the future  *)
(* that reads on and the message it returned, if any.                       *)

On(f) == [next |-> f, msgs |-> <<>>]
Emit(f, m) == [next |-> f, msgs |-> <<m>>]

NextRequest == Reading("RequestParse", "Head", 3, <<>>)

PollAccept(f, b) ==
    CASE f.state = "ProtocolLen" -> On(Reading("Accept", "Protocol", b[1], <<>>))
      [] f.state = "Protocol" ->
            IF b \in {BitTorrent, RemoteControl}
            THEN On(Reading("Accept", "ParseProtocol", PayloadLen(b), b))
            ELSE On(Closed)
      [] f.state = "ParseProtocol" ->
            Emit(IF f.got = RemoteControl
                 THEN Reading("HandshakeParse", "UsernameLen", 1, <<>>) ELSE Closed,
                 [kind |-> "hello", protocol |-> f.got, payload |-> b])

PollHandshake(f, b) ==
    CASE f.state = "UsernameLen" -> On(Reading("HandshakeParse", "Username", b[1], <<>>))
      [] f.state = "Username" -> On(Reading("HandshakeParse", "PasswordLen", 1, b))
      [] f.state = "PasswordLen" -> On(Reading("HandshakeParse", "Password", b[1], f.got))
      [] f.state = "Password" -> Emit(NextRequest, [kind |-> "auth", user |-> f.got, pass |-> b])

Requested(h, body) == [kind |-> "request", code |-> h[1], tran |-> h[2], body |-> body]
PollRequest(f, b) ==
    CASE f.state = "Head" ->
            IF b[3] = 0 THEN Emit(NextRequest, Requested(b, <<>>))
            ELSE On(Reading("RequestParse", "Content", b[3], b))
      [] f.state = "Content" -> Emit(NextRequest, Requested(f.got, b))

NextPeerMsg == Reading("PeerResp", "Head", 3, <<>>)
Normal(type, body) == [kind |-> "peer", type |-> type, body |-> body]
\* Mutant: the length counts the byte of the type.
WholeLength(length) == length
ContentLen(length) == length - 1
PollPeer(f, b) ==
    LET length == 4 * b[1] + b[2]
    IN  CASE f.state = "Head" ->
               \* buf.len() < 5 is a heartbeat: the buffer that arrives here is full.
               IF Len(b) < 3 THEN Emit(NextPeerMsg, [kind |-> "keepalive"])
               ELSE IF b[3] \notin KnownTypes THEN On(Closed)
               ELSE IF length > 1
               THEN On(Reading("PeerResp", "Content", ContentLen(length), <<b[3]>>))
               ELSE Emit(NextPeerMsg, Normal(b[3], <<>>))
          [] f.state = "Content" -> Emit(NextPeerMsg, Normal(f.got[1], b))

PollFuture(f, b) ==
    CASE f.parser = "Accept" -> PollAccept(f, b)
      [] f.parser = "HandshakeParse" -> PollHandshake(f, b)
      [] f.parser = "RequestParse" -> PollRequest(f, b)
      [] f.parser = "PeerResp" -> PollPeer(f, b)

-----------------------------------------------------------------------------
(* Actions *)

\* Some bytes arrive.
Arrive ==
    /\ wire # <<>>
    /\ \E n \in 1 .. Len(wire) :
          /\ socket' = socket \o SubSeq(wire, 1, n)
          /\ wire' = SubSeq(wire, n + 1, Len(wire))
    /\ UNCHANGED <<stream, future, out>>

\* ReaderHandle::poll: nothing to read for an empty buffer, else as much as there is
\* and the buffer has room for.  A full buffer goes to the future.
Take(f) == IF Len(socket) < f.cap - Len(f.buf) THEN Len(socket) ELSE f.cap - Len(f.buf)
Poll ==
    /\ future.parser # "closed"
    /\ future.cap = 0 \/ socket # <<>>
    /\ LET n == Take(future)
           b == future.buf \o SubSeq(socket, 1, n)
           r == PollFuture(future, b)
       IN  /\ socket' = SubSeq(socket, n + 1, Len(socket))
           /\ IF Len(b) < future.cap
              THEN future' = [future EXCEPT !.buf = b] /\ UNCHANGED out
              ELSE future' = r.next /\ out' = out \o r.msgs
    /\ UNCHANGED <<stream, wire>>

FrmNext == Arrive \/ Poll

-----------------------------------------------------------------------------
(* Properties *)

FrmTypeOK == Len(future.buf) <= future.cap /\ Len(out) <= Len(Written(stream.msgs))

\* The messages before the first keep-alive are the ones the futures can tell apart.
FirstKeepAlive(msgs) == SelectInSeq(msgs, LAMBDA m : m.kind = "keepalive")
Framed(msgs) == IF FirstKeepAlive(msgs) = 0 THEN msgs ELSE SubSeq(msgs, 1, FirstKeepAlive(msgs) - 1)

\* However the stream is cut, the futures return the messages that were sent, in
\* their order, fields of length zero included: nothing of one message is read as
\* a part of another, and nothing is held back once all bytes were read.
MessagesIntact ==
    LET sent == Framed(stream.msgs)
    IN  /\ IF Len(out) <= Len(sent) THEN IsPrefix(out, sent) ELSE IsPrefix(sent, out)
        /\ wire = <<>> /\ socket = <<>> /\ future.cap # 0 => Len(out) >= Len(sent)

\* peer_resp.rs:63: a heartbeat is told from a message, and the messages after it
\* are read as they were sent.
HeartbeatRead == IsPrefix(out, stream.msgs)
=============================================================================
