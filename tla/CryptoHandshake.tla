-------------------------- MODULE CryptoHandshake --------------------------
(***************************************************************************)
(* bt/pe_crypto.rs init_handshake over bt/socket.rs, followed by           *)
(* base_peer.rs protocol_handshake: the steps of side A against a side B   *)
(* that keeps to the protocol, on a stream that arrives in pieces.  An     *)
(* encrypted byte carries the position of the keystream it was made with   *)
(* and reads as junk at any other.  Lengths are scaled; what the code does *)
(* with them depends on their order, which ASSUME states.                  *)
(***************************************************************************)
EXTENDS Integers, Sequences, FiniteSetsExt

CONSTANTS
    VcLen,        \* length of VC
    OptionLen,    \* CRYPTO_OPTION_LEN + PAD_LEN_UNIT
    PadMax,       \* PAD_MAX_LEN
    VcMaxOffset,  \* VC_MAX_OFFSET
    HandshakeLen  \* bytes of the BitTorrent handshake

ASSUME CryptoAssumption ==
    /\ OptionLen = 2 /\ VcLen \in Nat /\ VcLen > OptionLen
    /\ PadMax \in Nat /\ VcMaxOffset > PadMax /\ HandshakeLen \in Nat \ {0}

VARIABLES
    flow,     \* bytes from B under way
    received,    \* bytes from B in the socket buffer of A
    a,        \* side A
    b,        \* side B: what it has sent, and the choices it made
    read      \* payload that A decrypted

cryVars == <<flow, received, a, b, read>>

Clear(v) == [k |-> 0, v |-> v]
Sealed(from, vs) == [i \in DOMAIN vs |-> [k |-> from + i, v |-> vs[i]]]
Times(n, v) == [i \in 1 .. n |-> v]

\* Decryption with the keystream from position `from` on.
Open(from, bytes) ==
    [i \in DOMAIN bytes |-> IF bytes[i].k = from + i THEN bytes[i].v ELSE "junk"]

CryInit ==
    /\ flow = <<>> /\ received = <<>> /\ read = <<>>
    /\ a = [pc |-> "sendkey", recv |-> <<>>, pos |-> 0, ks |-> 0, select |-> "none"]
    /\ \E pad_b \in 0 .. PadMax, pad_d \in 0 .. PadMax, select \in {"rc4", "plain"} :
          b = [pc |-> "start", pad_b |-> pad_b, pad_d |-> pad_d, select |-> select, ks |-> 0]

-----------------------------------------------------------------------------
(* Side B and the network *)

\* Step 2, once it has Ya.
SendYb ==
    /\ b.pc = "start" /\ a.pc # "sendkey"
    /\ flow' = flow \o <<Clear("Yb")>> \o Times(b.pad_b, Clear("pad"))
    /\ b' = [b EXCEPT !.pc = "keyed"]
    /\ UNCHANGED <<received, a, read>>

\* Step 4, once it has the packet of step 3; A may have read padding meanwhile.
SendVc ==
    LET vs == Times(VcLen, "vc") \o <<b.select, b.pad_d>> \o Times(b.pad_d, "padd")
    IN  /\ b.pc = "keyed" /\ a.pc \in {"readbuf", "vc"}
        /\ flow' = flow \o Sealed(0, vs)
        /\ b' = [b EXCEPT !.pc = "agreed", !.ks = Len(vs)]
        /\ UNCHANGED <<received, a, read>>

\* Its BitTorrent handshake and a message, once it has the handshake of A.
SendPayload ==
    LET vs == Times(HandshakeLen + 1, "pay")
    IN  /\ b.pc = "agreed" /\ a.pc = "readhs"
        /\ flow' = flow \o IF b.select = "rc4" THEN Sealed(b.ks, vs)
                           ELSE Times(Len(vs), Clear("pay"))
        /\ b' = [b EXCEPT !.pc = "talking"]
        /\ UNCHANGED <<received, a, read>>

Deliver ==
    /\ flow # <<>>
    /\ \E n \in 1 .. Len(flow) :
          /\ received' = received \o SubSeq(flow, 1, n)
          /\ flow' = SubSeq(flow, n + 1, Len(flow))
    /\ UNCHANGED <<a, b, read>>

-----------------------------------------------------------------------------
(* Side A *)

SendKey ==
    /\ a.pc = "sendkey"
    /\ a' = [a EXCEPT !.pc = "readkey"]
    /\ UNCHANGED <<flow, received, b, read>>

\* read_extra_with_timeout: the key, and then whatever is in the socket is dropped.
ReadKey ==
    /\ a.pc = "readkey" /\ received # <<>>
    /\ received' = <<>>
    /\ a' = [a EXCEPT !.pc = IF Len(received) - 1 > PadMax THEN "failed" ELSE "packet"]
    /\ UNCHANGED <<flow, b, read>>

\* encrypt_a2b_handshake_packet is written.
SendPacket ==
    /\ a.pc = "packet"
    /\ a' = [a EXCEPT !.pc = "readbuf"]
    /\ UNCHANGED <<flow, received, b, read>>

\* read_buf_with_timeout: what one read gives.
ReadBuf ==
    /\ a.pc = "readbuf" /\ received # <<>>
    /\ a' = [a EXCEPT !.pc = "vc", !.recv = received]
    /\ received' = <<>>
    /\ UNCHANGED <<flow, b, read>>

\* recv filled up to n bytes, waiting for them with read_exact.
Missing(n) == Max({0, n - Len(a.recv)})
Filled(n) == a.recv \o SubSeq(received, 1, Missing(n))
Remaining(n) == SubSeq(received, Missing(n) + 1, Len(received))
Cut(bytes, from, n) == SubSeq(bytes, from + 1, from + n)

\* The loop of decrypt_b2a_handshake_packet: VcLen bytes at a time, decrypted as they
\* are passed.
SeekVc ==
    LET end == a.pos + VcLen
        hit == Open(a.ks, Cut(Filled(end), a.pos, VcLen)) = Times(VcLen, "vc")
    IN  /\ a.pc = "vc" /\ Len(received) >= Missing(end)
        /\ received' = Remaining(end)
        /\ a' = [a EXCEPT !.recv = Filled(end), !.ks = @ + VcLen, !.pos = end,
                          !.pc = IF hit THEN "option"
                                 ELSE IF end >= VcMaxOffset THEN "novc" ELSE "vc"]
        /\ UNCHANGED <<flow, b, read>>

\* crypto_select and len(padD).  The length that is still to be read is computed
\* without pos: CRYPTO_OPTION_LEN + PAD_LEN_UNIT - recv.len() is below zero.
ReadOption ==
    LET end == a.pos + OptionLen
        opt == Open(a.ks, Cut(a.recv, a.pos, OptionLen))
    IN  /\ a.pc = "option"
        /\ a' = IF Len(a.recv) < end THEN [a EXCEPT !.pc = "panic"]
                ELSE IF opt[1] \notin {"rc4", "plain"} THEN [a EXCEPT !.pc = "failed"]
                ELSE [a EXCEPT !.pc = "pad", !.pos = end, !.ks = @ + OptionLen,
                               !.select = opt[1]]
        /\ UNCHANGED <<flow, received, b, read>>

\* padD is waited for and decrypted, and with Rc4 so is what came after it.
PadLen == Open(a.ks - OptionLen, Cut(a.recv, a.pos - OptionLen, OptionLen))[2]
\* Mutant: padD is skipped without being decrypted.
PadUnread(end, all) == a.pos
AfterPad(end, all) == end + IF a.select = "rc4" THEN Len(all) - end ELSE 0
ReadPad ==
    LET end == a.pos + PadLen
    IN  /\ a.pc = "pad" /\ Len(received) >= Missing(end)
        /\ received' = Remaining(end)
        /\ a' = [a EXCEPT !.pc = "readhs", !.recv = Filled(end), !.pos = end,
                          !.ks = @ + AfterPad(end, Filled(end)) - a.pos]
        /\ UNCHANGED <<flow, b, read>>

\* TcpStreamWrapper::read and OwnedReadHalfExt::poll_read
Decrypt(bytes) ==
    IF a.select = "rc4" THEN Open(a.ks, bytes) ELSE [i \in DOMAIN bytes |-> bytes[i].v]

\* protocol_handshake: one read, which must give the whole handshake.
ReadHandshake ==
    LET n == Min({Len(received), HandshakeLen})
    IN  /\ a.pc = "readhs" /\ received # <<>>
        /\ received' = Cut(received, n, Len(received) - n)
        /\ read' = Decrypt(Cut(received, 0, n))
        /\ a' = [a EXCEPT !.ks = @ + n, !.pc = IF n < HandshakeLen THEN "short" ELSE "open"]
        /\ UNCHANGED <<flow, b>>

\* The listener reads on.
ReadStream ==
    /\ a.pc = "open" /\ received # <<>>
    /\ read' = read \o Decrypt(received)
    /\ a' = [a EXCEPT !.ks = @ + Len(received)]
    /\ received' = <<>>
    /\ UNCHANGED <<flow, b>>

\* The 30 seconds of a read have passed.
ReadTimeout ==
    /\ a.pc \in {"readkey", "readbuf", "vc", "pad"}
    /\ a' = [a EXCEPT !.pc = "failed"]
    /\ UNCHANGED <<flow, received, b, read>>

CryNext ==
    \/ SendYb \/ SendVc \/ SendPayload \/ Deliver
    \/ SendKey \/ ReadKey \/ SendPacket \/ ReadBuf \/ SeekVc \/ ReadOption \/ ReadPad
    \/ ReadHandshake \/ ReadStream \/ ReadTimeout

-----------------------------------------------------------------------------
(* Properties *)

CryTypeOK == a.pos <= Len(a.recv) /\ a.ks \in Nat /\ a.select \in {"none", "rc4", "plain"}

\* The keystreams of the two sides stay in step through VC, padD and every way of
\* cutting the stream: what A reads after the handshake is what B wrote.
KeystreamAligned == \A i \in DOMAIN read : read[i] = "pay"

\* pe_crypto.rs:85: VC is found if it comes within the first VC_MAX_OFFSET bytes.  B
\* sends no more than PadMax bytes before it.
VcFound == a.pc # "novc"

\* No answer of a well-behaved B makes the handshake panic.
NoPanic == a.pc # "panic"
=============================================================================
