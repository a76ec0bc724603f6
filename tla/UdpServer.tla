------------------------------ MODULE UdpServer ------------------------------
(***************************************************************************)
(* core/udp_server.rs and its callers ping and get_peers of bt/dht.rs.     *)
(* Callers run on several threads beside the receive loop; every operation *)
(* on one of the two concurrent maps is a step.  A datagram answers the    *)
(* request of a call, late or more than once, or is a query of a stranger  *)
(* that happens to bear the same transaction id.                           *)
(***************************************************************************)
EXTENDS Integers, FiniteSets, Functions

CONSTANTS
    Calls,      \* calls of ping and get_peers, each made once
    TidSpace,   \* number of transaction ids, 2^16 in the source
    RecvLimit   \* datagrams that arrive

ASSUME TidSpaceAssumption == TidSpace \in Nat \ {0} /\ RecvLimit \in Nat \ {0}

Tids == 0 .. TidSpace - 1
NoTid == -1
Stranger == "stranger"
NoWaker == "no waker"
\* of: the call whose request the datagram answers; n: its place of arrival.
Datagrams == [tid : Tids, of : Calls \cup {Stranger}, n : 1 .. RecvLimit]
NoDatagram == [tid |-> NoTid, of |-> Stranger, n |-> 0]

VARIABLES
    cycle_id,      \* AtomicU16
    inflight,      \* tid -> waker or NoWaker
    result_store,  \* tid -> datagram
    call,          \* control state of every call
    sent,          \* calls whose request went out
    receiver,      \* datagram between the two maps in parse_recv_data
    arrived        \* number of datagrams so far

udpVars == <<cycle_id, inflight, result_store, call, sent, receiver, arrived>>

UdpInit ==
    /\ cycle_id = 0
    /\ inflight = <<>>
    /\ result_store = <<>>
    /\ call = [c \in Calls |-> [pc |-> "new", tid |-> NoTid, got |-> NoDatagram,
                                woken |-> FALSE, late |-> FALSE]]
    /\ sent = {}
    /\ receiver = [d |-> NoDatagram, waker |-> NoWaker]
    /\ arrived = 0

Bind(f, k, v) == [x \in DOMAIN f \cup {k} |-> IF x = k THEN v ELSE f[x]]
Unbind(f, k) == Restrict(f, DOMAIN f \ {k})
Step(c, from, to) == call[c].pc = from /\ call' = [call EXCEPT ![c].pc = to]
\* The call is over; what it was waiting for is forgotten.
Leave(c, from, to) ==
    /\ call[c].pc = from
    /\ call' = [call EXCEPT ![c].pc = to, ![c].late = FALSE, ![c].woken = FALSE]

-----------------------------------------------------------------------------
(* A call *)

\* tran_id, then request up to contains_key: an id that is in flight is refused.
\* Nothing shared lies between the draw and the check.
TranId(c) ==
    /\ call[c].pc = "new"
    /\ call' = [call EXCEPT ![c].tid = cycle_id,
                            ![c].pc = IF cycle_id \in DOMAIN inflight THEN "failed" ELSE "checked"]
    /\ cycle_id' = (cycle_id + 1) % TidSpace
    /\ UNCHANGED <<inflight, result_store, sent, receiver, arrived>>

\* A call that is not followed here draws an id and is done with it.
OtherCall ==
    /\ cycle_id' = (cycle_id + 1) % TidSpace
    /\ UNCHANGED <<inflight, result_store, call, sent, receiver, arrived>>

InsertTid(c) ==
    /\ Step(c, "checked", "sending")
    /\ inflight' = Bind(inflight, call[c].tid, NoWaker)
    /\ UNCHANGED <<cycle_id, result_store, sent, receiver, arrived>>

SendTo(c) ==
    /\ Step(c, "sending", "ready")
    /\ sent' = sent \cup {c}
    /\ UNCHANGED <<cycle_id, inflight, result_store, receiver, arrived>>

SendFails(c) ==
    /\ Step(c, "sending", "failed")
    /\ inflight' = Unbind(inflight, call[c].tid)
    /\ UNCHANGED <<cycle_id, result_store, sent, receiver, arrived>>

\* The datagrams a poll may take: the one stored under its id.
Stored(t) == {result_store[u] : u \in DOMAIN result_store \cap {t}}

\* Mutant: the result is read and stays in the map.
Peeked(t) == result_store
TakeOut(t) == Unbind(result_store, t)

\* Drop for Response.
DropResponse(c) ==
    /\ inflight' = Unbind(inflight, call[c].tid)
    /\ result_store' = Unbind(result_store, call[c].tid)

\* Response::poll, first half: take the result if it is there.  A ready future is
\* dropped with its result.
PollTake(c) ==
    /\ call[c].pc = "ready" \/ (call[c].pc = "pending" /\ call[c].woken)
    /\ IF Stored(call[c].tid) = {}
       THEN /\ call' = [call EXCEPT ![c].pc = "polling", ![c].woken = FALSE]
            /\ UNCHANGED result_store
       ELSE \E d \in Stored(call[c].tid) :
            /\ call' = [call EXCEPT ![c].pc = "taken", ![c].got = d, ![c].woken = FALSE]
            /\ result_store' = TakeOut(d.tid)
    /\ UNCHANGED <<cycle_id, inflight, sent, receiver, arrived>>

\* Second half: leave the waker.  timeout polls the future before it looks at the
\* clock, and gives up if the time is over.
PollRegister(c) ==
    /\ Step(c, "polling", IF call[c].late THEN "late" ELSE "pending")
    /\ inflight' = Bind(inflight, call[c].tid, c)
    /\ UNCHANGED <<cycle_id, result_store, sent, receiver, arrived>>

\* The 10 seconds of TIMEOUT are over: the task is woken, and left asleep in the
\* mutant.
TimerAsleep(c) ==
    /\ call[c].pc \in {"ready", "polling", "pending"} /\ ~call[c].late
    /\ call' = [call EXCEPT ![c].late = TRUE]
    /\ UNCHANGED <<cycle_id, inflight, result_store, sent, receiver, arrived>>
TimerFires(c) ==
    /\ call[c].pc \in {"ready", "polling", "pending"} /\ ~call[c].late
    /\ call' = [call EXCEPT ![c].late = TRUE, ![c].woken = call[c].pc # "ready"]
    /\ UNCHANGED <<cycle_id, inflight, result_store, sent, receiver, arrived>>

Conclude(c) ==
    /\ Leave(c, "taken", "answered") \/ Leave(c, "late", "timeout")
    /\ DropResponse(c)
    /\ UNCHANGED <<cycle_id, sent, receiver, arrived>>

\* The task of the caller is aborted at an await: in send_to, where no Response
\* exists yet to clean up, or while it waits for one.
Abort(c) ==
    /\ \/ Step(c, "sending", "aborted") /\ UNCHANGED <<inflight, result_store>>
       \/ Leave(c, "pending", "aborted") /\ DropResponse(c)
    /\ UNCHANGED <<cycle_id, sent, receiver, arrived>>

-----------------------------------------------------------------------------
(* The receive loop *)

\* parse_recv_data up to the removal from inflight; an unknown id is ignored.
RecvTake(t, o) ==
    /\ arrived < RecvLimit
    /\ receiver.d = NoDatagram
    /\ o = Stranger \/ (o \in sent /\ call[o].tid = t)
    /\ t \in DOMAIN inflight
    /\ arrived' = arrived + 1
    /\ receiver' = [d |-> [tid |-> t, of |-> o, n |-> arrived'], waker |-> inflight[t]]
    /\ inflight' = Unbind(inflight, t)
    /\ UNCHANGED <<cycle_id, result_store, call, sent>>

\* The datagram is stored under its id; in the mutant only for a caller that has
\* left its waker.
StoreForWaker == IF receiver.waker = NoWaker THEN result_store
                 ELSE Bind(result_store, receiver.d.tid, receiver.d)
Store == Bind(result_store, receiver.d.tid, receiver.d)

\* The datagram is stored, then the waker it found is woken.
RecvStore ==
    /\ receiver.d # NoDatagram
    /\ result_store' = Store
    /\ call' = [c \in Calls |-> IF c = receiver.waker /\ call[c].pc \in {"polling", "pending"}
                                THEN [call[c] EXCEPT !.woken = TRUE] ELSE call[c]]
    /\ receiver' = [d |-> NoDatagram, waker |-> NoWaker]
    /\ UNCHANGED <<cycle_id, inflight, sent, arrived>>

CallStep(c) ==
    \/ TranId(c) \/ InsertTid(c) \/ SendTo(c) \/ SendFails(c)
    \/ PollTake(c) \/ PollRegister(c) \/ Conclude(c)

UdpNext ==
    \/ \E c \in Calls : CallStep(c) \/ TimerFires(c) \/ Abort(c)
    \/ \E t \in Tids, o \in Calls \cup {Stranger} : RecvTake(t, o)
    \/ RecvStore
    \/ OtherCall

UdpSpec == UdpInit /\ [][UdpNext]_udpVars

-----------------------------------------------------------------------------
(* Properties *)

UdpTypeOK ==
    /\ cycle_id \in Tids /\ arrived \in 0 .. RecvLimit /\ sent \subseteq Calls
    /\ DOMAIN inflight \subseteq Tids /\ Range(inflight) \subseteq Calls \cup {NoWaker}
    /\ \A t \in DOMAIN result_store : t \in Tids /\ result_store[t] \in Datagrams

Live(c) == call[c].pc \in {"ready", "polling", "pending"}
Ended(c) == call[c].pc \in {"answered", "timeout", "failed", "aborted"}
\* Another call was given the id of c.
Reused(c) == \E o \in Calls \ {c} : call[o].tid = call[c].tid

\* A call that waits can be found by the receive loop, is about to be given what
\* was received, or sees it at its next poll: Response::poll and parse_recv_data
\* never lose the request between the two maps.
Reachable ==
    \A c \in Calls : Live(c) /\ call[c].pc # "polling" /\ ~Reused(c) =>
        \/ call[c].tid \in DOMAIN inflight
        \/ receiver.d.tid = call[c].tid
        \/ call[c].tid \in DOMAIN result_store

\* Every call of ping and get_peers returns, whatever the network does.
CallEnds == \A c \in Calls : <>Ended(c)

\* The module doc: when data with the transaction id arrives the caller is
\* notified through the future.
Notified ==
    \A c \in Calls : call[c].pc = "pending" /\ call[c].tid \in DOMAIN result_store =>
        call[c].woken

\* The service as the callers see it.
Service == INSTANCE AnswerService WITH
    open <- {c \in Calls : call[c].pc \in {"sending", "ready", "polling", "pending", "late"}},
    tid_of <- [c \in Calls |-> call[c].tid],
    box <- {result_store[t] : t \in DOMAIN result_store},
    given <- [c \in Calls |-> {call[c].got} \ {NoDatagram}]

\* Response futures implement the service: one datagram at most for a call, one
\* call at most for a datagram, never after the call has ended.
Answers == Service!AbsInit /\ [][Service!AbsNext]_(Service!absVars)
=============================================================================
