----------------------------- MODULE ServerProofs -----------------------------
(***************************************************************************)
(* The servers and the DHT, for every number of tasks, permits, calls,     *)
(* transaction ids, datagrams, connections and requests.  DhtScan never    *)
(* loses a permit and never waits for a result that cannot come; no        *)
(* request gets lost between the two maps of UdpServer, and UdpServer      *)
(* implements AnswerService; RemoteControl knows every live connection,    *)
(* answers a request at most once and leaves no connection behind when it  *)
(* stops.                                                                  *)
(***************************************************************************)
EXTENDS UdpServer, RemoteControl, DhtScan, TLAPS

-----------------------------------------------------------------------------
(* UdpServer: what the variables are *)

PC == {"new", "checked", "sending", "ready", "polling", "pending", "late", "taken",
       "answered", "timeout", "failed", "aborted"}
CallType == [pc : PC, tid : Tids \cup {NoTid}, got : Datagrams \cup {NoDatagram},
             woken : BOOLEAN, late : BOOLEAN]

\* The two maps.  A datagram is stored under its own id.
InflightOK(f) == DOMAIN f \subseteq Tids /\ \A t \in DOMAIN f : f[t] \in Calls \cup {NoWaker}
StoreOK(f) ==
    DOMAIN f \subseteq Tids /\ \A t \in DOMAIN f : f[t] \in Datagrams /\ f[t].tid = t

\* What the variables are.
Types ==
    /\ cycle_id \in Tids /\ arrived \in 0 .. RecvLimit /\ sent \subseteq Calls
    /\ InflightOK(inflight) /\ StoreOK(result_store)
    /\ call \in [Calls -> CallType]
    /\ receiver.d \in Datagrams \cup {NoDatagram} /\ receiver.waker \in Calls \cup {NoWaker}

\* The datagram the receive loop holds arrived after every stored one, so it is none
\* of them.
Filed ==
    /\ \A t \in DOMAIN result_store : result_store[t].n <= arrived
    /\ receiver.d # NoDatagram =>
           /\ receiver.d.n = arrived
           /\ \A t \in DOMAIN result_store : result_store[t].n < arrived

\* A call has an id from its first step on, and a datagram only once it was taken.
Begun ==
    \A c \in Calls :
        /\ call[c].pc = "new" <=> call[c].tid = NoTid
        /\ call[c].pc \in {"new", "checked", "sending", "ready", "polling", "pending", "late"}
              => call[c].got = NoDatagram

\* The request of c is in one of the three places in which its answer finds it.
Somewhere(c) ==
    \/ call[c].tid \in DOMAIN inflight
    \/ receiver.d.tid = call[c].tid
    \/ call[c].tid \in DOMAIN result_store

\* Reachable, from the moment the id is inserted.
Waits ==
    \A c \in Calls : call[c].pc \in {"sending", "ready", "pending"} /\ ~Reused(c) => Somewhere(c)

UdpInv == Types /\ Filed /\ Begun /\ Waits

-----------------------------------------------------------------------------
(* The two maps *)

LEMMA BindFacts ==
    ASSUME NEW f, NEW k, NEW v
    PROVE  /\ DOMAIN Bind(f, k, v) = DOMAIN f \cup {k}
           /\ Bind(f, k, v)[k] = v
           /\ \A x \in DOMAIN f : x # k => Bind(f, k, v)[x] = f[x]
BY Zenon DEF Bind

LEMMA UnbindFacts ==
    ASSUME NEW f, NEW k
    PROVE  /\ DOMAIN Unbind(f, k) = DOMAIN f \ {k}
           /\ \A x \in DOMAIN f : x # k => Unbind(f, k)[x] = f[x]
BY Zenon DEF Unbind, Restrict

LEMMA BindInflight ==
    ASSUME NEW f, InflightOK(f), NEW t \in Tids, NEW w \in Calls \cup {NoWaker}
    PROVE  InflightOK(Bind(f, t, w))
<1>1. \A x \in DOMAIN f \cup {t} : Bind(f, t, w)[x] \in Calls \cup {NoWaker}
  BY Zenon DEF Bind, InflightOK
<1>2. DOMAIN Bind(f, t, w) = DOMAIN f \cup {t}
  BY Zenon DEF Bind
<1> QED BY <1>1, <1>2, Zenon DEF InflightOK

LEMMA UnbindInflight ==
    ASSUME NEW f, InflightOK(f), NEW t
    PROVE  InflightOK(Unbind(f, t))
BY UnbindFacts, ZenonT(40) DEF InflightOK

LEMMA BindStore ==
    ASSUME NEW f, StoreOK(f), NEW d \in Datagrams
    PROVE  StoreOK(Bind(f, d.tid, d))
<1>1. d.tid \in Tids
  BY Zenon DEF Datagrams
<1>2. \A x \in DOMAIN f \cup {d.tid} :
          Bind(f, d.tid, d)[x] \in Datagrams /\ Bind(f, d.tid, d)[x].tid = x
  BY Zenon DEF Bind, StoreOK
<1>3. DOMAIN Bind(f, d.tid, d) = DOMAIN f \cup {d.tid}
  BY Zenon DEF Bind
<1> QED BY <1>1, <1>2, <1>3, Zenon DEF StoreOK

LEMMA UnbindStore ==
    ASSUME NEW f, StoreOK(f), NEW t
    PROVE  StoreOK(Unbind(f, t))
<1>1. \A x \in DOMAIN f \ {t} :
          Unbind(f, t)[x] \in Datagrams /\ Unbind(f, t)[x].tid = x
  BY Zenon DEF Unbind, Restrict, StoreOK
<1>2. DOMAIN Unbind(f, t) = DOMAIN f \ {t}
  BY Zenon DEF Unbind, Restrict
<1> QED BY <1>1, <1>2, Zenon DEF StoreOK

\* An id is below TidSpace also after the counter has come round.
LEMMA NextTid ==
    ASSUME cycle_id \in Tids
    PROVE  (cycle_id + 1) % TidSpace \in Tids
BY TidSpaceAssumption DEF Tids

\* What is no id, and what is no datagram.
LEMMA Nothing == NoTid \notin Tids /\ NoDatagram \notin Datagrams /\ NoDatagram.tid = NoTid
BY TidSpaceAssumption DEF NoTid, Tids, NoDatagram, Datagrams

-----------------------------------------------------------------------------
(* The records of the calls *)

\* g is f with r for the call c.
IsUpdate(g, f, c, r) ==
    /\ g \in [Calls -> CallType]
    /\ g[c].pc = r.pc /\ g[c].tid = r.tid /\ g[c].got = r.got
    /\ \A o \in Calls \ {c} : g[o] = f[o]

LEMMA UpdatePc ==
    ASSUME NEW f \in [Calls -> CallType], NEW c \in Calls, NEW p \in PC
    PROVE  IsUpdate([f EXCEPT ![c].pc = p], f, c, [pc |-> p, tid |-> f[c].tid, got |-> f[c].got])
BY ZenonT(30) DEF IsUpdate, CallType

LEMMA UpdateTid ==
    ASSUME NEW f \in [Calls -> CallType], NEW c \in Calls, NEW p \in PC, NEW t \in Tids
    PROVE  IsUpdate([f EXCEPT ![c].tid = t, ![c].pc = p], f, c,
                    [pc |-> p, tid |-> t, got |-> f[c].got])
BY ZenonT(30) DEF IsUpdate, CallType

LEMMA UpdateWoken ==
    ASSUME NEW f \in [Calls -> CallType], NEW c \in Calls, NEW p \in PC, NEW w \in BOOLEAN
    PROVE  IsUpdate([f EXCEPT ![c].pc = p, ![c].woken = w], f, c,
                    [pc |-> p, tid |-> f[c].tid, got |-> f[c].got])
BY ZenonT(60) DEF IsUpdate, CallType

LEMMA UpdateGot ==
    ASSUME NEW f \in [Calls -> CallType], NEW c \in Calls, NEW p \in PC, NEW d \in Datagrams,
           NEW w \in BOOLEAN
    PROVE  IsUpdate([f EXCEPT ![c].pc = p, ![c].got = d, ![c].woken = w], f, c,
                    [pc |-> p, tid |-> f[c].tid, got |-> d])
BY ZenonT(60) DEF IsUpdate, CallType

LEMMA UpdateTimer ==
    ASSUME NEW f \in [Calls -> CallType], NEW c \in Calls, NEW l \in BOOLEAN, NEW w \in BOOLEAN
    PROVE  IsUpdate([f EXCEPT ![c].late = l, ![c].woken = w], f, c, f[c])
BY ZenonT(60) DEF IsUpdate, CallType

LEMMA UpdateLeave ==
    ASSUME NEW f \in [Calls -> CallType], NEW c \in Calls, NEW p \in PC, NEW l \in BOOLEAN,
           NEW w \in BOOLEAN
    PROVE  IsUpdate([f EXCEPT ![c].pc = p, ![c].late = l, ![c].woken = w], f, c,
                    [pc |-> p, tid |-> f[c].tid, got |-> f[c].got])
BY ZenonT(40) DEF IsUpdate, CallType

-----------------------------------------------------------------------------
(* What a step does to the calls *)

LEMMA TranIdCalls ==
    ASSUME Types, NEW c \in Calls, TranId(c)
    PROVE  \E p \in {"failed", "checked"} :
               IsUpdate(call', call, c, [pc |-> p, tid |-> cycle_id, got |-> call[c].got])
<1> DEFINE p == IF cycle_id \in DOMAIN inflight THEN "failed" ELSE "checked"
<1>1. p \in PC /\ p \in {"failed", "checked"}
  BY Zenon DEF PC
<1>2. call' = [call EXCEPT ![c].tid = cycle_id, ![c].pc = p]
  BY Zenon DEF TranId
<1> HIDE DEF p
<1> QED BY <1>1, <1>2, UpdateTid, Zenon DEF Types

LEMMA StepCalls ==
    ASSUME Types, NEW c \in Calls, NEW p \in PC, NEW q \in PC, Step(c, p, q)
    PROVE  IsUpdate(call', call, c, [pc |-> q, tid |-> call[c].tid, got |-> call[c].got])
BY UpdatePc, Zenon DEF Step, Types

LEMMA LeaveCalls ==
    ASSUME Types, NEW c \in Calls, NEW p \in PC, NEW q \in PC, Leave(c, p, q)
    PROVE  IsUpdate(call', call, c, [pc |-> q, tid |-> call[c].tid, got |-> call[c].got])
BY UpdateLeave, Zenon DEF Leave, Types

LEMMA TimerCalls ==
    ASSUME Types, NEW c \in Calls, TimerFires(c)
    PROVE  IsUpdate(call', call, c, call[c])
<1> DEFINE w == call[c].pc # "ready"
<1>1. w \in BOOLEAN
  BY Zenon
<1>2. call' = [call EXCEPT ![c].late = TRUE, ![c].woken = w]
  BY Zenon DEF TimerFires
<1> HIDE DEF w
<1> QED BY <1>1, <1>2, UpdateTimer, Zenon DEF Types

LEMMA MissCalls ==
    ASSUME Types, NEW c \in Calls, call' = [call EXCEPT ![c].pc = "polling", ![c].woken = FALSE]
    PROVE  IsUpdate(call', call, c, [pc |-> "polling", tid |-> call[c].tid, got |-> call[c].got])
<1>1. "polling" \in PC
  BY Zenon DEF PC
<1> QED BY <1>1, UpdateWoken, Zenon DEF Types

LEMMA HitCalls ==
    ASSUME Types, NEW c \in Calls, NEW d \in Datagrams,
           call' = [call EXCEPT ![c].pc = "taken", ![c].got = d, ![c].woken = FALSE]
    PROVE  IsUpdate(call', call, c, [pc |-> "taken", tid |-> call[c].tid, got |-> d])
<1>1. "taken" \in PC
  BY Zenon DEF PC
<1> QED BY <1>1, UpdateGot, Zenon DEF Types

LEMMA StoreCalls ==
    ASSUME Types, RecvStore
    PROVE  /\ call' \in [Calls -> CallType]
           /\ \A c \in Calls : /\ call'[c].pc = call[c].pc /\ call'[c].tid = call[c].tid
                               /\ call'[c].got = call[c].got
<1>1. \A r \in CallType : /\ [r EXCEPT !.woken = TRUE] \in CallType
                          /\ [r EXCEPT !.woken = TRUE].pc = r.pc
                          /\ [r EXCEPT !.woken = TRUE].tid = r.tid
                          /\ [r EXCEPT !.woken = TRUE].got = r.got
  BY ZenonT(40) DEF CallType
<1>2. call \in [Calls -> CallType]
  BY Zenon DEF Types
<1> DEFINE W(r) == [r EXCEPT !.woken = TRUE]
<1>3. call' = [c \in Calls |-> IF c = receiver.waker /\ call[c].pc \in {"polling", "pending"}
                               THEN W(call[c]) ELSE call[c]]
  BY Zenon DEF RecvStore
<1>4. \A r \in CallType : W(r) \in CallType /\ W(r).pc = r.pc /\ W(r).tid = r.tid /\ W(r).got = r.got
  BY <1>1, Zenon
<1> HIDE DEF W
<1> QED BY <1>2, <1>3, <1>4, Zenon

\* The steps of one call from one point of its control to the next.
LEMMA PlainCalls ==
    ASSUME Types, NEW c \in Calls
    PROVE  LET To(p) == IsUpdate(call', call, c,
                                 [pc |-> p, tid |-> call[c].tid, got |-> call[c].got])
           IN  /\ InsertTid(c) => To("sending")
               /\ SendTo(c) => To("ready")
               /\ SendFails(c) => To("failed")
               /\ PollRegister(c) => To("late") \/ To("pending")
               /\ Conclude(c) => To("answered") \/ To("timeout")
               /\ Abort(c) => To("aborted")
<1> DEFINE To(p) == IsUpdate(call', call, c,
                             [pc |-> p, tid |-> call[c].tid, got |-> call[c].got])
<1>1. \A p, q \in PC : Step(c, p, q) => To(q)
  BY StepCalls, Zenon
<1>2. \A p, q \in PC : Leave(c, p, q) => To(q)
  BY LeaveCalls, Zenon
<1> HIDE DEF To
<1>3. InsertTid(c) => To("sending")
  BY <1>1, Zenon DEF InsertTid, PC
<1>4. SendTo(c) => To("ready")
  BY <1>1, Zenon DEF SendTo, PC
<1>5. SendFails(c) => To("failed")
  BY <1>1, Zenon DEF SendFails, PC
<1>6. PollRegister(c) => To("late") \/ To("pending")
  BY <1>1, Zenon DEF PollRegister, PC
<1>7. Conclude(c) => To("answered") \/ To("timeout")
  BY <1>2, Zenon DEF Conclude, PC
<1>8. Abort(c) => To("aborted")
  BY <1>1, <1>2, Zenon DEF Abort, PC
<1> QED BY <1>3, <1>4, <1>5, <1>6, <1>7, <1>8, Zenon DEF To

\* A poll finds nothing, or the datagram stored under the id of its call.
LEMMA PollCalls ==
    ASSUME Types, NEW c \in Calls, PollTake(c)
    PROVE  \/ /\ IsUpdate(call', call, c,
                          [pc |-> "polling", tid |-> call[c].tid, got |-> call[c].got])
              /\ result_store' = result_store
           \/ LET d == result_store[call[c].tid]
              IN  /\ call[c].tid \in DOMAIN result_store
                  /\ d \in Datagrams /\ d.tid = call[c].tid
                  /\ IsUpdate(call', call, c, [pc |-> "taken", tid |-> call[c].tid, got |-> d])
                  /\ result_store' = Unbind(result_store, call[c].tid)
<1>1. CASE Stored(call[c].tid) = {}
  BY <1>1, MissCalls, Zenon DEF PollTake
<1>2. CASE Stored(call[c].tid) # {}
  <2>1. PICK d \in Stored(call[c].tid) :
            /\ call' = [call EXCEPT ![c].pc = "taken", ![c].got = d, ![c].woken = FALSE]
            /\ result_store' = TakeOut(d.tid)
    BY <1>2, Zenon DEF PollTake
  <2>2. call[c].tid \in DOMAIN result_store /\ d = result_store[call[c].tid]
    BY Zenon DEF Stored
  <2>3. d \in Datagrams /\ d.tid = call[c].tid
    BY <2>2, Zenon DEF Types, StoreOK
  <2> QED BY <2>1, <2>2, <2>3, HitCalls, Zenon DEF TakeOut
<1> QED BY <1>1, <1>2, Zenon

-----------------------------------------------------------------------------
(* The invariant *)

LEMMA InitInv == UdpInit => UdpInv
<1> SUFFICES ASSUME UdpInit PROVE UdpInv
  BY Zenon
<1>1. DOMAIN inflight = {} /\ DOMAIN result_store = {}
  BY DEF UdpInit
<1>2. call \in [Calls -> CallType]
  BY Zenon DEF UdpInit, CallType, PC
<1>3. InflightOK(inflight) /\ StoreOK(result_store)
  BY <1>1, Zenon DEF InflightOK, StoreOK
<1>4. receiver.d = NoDatagram /\ receiver.waker = NoWaker
  BY Zenon DEF UdpInit
<1>5. cycle_id \in Tids /\ arrived \in 0 .. RecvLimit /\ sent \subseteq Calls
  BY TidSpaceAssumption DEF UdpInit, Tids
<1>6. Types
  BY <1>2, <1>3, <1>4, <1>5, Zenon DEF Types
<1>7. Filed /\ Begun /\ Waits
  BY <1>1, <1>4, Zenon DEF UdpInit, Filed, Begun, Waits
<1> QED BY <1>6, <1>7, Zenon DEF UdpInv

\* A call of an active caller has an id.
LEMMA HasTid ==
    ASSUME Types, Begun, NEW c \in Calls, call[c].pc # "new"
    PROVE  call[c].tid \in Tids
BY Zenon DEF Types, Begun, CallType

LEMMA CallsStep ==
    ASSUME Types, UdpNext
    PROVE  call' \in [Calls -> CallType]
<1>0. call \in [Calls -> CallType]
  BY Zenon DEF Types
<1>1. ASSUME NEW c \in Calls, TranId(c) PROVE call' \in [Calls -> CallType]
  BY <1>1, TranIdCalls, Zenon DEF IsUpdate
<1>2. ASSUME NEW c \in Calls,
             \/ InsertTid(c) \/ PollRegister(c) \/ SendTo(c) \/ SendFails(c)
             \/ Conclude(c) \/ Abort(c)
      PROVE  call' \in [Calls -> CallType]
  BY <1>2, PlainCalls, Zenon DEF IsUpdate
<1>3. ASSUME NEW c \in Calls, TimerFires(c) PROVE call' \in [Calls -> CallType]
  BY <1>3, TimerCalls, Zenon DEF IsUpdate
<1>4. ASSUME NEW c \in Calls, PollTake(c) PROVE call' \in [Calls -> CallType]
  BY <1>4, PollCalls, Zenon DEF IsUpdate
<1>5. CASE RecvStore
  BY <1>5, StoreCalls, Zenon
<1>6. ASSUME NEW t, NEW o, RecvTake(t, o) PROVE call' \in [Calls -> CallType]
  BY <1>0, <1>6, Zenon DEF RecvTake
<1>7. CASE OtherCall
  BY <1>0, <1>7, Zenon DEF OtherCall
<1> QED BY <1>1, <1>2, <1>3, <1>4, <1>5, <1>6, <1>7, Zenon DEF UdpNext, CallStep

LEMMA InflightStep ==
    ASSUME Types, Begun, UdpNext
    PROVE  InflightOK(inflight')
<1>0. InflightOK(inflight)
  BY Zenon DEF Types
<1>1. ASSUME NEW c \in Calls, InsertTid(c) \/ PollRegister(c) PROVE InflightOK(inflight')
  <2>1. call[c].tid \in Tids
    BY <1>1, HasTid, Zenon DEF InsertTid, PollRegister, Step
  <2> QED BY <1>0, <1>1, <2>1, BindInflight, Zenon DEF InsertTid, PollRegister
<1>2. ASSUME NEW c \in Calls, SendFails(c) \/ Conclude(c) \/ Abort(c) PROVE InflightOK(inflight')
  BY <1>0, <1>2, UnbindInflight, SMTT(30) DEF SendFails, Conclude, Abort, DropResponse
<1>3. ASSUME NEW c \in Calls, TranId(c) \/ SendTo(c) \/ PollTake(c) \/ TimerFires(c)
      PROVE  InflightOK(inflight')
  BY <1>0, <1>3, Zenon DEF TranId, SendTo, PollTake, TimerFires
<1>4. ASSUME NEW t, NEW o, RecvTake(t, o) PROVE InflightOK(inflight')
  BY <1>0, <1>4, UnbindInflight, Zenon DEF RecvTake
<1>5. CASE RecvStore \/ OtherCall
  BY <1>0, <1>5, Zenon DEF RecvStore, OtherCall
<1> QED BY <1>1, <1>2, <1>3, <1>4, <1>5, Zenon DEF UdpNext, CallStep

LEMMA StoreStep ==
    ASSUME Types, UdpNext
    PROVE  StoreOK(result_store')
<1>0. StoreOK(result_store)
  BY Zenon DEF Types
<1>1. ASSUME NEW c \in Calls, Conclude(c) \/ Abort(c) PROVE StoreOK(result_store')
  BY <1>0, <1>1, UnbindStore, Zenon DEF Conclude, Abort, DropResponse
<1>2. ASSUME NEW c \in Calls, PollTake(c) PROVE StoreOK(result_store')
  BY <1>0, <1>2, PollCalls, UnbindStore, Zenon
<1>3. ASSUME NEW c \in Calls, \/ TranId(c) \/ SendTo(c) \/ TimerFires(c) \/ InsertTid(c)
                              \/ PollRegister(c) \/ SendFails(c)
      PROVE  StoreOK(result_store')
  BY <1>0, <1>3, Zenon DEF TranId, SendTo, TimerFires, InsertTid, PollRegister, SendFails
<1>4. CASE RecvStore
  <2>1. receiver.d \in Datagrams
    BY <1>4, Zenon DEF RecvStore, Types
  <2> QED BY <1>0, <1>4, <2>1, BindStore, Zenon DEF RecvStore, Store
<1>5. ASSUME NEW t, NEW o, RecvTake(t, o) PROVE StoreOK(result_store')
  BY <1>0, <1>5, Zenon DEF RecvTake
<1>6. CASE OtherCall
  BY <1>0, <1>6, Zenon DEF OtherCall
<1> QED BY <1>1, <1>2, <1>3, <1>4, <1>5, <1>6, Zenon DEF UdpNext, CallStep

\* The datagram the receive loop takes up.
LEMMA TakenDatagram ==
    ASSUME Types, NEW t \in Tids, NEW o \in Calls \cup {Stranger}, RecvTake(t, o)
    PROVE  /\ arrived' = arrived + 1 /\ arrived' \in 0 .. RecvLimit
           /\ receiver'.d \in Datagrams
           /\ receiver'.d.tid = t /\ receiver'.d.n = arrived'
           /\ receiver'.waker \in Calls \cup {NoWaker}
<1>1. arrived' = arrived + 1 /\ arrived' \in 1 .. RecvLimit
  BY TidSpaceAssumption DEF RecvTake, Types
<1>2. inflight[t] \in Calls \cup {NoWaker}
  BY Zenon DEF RecvTake, Types, InflightOK
<1>3. [tid |-> t, of |-> o, n |-> arrived'] \in Datagrams
  BY <1>1, Zenon DEF Datagrams
<1>4. /\ receiver'.d = [tid |-> t, of |-> o, n |-> arrived']
      /\ receiver'.waker = inflight[t]
  BY Zenon DEF RecvTake
<1> QED BY <1>1, <1>2, <1>3, <1>4, SMTT(30)

LEMMA TypesStep ==
    ASSUME Types, Begun, UdpNext
    PROVE  Types'
<1>0. InflightOK(inflight') /\ StoreOK(result_store') /\ call' \in [Calls -> CallType]
  BY InflightStep, StoreStep, CallsStep, SMTT(30)
<1>1. ASSUME NEW c \in Calls, CallStep(c) \/ TimerFires(c) \/ Abort(c)
      PROVE  /\ cycle_id' \in Tids /\ arrived' \in 0 .. RecvLimit /\ sent' \subseteq Calls
             /\ receiver' = receiver
  BY <1>1, NextTid, Zenon DEF Types, CallStep, TranId, InsertTid, SendTo, SendFails, PollTake,
                       PollRegister, Conclude, TimerFires, Abort
<1>2. ASSUME NEW t \in Tids, NEW o \in Calls \cup {Stranger}, RecvTake(t, o)
      PROVE  /\ cycle_id' \in Tids /\ arrived' \in 0 .. RecvLimit /\ sent' \subseteq Calls
             /\ receiver'.d \in Datagrams /\ receiver'.waker \in Calls \cup {NoWaker}
  BY <1>2, TakenDatagram, Zenon DEF Types, RecvTake
<1>3. ASSUME RecvStore
      PROVE  /\ cycle_id' \in Tids /\ arrived' \in 0 .. RecvLimit /\ sent' \subseteq Calls
             /\ receiver'.d = NoDatagram /\ receiver'.waker = NoWaker
  BY <1>3, Zenon DEF RecvStore, Types
<1>4. ASSUME OtherCall
      PROVE  /\ cycle_id' \in Tids /\ arrived' \in 0 .. RecvLimit /\ sent' \subseteq Calls
             /\ receiver' = receiver
  BY <1>4, NextTid, Zenon DEF OtherCall, Types
<1> QED BY <1>0, <1>1, <1>2, <1>3, <1>4, Zenon DEF UdpNext, Types

\* No step but one of the receive loop stores anything.
LEMMA StoreShrinks ==
    ASSUME Types, NEW c \in Calls, CallStep(c) \/ TimerFires(c) \/ Abort(c)
    PROVE  /\ DOMAIN result_store' \subseteq DOMAIN result_store
           /\ \A t \in DOMAIN result_store' : result_store'[t] = result_store[t]
           /\ receiver' = receiver /\ arrived' = arrived
<1> DEFINE Part(g) == /\ DOMAIN g \subseteq DOMAIN result_store
                      /\ \A t \in DOMAIN g : g[t] = result_store[t]
<1>0. Part(result_store) /\ Part(Unbind(result_store, call[c].tid))
  BY Zenon DEF Unbind, Restrict
<1>1. CASE Conclude(c) \/ Abort(c)
  <2>1. result_store' = result_store \/ result_store' = Unbind(result_store, call[c].tid)
    BY <1>1, Zenon DEF Conclude, Abort, DropResponse
  <2>2. receiver' = receiver /\ arrived' = arrived
    BY <1>1, Zenon DEF Conclude, Abort
  <2> QED BY <1>0, <2>1, <2>2, Zenon
<1>2. CASE PollTake(c)
  <2>1. result_store' = result_store \/ result_store' = Unbind(result_store, call[c].tid)
    BY <1>2, PollCalls, Zenon
  <2>2. receiver' = receiver /\ arrived' = arrived
    BY <1>2, Zenon DEF PollTake
  <2> QED BY <1>0, <2>1, <2>2, Zenon
<1>3. CASE \/ TranId(c) \/ SendTo(c) \/ TimerFires(c) \/ InsertTid(c) \/ PollRegister(c)
           \/ SendFails(c)
  BY <1>3, Zenon DEF TranId, SendTo, TimerFires, InsertTid, PollRegister, SendFails
<1> QED BY <1>1, <1>2, <1>3, Zenon DEF CallStep

LEMMA FiledStep ==
    ASSUME Types, Filed, UdpNext
    PROVE  Filed'
<1>0. /\ arrived \in Nat
      /\ \A t \in DOMAIN result_store : result_store[t] \in Datagrams /\ result_store[t].n \in Nat
  BY DEF Types, StoreOK, Datagrams
<1>1. ASSUME NEW c \in Calls, CallStep(c) \/ TimerFires(c) \/ Abort(c) PROVE Filed'
  <2>1. /\ DOMAIN result_store' \subseteq DOMAIN result_store
        /\ \A t \in DOMAIN result_store' : result_store'[t] = result_store[t]
        /\ receiver' = receiver /\ arrived' = arrived
    BY <1>1, StoreShrinks, Zenon
  <2> QED BY <2>1, Zenon DEF Filed
<1>2. ASSUME NEW t \in Tids, NEW o \in Calls \cup {Stranger}, RecvTake(t, o) PROVE Filed'
  <2>1. arrived' = arrived + 1 /\ receiver'.d.n = arrived' /\ result_store' = result_store
    BY <1>2, TakenDatagram, Zenon DEF RecvTake
  <2> QED BY <1>0, <2>1, SMTT(30) DEF Filed
<1>3. CASE RecvStore
  <2>1. receiver'.d = NoDatagram /\ arrived' = arrived
    BY <1>3, Zenon DEF RecvStore
  <2>2. receiver.d.n = arrived
    BY <1>3, Zenon DEF RecvStore, Filed
  <2>3. DOMAIN result_store' = DOMAIN result_store \cup {receiver.d.tid}
    BY <1>3, Zenon DEF RecvStore, Store, Bind
  <2>4. \A t \in DOMAIN result_store' :
            result_store'[t] = receiver.d \/ (t \in DOMAIN result_store /\ result_store'[t] = result_store[t])
    BY <1>3, Zenon DEF RecvStore, Store, Bind
  <2> QED BY <1>0, <2>1, <2>2, <2>3, <2>4, SMTT(30) DEF Filed
<1>4. CASE OtherCall
  BY <1>4, Zenon DEF OtherCall, Filed
<1> QED BY <1>1, <1>2, <1>3, <1>4, Zenon DEF UdpNext

LEMMA BegunStep ==
    ASSUME Types, Begun, UdpNext
    PROVE  Begun'
<1>0. \A c \in Calls : call[c].pc # "new" => call[c].tid # NoTid
  BY Zenon DEF Begun
<1>1. ASSUME NEW c \in Calls, TranId(c) PROVE Begun'
  <2>1. PICK p \in {"failed", "checked"} :
            IsUpdate(call', call, c, [pc |-> p, tid |-> cycle_id, got |-> call[c].got])
    BY <1>1, TranIdCalls, Zenon
  <2>2. cycle_id # NoTid
    BY Nothing, Zenon DEF Types
  <2>3. call[c].pc = "new"
    BY <1>1, Zenon DEF TranId
  <2> QED BY <2>1, <2>2, <2>3, SMTT(30) DEF Begun, IsUpdate
<1>2. ASSUME NEW c \in Calls,
             \/ InsertTid(c) \/ PollRegister(c) \/ SendTo(c) \/ SendFails(c)
             \/ Conclude(c) \/ Abort(c)
      PROVE  Begun'
  <2>1. call[c].pc # "new"
    BY <1>2, Zenon DEF InsertTid, PollRegister, SendTo, SendFails, Conclude, Abort, Step, Leave
  <2>2. CASE InsertTid(c) \/ SendTo(c) \/ PollRegister(c)
    <3>1. call[c].got = NoDatagram
      BY <2>2, Zenon DEF InsertTid, SendTo, PollRegister, Step, Begun
    <3>2. PICK p \in {"sending", "ready", "pending", "late"} :
              IsUpdate(call', call, c, [pc |-> p, tid |-> call[c].tid, got |-> call[c].got])
      BY <2>2, PlainCalls, Zenon
    <3> QED BY <1>0, <2>1, <3>1, <3>2, SMTT(30) DEF Begun, IsUpdate
  <2>3. CASE SendFails(c) \/ Conclude(c) \/ Abort(c)
    <3>1. PICK p \in {"failed", "answered", "timeout", "aborted"} :
              IsUpdate(call', call, c, [pc |-> p, tid |-> call[c].tid, got |-> call[c].got])
      BY <2>3, PlainCalls, Zenon
    <3> QED BY <1>0, <2>1, <3>1, SMTT(30) DEF Begun, IsUpdate
  <2> QED BY <1>2, <2>2, <2>3, Zenon
<1>3. ASSUME NEW c \in Calls, TimerFires(c) PROVE Begun'
  <2>1. IsUpdate(call', call, c, call[c])
    BY <1>3, TimerCalls, Zenon
  <2> QED BY <2>1 DEF Begun, IsUpdate
<1>4. ASSUME NEW c \in Calls, PollTake(c) PROVE Begun'
  <2>1. call[c].pc \in {"ready", "pending"}
    BY <1>4, Zenon DEF PollTake
  <2>2. CASE IsUpdate(call', call, c,
                      [pc |-> "polling", tid |-> call[c].tid, got |-> call[c].got])
    BY <1>0, <2>1, <2>2, SMTT(30) DEF Begun, IsUpdate
  <2>3. ASSUME NEW d, IsUpdate(call', call, c, [pc |-> "taken", tid |-> call[c].tid, got |-> d])
        PROVE  Begun'
    BY <1>0, <2>1, <2>3, SMTT(30) DEF Begun, IsUpdate
  <2> QED BY <1>4, <2>2, <2>3, PollCalls, Zenon
<1>5. CASE RecvStore
  BY <1>5, StoreCalls, ZenonT(30) DEF Begun
<1>6. ASSUME NEW t, NEW o, RecvTake(t, o) PROVE Begun'
  BY <1>6, Zenon DEF RecvTake, Begun
<1>7. CASE OtherCall
  BY <1>7, Zenon DEF OtherCall, Begun
<1> QED BY <1>1, <1>2, <1>3, <1>4, <1>5, <1>6, <1>7, Zenon DEF UdpNext, CallStep

\* A call keeps the id it was given.
LEMMA TidKept ==
    ASSUME Types, Begun, UdpNext, NEW c \in Calls, call[c].tid # NoTid
    PROVE  call'[c].tid = call[c].tid
<1>1. ASSUME NEW x \in Calls, TranId(x) PROVE call'[c].tid = call[c].tid
  <2>1. x # c
    BY <1>1, Zenon DEF TranId, Begun
  <2> QED BY <1>1, <2>1, TranIdCalls, ZenonT(30) DEF IsUpdate
<1>2. ASSUME NEW x \in Calls,
             \/ InsertTid(x) \/ PollRegister(x) \/ SendTo(x) \/ SendFails(x)
             \/ Conclude(x) \/ Abort(x)
      PROVE  call'[c].tid = call[c].tid
  <2>1. PICK p : IsUpdate(call', call, x, [pc |-> p, tid |-> call[x].tid, got |-> call[x].got])
    BY <1>2, PlainCalls, Zenon
  <2> QED BY <2>1, Zenon DEF IsUpdate
<1>3. ASSUME NEW x \in Calls, TimerFires(x) PROVE call'[c].tid = call[c].tid
  BY <1>3, TimerCalls, Zenon DEF IsUpdate
<1>4. ASSUME NEW x \in Calls, PollTake(x) PROVE call'[c].tid = call[c].tid
  BY <1>4, PollCalls, Zenon DEF IsUpdate
<1>5. CASE RecvStore
  BY <1>5, StoreCalls, Zenon
<1>6. ASSUME NEW t, NEW o, RecvTake(t, o) PROVE call'[c].tid = call[c].tid
  BY <1>6, Zenon DEF RecvTake
<1>7. CASE OtherCall
  BY <1>7, Zenon DEF OtherCall
<1> QED BY <1>1, <1>2, <1>3, <1>4, <1>5, <1>6, <1>7, ZenonT(60) DEF UdpNext, CallStep

\* What a step of another call, or of this one, leaves of Somewhere(c).  The id of c is
\* taken out of a map by c itself or by a call that was given the same id.
LEMMA WaitsStep ==
    ASSUME Types, Begun, Waits, UdpNext
    PROVE  Waits'
<1> SUFFICES ASSUME NEW c \in Calls, call'[c].pc \in {"sending", "ready", "pending"}, ~Reused(c)'
             PROVE  Somewhere(c)'
  BY Zenon DEF Waits
<1> DEFINE Alone == \A x \in Calls \ {c} : call[x].tid # call[c].tid
<1>1. ASSUME call[c].pc # "new"
      PROVE  /\ call[c].tid \in Tids /\ call[c].tid # NoTid
             /\ call'[c].tid = call[c].tid
             /\ ~Reused(c) /\ Alone
  <2>1. call[c].tid \in Tids /\ call[c].tid # NoTid
    BY <1>1, HasTid, Nothing, Zenon
  <2>2. call'[c].tid = call[c].tid
    BY <2>1, TidKept, Zenon
  <2>3. \A x \in Calls \ {c} : call[x].tid # call[c].tid
    <3> SUFFICES ASSUME NEW x \in Calls \ {c}, call[x].tid = call[c].tid PROVE FALSE
      BY Zenon
    <3>1. call'[x].tid = call[x].tid
      BY <2>1, TidKept, Zenon
    <3> QED BY <2>2, <3>1, Zenon DEF Reused
  <2> QED BY <2>1, <2>2, <2>3, Zenon DEF Reused
<1>2. ASSUME call[c].pc \in {"sending", "ready", "pending"} PROVE Somewhere(c)
  BY <1>1, <1>2, Zenon DEF Waits
<1> HIDE DEF Alone
<1>3. ASSUME NEW x \in Calls, TranId(x) PROVE Somewhere(c)'
  <2>1. PICK p \in {"failed", "checked"} :
            IsUpdate(call', call, x, [pc |-> p, tid |-> cycle_id, got |-> call[x].got])
    BY <1>3, TranIdCalls, Zenon
  <2>2. x # c /\ call'[c] = call[c]
    BY <2>1, Zenon DEF IsUpdate
  <2> QED BY <1>2, <1>3, <2>2, Zenon DEF Somewhere, TranId
<1>4. ASSUME NEW x \in Calls, InsertTid(x) \/ PollRegister(x) PROVE Somewhere(c)'
  <2>1. PICK p : IsUpdate(call', call, x, [pc |-> p, tid |-> call[x].tid, got |-> call[x].got])
    BY <1>4, PlainCalls, Zenon
  <2>2. /\ DOMAIN inflight' = DOMAIN inflight \cup {call[x].tid}
        /\ result_store' = result_store /\ receiver' = receiver
    BY <1>4, Zenon DEF InsertTid, PollRegister, Bind
  <2>3. CASE x = c
    BY <2>1, <2>2, <2>3, Zenon DEF IsUpdate, Somewhere
  <2>4. CASE x # c
    BY <1>2, <2>1, <2>2, <2>4, Zenon DEF IsUpdate, Somewhere
  <2> QED BY <2>3, <2>4, Zenon
<1>5. ASSUME NEW x \in Calls, SendTo(x) PROVE Somewhere(c)'
  <2>1. IsUpdate(call', call, x, [pc |-> "ready", tid |-> call[x].tid, got |-> call[x].got])
    BY <1>5, PlainCalls, Zenon
  <2>2. call[c].pc \in {"sending", "ready", "pending"} /\ call'[c].tid = call[c].tid
    BY <1>5, <2>1, Zenon DEF IsUpdate, SendTo, Step
  <2> QED BY <1>2, <1>5, <2>2, Zenon DEF Somewhere, SendTo
<1>6. ASSUME NEW x \in Calls, SendFails(x) \/ Conclude(x) \/ Abort(x) PROVE Somewhere(c)'
  <2>1. PICK p \in {"failed", "answered", "timeout", "aborted"} :
            IsUpdate(call', call, x, [pc |-> p, tid |-> call[x].tid, got |-> call[x].got])
    BY <1>6, PlainCalls, Zenon
  <2>2. x # c /\ call'[c] = call[c]
    BY <2>1, Zenon DEF IsUpdate
  <2>3. call[x].tid # call[c].tid /\ Somewhere(c)
    BY <1>1, <1>2, <2>2, Zenon DEF Alone
  <2>4. /\ DOMAIN inflight \ {call[x].tid} \subseteq DOMAIN inflight'
        /\ DOMAIN result_store \ {call[x].tid} \subseteq DOMAIN result_store'
        /\ receiver' = receiver
    BY <1>6, Zenon DEF SendFails, Conclude, Abort, DropResponse, Unbind, Restrict
  <2> QED BY <2>2, <2>3, <2>4, Zenon DEF Somewhere
<1>7. ASSUME NEW x \in Calls, TimerFires(x) PROVE Somewhere(c)'
  <2>1. call'[c].pc = call[c].pc /\ call'[c].tid = call[c].tid
    BY <1>7, TimerCalls, Zenon DEF IsUpdate
  <2> QED BY <1>2, <1>7, <2>1, Zenon DEF Somewhere, TimerFires
<1>8. ASSUME NEW x \in Calls, PollTake(x) PROVE Somewhere(c)'
  <2>1. \E p \in {"polling", "taken"} : \E d :
            IsUpdate(call', call, x, [pc |-> p, tid |-> call[x].tid, got |-> d])
    BY <1>8, PollCalls, Zenon
  <2>2. x # c /\ call'[c] = call[c]
    BY <2>1, Zenon DEF IsUpdate
  <2>3. call[x].tid # call[c].tid /\ Somewhere(c)
    BY <1>1, <1>2, <2>2, Zenon DEF Alone
  <2>4. result_store' = result_store \/ result_store' = Unbind(result_store, call[x].tid)
    BY <1>8, PollCalls, Zenon
  <2>5. DOMAIN result_store \ {call[x].tid} \subseteq DOMAIN result_store'
    BY <2>4, Zenon DEF Unbind, Restrict
  <2> QED BY <1>8, <2>2, <2>3, <2>5, Zenon DEF Somewhere, PollTake
<1>9. CASE RecvStore
  <2>1. call'[c].pc = call[c].pc /\ call'[c].tid = call[c].tid
    BY <1>9, StoreCalls, Zenon
  <2>2. DOMAIN result_store' = DOMAIN result_store \cup {receiver.d.tid} /\ inflight' = inflight
    BY <1>9, Zenon DEF RecvStore, Store, Bind
  <2> QED BY <1>2, <2>1, <2>2, Zenon DEF Somewhere
<1>10. ASSUME NEW t \in Tids, NEW o \in Calls \cup {Stranger}, RecvTake(t, o) PROVE Somewhere(c)'
  <2>1. receiver'.d.tid = t
    BY <1>10, TakenDatagram, Zenon
  <2>2. /\ call' = call /\ result_store' = result_store /\ receiver.d = NoDatagram
        /\ DOMAIN inflight' = DOMAIN inflight \ {t}
    BY <1>10, Zenon DEF RecvTake, Unbind, Restrict
  <2>3. Somewhere(c) /\ call[c].tid # NoTid
    BY <1>1, <1>2, <2>2, Zenon
  <2> QED BY <2>1, <2>2, <2>3, Nothing, Zenon DEF Somewhere
<1>11. CASE OtherCall
  BY <1>2, <1>11, Zenon DEF OtherCall, Somewhere
<1> QED BY <1>3, <1>4, <1>5, <1>6, <1>7, <1>8, <1>9, <1>10, <1>11, ZenonT(60) DEF UdpNext, CallStep

LEMMA UdpInvStep == UdpInv /\ [UdpNext]_udpVars => UdpInv'
<1> SUFFICES ASSUME UdpInv, [UdpNext]_udpVars PROVE UdpInv'
  BY Zenon
<1>1. CASE UdpNext
  BY <1>1, TypesStep, FiledStep, BegunStep, WaitsStep, Zenon DEF UdpInv
<1>2. CASE UNCHANGED udpVars
  BY <1>2, ZenonT(30) DEF udpVars, UdpInv, Types, InflightOK, StoreOK, Filed, Begun, Waits, Somewhere, Reused
<1> QED BY <1>1, <1>2, Zenon

LEMMA UdpInvariant == UdpSpec => []UdpInv
<1> QED BY InitInv, UdpInvStep, PTL DEF UdpSpec

\* The two maps of UdpServer and its counters hold what they are declared to hold, an
\* id never leaves the range of the u16 counter that tran_id draws it from.
THEOREM UdpTypes == UdpSpec => []UdpTypeOK
<1>1. UdpInv => UdpTypeOK
  BY ZenonT(30) DEF UdpInv, Types, UdpTypeOK, InflightOK, StoreOK, Range
<1> QED BY <1>1, UdpInvariant, PTL

\* Between inflight and result_store no request gets lost: as long as its id is its
\* own, a call that waits in Response is known to parse_recv_data or has its answer.
THEOREM NoRequestLost == UdpSpec => []Reachable
<1>1. UdpInv => Reachable
  BY Zenon DEF UdpInv, Waits, Reachable, Live, Somewhere
<1> QED BY <1>1, UdpInvariant, PTL

-----------------------------------------------------------------------------
(* UdpServer implements AnswerService *)

\* The refinement mapping.
AOpen == {c \in Calls : call[c].pc \in {"sending", "ready", "polling", "pending", "late"}}
ATid == [c \in Calls |-> call[c].tid]
ABox == {result_store[t] : t \in DOMAIN result_store}
AGiven == [c \in Calls |-> {call[c].got} \ {NoDatagram}]

LEMMA IsClose ==
    ASSUME NEW c \in Calls, AOpen' = AOpen \ {c},
           ABox' = ABox \/ ABox' = {e \in ABox : e.tid # ATid[c]}, ATid' = ATid, AGiven' = AGiven
    PROVE  Service!AbsNext
BY Zenon DEF Service!AbsNext, Service!Close, AOpen, ATid, ABox, AGiven

LEMMA IsOpen ==
    ASSUME NEW c \in Calls, ATid[c] # NoTid, c \notin AOpen, AGiven[c] = {},
           AOpen' = AOpen \cup {c}, ABox' = ABox, ATid' = ATid, AGiven' = AGiven
    PROVE  Service!AbsNext
BY Zenon DEF Service!AbsNext, Service!Open, AOpen, ATid, ABox, AGiven

LEMMA IsName ==
    ASSUME NEW c \in Calls, ATid[c] = NoTid, NEW d \in Datagrams,
           ATid' = [ATid EXCEPT ![c] = d.tid], AOpen' = AOpen, ABox' = ABox, AGiven' = AGiven
    PROVE  Service!AbsNext
BY ZenonT(30) DEF Service!AbsNext, Service!Name, AOpen, ATid, ABox, AGiven

LEMMA IsAccept ==
    ASSUME NEW d \in Datagrams, d \notin ABox,
           ABox' = {e \in ABox : e.tid # d.tid} \cup {d},
           AOpen' = AOpen, ATid' = ATid, AGiven' = AGiven
    PROVE  Service!AbsNext
BY Zenon DEF Service!AbsNext, Service!Accept, AOpen, ATid, ABox, AGiven

LEMMA IsHand ==
    ASSUME NEW c \in Calls, NEW d \in Datagrams, c \in AOpen, d \in ABox, d.tid = ATid[c],
           AGiven[c] = {}, AGiven' = [AGiven EXCEPT ![c] = {d}],
           AOpen' = AOpen \ {c}, ABox' = ABox \ {d}, ATid' = ATid
    PROVE  Service!AbsNext
BY Zenon DEF Service!AbsNext, Service!Hand, AOpen, ATid, ABox, AGiven

LEMMA IsStutter ==
    ASSUME AOpen' = AOpen, ATid' = ATid, ABox' = ABox, AGiven' = AGiven
    PROVE  UNCHANGED Service!absVars
BY Zenon DEF Service!absVars, AOpen, ATid, ABox, AGiven

\* What a step of one call is to the service.
LEMMA UpdateSeen ==
    ASSUME Types, NEW c \in Calls, NEW r, IsUpdate(call', call, c, r)
    PROVE  /\ AOpen' = IF r.pc \in {"sending", "ready", "polling", "pending", "late"}
                       THEN AOpen \cup {c} ELSE AOpen \ {c}
           /\ ATid' = [ATid EXCEPT ![c] = r.tid]
           /\ AGiven' = [AGiven EXCEPT ![c] = {r.got} \ {NoDatagram}]
           /\ r.tid = call[c].tid => ATid' = ATid
           /\ r.got = call[c].got => AGiven' = AGiven
<1>1. AOpen' = IF r.pc \in {"sending", "ready", "polling", "pending", "late"}
               THEN AOpen \cup {c} ELSE AOpen \ {c}
  BY Zenon DEF AOpen, IsUpdate
<1>2. ATid' = [ATid EXCEPT ![c] = r.tid] /\ (r.tid = call[c].tid => ATid' = ATid)
  BY Zenon DEF ATid, IsUpdate
<1>3. /\ AGiven' = [AGiven EXCEPT ![c] = {r.got} \ {NoDatagram}]
      /\ r.got = call[c].got => AGiven' = AGiven
  BY Zenon DEF AGiven, IsUpdate
<1> QED BY <1>1, <1>2, <1>3, Zenon

LEMMA SameCalls ==
    ASSUME \A c \in Calls : /\ call'[c].pc = call[c].pc /\ call'[c].tid = call[c].tid
                            /\ call'[c].got = call[c].got
    PROVE  AOpen' = AOpen /\ ATid' = ATid /\ AGiven' = AGiven
BY Zenon DEF AOpen, ATid, AGiven

\* The box, when an id is taken out of result_store and when a datagram is put in.
LEMMA BoxUnbind ==
    ASSUME Types, NEW k, result_store' = Unbind(result_store, k)
    PROVE  ABox' = {e \in ABox : e.tid # k}
<1>1. DOMAIN result_store' = DOMAIN result_store \ {k}
  BY Zenon DEF Unbind, Restrict
<1>2. \A t \in DOMAIN result_store \ {k} : result_store'[t] = result_store[t]
  BY Zenon DEF Unbind, Restrict
<1>3. \A t \in DOMAIN result_store : result_store[t].tid = t
  BY Zenon DEF Types, StoreOK
<1> QED BY <1>1, <1>2, <1>3, SMTT(30) DEF ABox

LEMMA BoxBind ==
    ASSUME Types, NEW d, result_store' = Bind(result_store, d.tid, d)
    PROVE  ABox' = {e \in ABox : e.tid # d.tid} \cup {d}
<1>1. DOMAIN result_store' = DOMAIN result_store \cup {d.tid}
  BY Zenon DEF Bind
<1>2. /\ \A t \in DOMAIN result_store \ {d.tid} : result_store'[t] = result_store[t]
      /\ result_store'[d.tid] = d
  BY Zenon DEF Bind
<1>3. \A t \in DOMAIN result_store : result_store[t].tid = t
  BY Zenon DEF Types, StoreOK
<1> QED BY <1>1, <1>2, <1>3, SMTT(30) DEF ABox

LEMMA SeenInit == UdpInit => Service!AbsInit
<1> SUFFICES ASSUME UdpInit PROVE Service!AbsInit
  BY Zenon
<1>1. AOpen = {} /\ ATid = [c \in Calls |-> NoTid] /\ ABox = {} /\ AGiven = [c \in Calls |-> {}]
  BY DEF UdpInit, AOpen, ATid, ABox, AGiven
<1> QED BY <1>1, Zenon DEF Service!AbsInit, AOpen, ATid, ABox, AGiven

\* Every step is one of the service or none: the two halves of a poll and of the
\* receipt of a datagram are seen as the one that changes result_store.
LEMMA SeenStep ==
    ASSUME UdpInv, UdpNext
    PROVE  [Service!AbsNext]_(Service!absVars)
<1> USE DEF UdpInv
<1>0. \A c \in Calls : /\ ATid[c] = call[c].tid
                       /\ AGiven[c] = {call[c].got} \ {NoDatagram}
                       /\ c \in AOpen <=>
                              call[c].pc \in {"sending", "ready", "polling", "pending", "late"}
  BY Zenon DEF ATid, AGiven, AOpen
<1>1. ASSUME NEW c \in Calls, TranId(c) PROVE Service!AbsNext
  <2>1. PICK p \in {"failed", "checked"} :
            IsUpdate(call', call, c, [pc |-> p, tid |-> cycle_id, got |-> call[c].got])
    BY <1>1, TranIdCalls, Zenon
  <2>2. /\ AOpen' = AOpen \ {c}
        /\ ATid' = [ATid EXCEPT ![c] = cycle_id] /\ AGiven' = AGiven
    BY <2>1, UpdateSeen, SMTT(30)
  <2>3. call[c].pc = "new" /\ call[c].tid = NoTid /\ result_store' = result_store
    BY <1>1, Zenon DEF TranId, Begun
  <2>4. AOpen' = AOpen /\ ABox' = ABox
    BY <1>0, <2>2, <2>3, ZenonT(30) DEF ABox
  <2> DEFINE d == [tid |-> cycle_id, of |-> Stranger, n |-> 1]
  <2>5. d \in Datagrams /\ d.tid = cycle_id
    BY TidSpaceAssumption DEF Datagrams, Types
  <2> HIDE DEF d
  <2> QED BY <1>0, <2>2, <2>3, <2>4, <2>5, IsName, Zenon
<1>2. ASSUME NEW c \in Calls, InsertTid(c) PROVE Service!AbsNext
  <2>1. IsUpdate(call', call, c, [pc |-> "sending", tid |-> call[c].tid, got |-> call[c].got])
    BY <1>2, PlainCalls, Zenon
  <2>2. AOpen' = AOpen \cup {c} /\ ATid' = ATid /\ AGiven' = AGiven
    BY <2>1, UpdateSeen, SMTT(30)
  <2>3. call[c].pc = "checked" /\ result_store' = result_store
    BY <1>2, Zenon DEF InsertTid, Step
  <2>4. call[c].tid # NoTid /\ call[c].got = NoDatagram /\ ABox' = ABox
    BY <2>3, Zenon DEF Begun, ABox
  <2>5. c \notin AOpen /\ ATid[c] # NoTid /\ AGiven[c] = {}
    BY <1>0, <2>3, <2>4, Zenon
  <2> QED BY <2>2, <2>4, <2>5, IsOpen, Zenon
<1>3. ASSUME NEW c \in Calls, SendTo(c) \/ PollRegister(c) PROVE UNCHANGED Service!absVars
  <2>1. PICK p \in {"ready", "late", "pending"} :
            IsUpdate(call', call, c, [pc |-> p, tid |-> call[c].tid, got |-> call[c].got])
    BY <1>3, PlainCalls, Zenon
  <2>2. AOpen' = AOpen \cup {c} /\ ATid' = ATid /\ AGiven' = AGiven
    BY <2>1, UpdateSeen, SMTT(30)
  <2>3. call[c].pc \in {"sending", "polling"} /\ result_store' = result_store
    BY <1>3, Zenon DEF SendTo, PollRegister, Step
  <2>4. AOpen' = AOpen /\ ABox' = ABox
    BY <1>0, <2>2, <2>3, ZenonT(30) DEF ABox
  <2> QED BY <2>2, <2>4, IsStutter, Zenon
<1>4. ASSUME NEW c \in Calls, SendFails(c) \/ Conclude(c) \/ Abort(c) PROVE Service!AbsNext
  <2>1. PICK p \in {"failed", "answered", "timeout", "aborted"} :
            IsUpdate(call', call, c, [pc |-> p, tid |-> call[c].tid, got |-> call[c].got])
    BY <1>4, PlainCalls, Zenon
  <2>2. AOpen' = AOpen \ {c} /\ ATid' = ATid /\ AGiven' = AGiven
    BY <2>1, UpdateSeen, SMTT(30)
  <2>3. result_store' = result_store \/ result_store' = Unbind(result_store, call[c].tid)
    BY <1>4, Zenon DEF SendFails, Conclude, Abort, DropResponse
  <2>4. ABox' = ABox \/ ABox' = {e \in ABox : e.tid # ATid[c]}
    BY <1>0, <2>3, BoxUnbind, SMTT(30) DEF ABox
  <2> QED BY <2>2, <2>4, IsClose, Zenon
<1>5. ASSUME NEW c \in Calls, TimerFires(c) PROVE UNCHANGED Service!absVars
  <2>1. IsUpdate(call', call, c, call[c])
    BY <1>5, TimerCalls, Zenon
  <2>2. AOpen' = AOpen \cup {c} /\ ATid' = ATid /\ AGiven' = AGiven
    BY <1>5, <2>1, UpdateSeen, Zenon DEF TimerFires
  <2>3. AOpen' = AOpen /\ ABox' = ABox
    BY <1>0, <1>5, <2>2, ZenonT(30) DEF ABox, TimerFires
  <2> QED BY <2>2, <2>3, IsStutter, Zenon
<1>6. ASSUME NEW c \in Calls, PollTake(c) PROVE [Service!AbsNext]_(Service!absVars)
  <2>0. call[c].pc \in {"ready", "pending"} /\ c \in AOpen /\ AGiven[c] = {}
    BY <1>0, <1>6, Zenon DEF PollTake, Begun
  <2>1. CASE /\ IsUpdate(call', call, c,
                         [pc |-> "polling", tid |-> call[c].tid, got |-> call[c].got])
             /\ result_store' = result_store
    <3>1. AOpen' = AOpen \cup {c} /\ ATid' = ATid /\ AGiven' = AGiven
      BY <2>1, UpdateSeen, SMTT(30)
    <3>2. AOpen' = AOpen /\ ABox' = ABox
      BY <2>0, <2>1, <3>1, Zenon DEF ABox
    <3> QED BY <3>1, <3>2, IsStutter, Zenon
  <2> DEFINE d == result_store[call[c].tid]
  <2>2. CASE /\ call[c].tid \in DOMAIN result_store
             /\ d \in Datagrams /\ d.tid = call[c].tid
             /\ IsUpdate(call', call, c, [pc |-> "taken", tid |-> call[c].tid, got |-> d])
             /\ result_store' = Unbind(result_store, call[c].tid)
    <3>1. d \in ABox /\ \A e \in ABox : e.tid = call[c].tid => e = d
      BY <2>2 DEF ABox, Types, StoreOK
    <3>2. ABox' = {e \in ABox : e.tid # call[c].tid}
      BY <2>2, BoxUnbind, Zenon
    <3>3. d \in Datagrams /\ d.tid = call[c].tid
      BY <2>2, Zenon
    <3>4. /\ AOpen' = AOpen \ {c} /\ ATid' = ATid
          /\ AGiven' = [AGiven EXCEPT ![c] = {d} \ {NoDatagram}]
      BY <2>2, UpdateSeen, SMTT(30)
    <3> HIDE DEF d
    <3>5. ABox' = ABox \ {d} /\ {d} \ {NoDatagram} = {d}
      BY <3>1, <3>2, <3>3, Nothing, Zenon
    <3> QED BY <1>0, <2>0, <3>1, <3>3, <3>4, <3>5, IsHand, ZenonT(60)
  <2> QED BY <1>6, <2>1, <2>2, PollCalls, Zenon
<1>7. CASE RecvStore
  <2>1. AOpen' = AOpen /\ ATid' = ATid /\ AGiven' = AGiven
    BY <1>7, StoreCalls, SameCalls, Zenon
  <2>2. receiver.d \in Datagrams /\ receiver.d.n = arrived /\ arrived \in Nat
    BY <1>7, SMTT(30) DEF RecvStore, Types, Filed
  <2>3. receiver.d \notin ABox
    BY <1>7, <2>2, SMTT(30) DEF RecvStore, Filed, ABox, Types, StoreOK, Datagrams
  <2>4. ABox' = {e \in ABox : e.tid # receiver.d.tid} \cup {receiver.d}
    BY <1>7, BoxBind, Zenon DEF RecvStore, Store
  <2> QED BY <2>1, <2>2, <2>3, <2>4, IsAccept, Zenon
<1>8. ASSUME NEW t, NEW o, RecvTake(t, o) PROVE UNCHANGED Service!absVars
  BY <1>8, IsStutter, Zenon DEF RecvTake, AOpen, ATid, ABox, AGiven
<1>9. ASSUME OtherCall PROVE UNCHANGED Service!absVars
  BY <1>9, IsStutter, Zenon DEF OtherCall, AOpen, ATid, ABox, AGiven
<1> QED BY <1>1, <1>2, <1>3, <1>4, <1>5, <1>6, <1>7, <1>8, <1>9, ZenonT(30) DEF UdpNext, CallStep

\* UdpServer, with its two maps, its receive loop and the futures that poll them,
\* implements the service of AnswerService: one datagram at most for a call, with the
\* id of the call, no datagram for two calls, none for a call that has ended.
THEOREM UdpImplementsService == UdpSpec => Answers
<1>1. ASSUME UdpInv, [UdpNext]_udpVars PROVE [Service!AbsNext]_(Service!absVars)
  <2>1. CASE UNCHANGED udpVars
    BY <2>1, IsStutter, Zenon DEF udpVars, AOpen, ATid, ABox, AGiven
  <2> QED BY <1>1, <2>1, SeenStep, Zenon
<1> QED BY <1>1, SeenInit, UdpInvariant, PTL DEF UdpSpec, Answers

-----------------------------------------------------------------------------
(* RemoteControl: the connections *)

ServerPc == {"bind", "run", "insert", "closing", "stopped"}
ServerType == [pc : ServerPc, todo : SUBSET Conns, locked : SUBSET Conns]
ConnState == {"none", "accept", "handshake", "run", "remove", "done", "aborted"}
ServerTypes ==
    /\ server \in ServerType /\ conn \in [Conns -> ConnState]
    /\ conns \subseteq Conns /\ emitter \subseteq Conns

\* While the server accepts, a live task is in the map or about to be inserted; once
\* it shuts down, a live task is one that it will still wait for.
Tracked ==
    /\ \A c \in Conns : Alive(c) => c \in conns \/ (server.pc = "insert" /\ server.todo = {c})
    /\ server.pc \in {"closing", "stopped"} => \A c \in Conns : Alive(c) => c \in server.todo
    /\ server.pc = "bind" => \A c \in Conns : ~Alive(c)
    /\ server.pc \in {"bind", "run", "insert"} => server.locked = {}
    /\ server.pc = "stopped" => server.todo = {}
    /\ \A c \in emitter : conn[c] \in {"run", "aborted"}

\* What an assignment to the server's record leaves.
IsServer(s, p, t, l) == s \in ServerType /\ s.pc = p /\ s.todo = t /\ s.locked = l

LEMMA ServerMoves ==
    ASSUME NEW s \in ServerType, NEW p \in ServerPc
    PROVE  IsServer([s EXCEPT !.pc = p], p, s.todo, s.locked)
BY Zenon DEF ServerType, IsServer

LEMMA ServerTakes ==
    ASSUME NEW s \in ServerType, NEW p \in ServerPc, NEW t \in SUBSET Conns
    PROVE  IsServer([s EXCEPT !.pc = p, !.todo = t], p, t, s.locked)
BY Zenon DEF ServerType, IsServer

LEMMA ServerLocks ==
    ASSUME NEW s \in ServerType, NEW l \in SUBSET Conns
    PROVE  IsServer([s EXCEPT !.locked = l], s.pc, s.todo, l)
BY Zenon DEF ServerType, IsServer

LEMMA ServerJoins ==
    ASSUME NEW s \in ServerType, NEW c \in Conns
    PROVE  IsServer([s EXCEPT !.locked = {}, !.todo = @ \ {c}], s.pc, s.todo \ {c}, {})
BY Zenon DEF ServerType, IsServer

LEMMA TrackedInit == CtlInit => ServerTypes /\ Tracked
BY DEF CtlInit, ServerTypes, ServerType, ServerPc, ConnState, Tracked, Alive

\* The steps of the server.
LEMMA TrackedServer ==
    ASSUME ServerTypes, Tracked, ServerStep
    PROVE  ServerTypes' /\ Tracked'
<1>0. server \in ServerType /\ conn \in [Conns -> ConnState] /\ conns \subseteq Conns
      /\ emitter \subseteq Conns
  BY Zenon DEF ServerTypes
<1>t. server.pc \in ServerPc /\ server.todo \in SUBSET Conns /\ server.locked \in SUBSET Conns
  BY <1>0, Zenon DEF ServerType
<1>1. CASE BindListener
  <2>1. server.pc = "bind" /\ UNCHANGED <<conns, conn, emitter>>
    BY <1>1, Zenon DEF BindListener
  <2>2. PICK p \in {"run", "closing"} : server' = [server EXCEPT !.pc = p]
    BY <1>1, Zenon DEF BindListener
  <2>3. IsServer(server', p, server.todo, server.locked)
    BY <1>0, <2>2, ServerMoves, Zenon DEF ServerPc
  <2>4. \A c \in Conns : ~Alive(c)
    BY <2>1, Zenon DEF Tracked
  <2> QED BY <1>0, <2>1, <2>3, <2>4, Zenon DEF ServerTypes, Tracked, Alive, IsServer
<1>2. CASE AcceptInsert
  <2>1. /\ server.pc = "insert" /\ conns' = conns \cup server.todo /\ UNCHANGED <<conn, emitter>>
        /\ server' = [server EXCEPT !.pc = "run", !.todo = {}]
    BY <1>2, Zenon DEF AcceptInsert, WithInsert
  <2>2. IsServer(server', "run", {}, server.locked)
    BY <1>0, <2>1, ServerTakes, Zenon DEF ServerPc
  <2> QED BY <1>0, <1>t, <2>1, <2>2, Zenon DEF ServerTypes, Tracked, Alive, IsServer
<1>3. CASE BeginShutdown
  <2>1. /\ server.pc = "run" /\ UNCHANGED <<conns, conn, emitter>>
        /\ server' = [server EXCEPT !.pc = "closing", !.todo = conns]
    BY <1>3, Zenon DEF BeginShutdown
  <2>2. IsServer(server', "closing", conns, server.locked)
    BY <1>0, <2>1, ServerTakes, Zenon DEF ServerPc
  <2> QED BY <1>0, <2>1, <2>2, Zenon DEF ServerTypes, Tracked, Alive, IsServer
<1>4. CASE ServerStopped
  <2>1. /\ server.pc = "closing" /\ server.todo = {} /\ UNCHANGED <<conns, conn, emitter>>
        /\ server' = [server EXCEPT !.pc = "stopped"]
    BY <1>4, Zenon DEF ServerStopped
  <2>2. IsServer(server', "stopped", server.todo, server.locked)
    BY <1>0, <2>1, ServerMoves, Zenon DEF ServerPc
  <2> QED BY <1>0, <2>1, <2>2, Zenon DEF ServerTypes, Tracked, Alive, IsServer
<1>5. ASSUME NEW c \in Conns, AbortConn(c)
      PROVE  ServerTypes' /\ Tracked'
  <2>1. /\ server.pc = "closing" /\ UNCHANGED <<conns, emitter>>
        /\ server' = [server EXCEPT !.locked = {c}]
        /\ conn' = [conn EXCEPT ![c] = IF @ \in {"accept", "handshake", "run"} THEN "aborted" ELSE @]
    BY <1>5, Zenon DEF AbortConn
  <2>2. IsServer(server', "closing", server.todo, {c})
    BY <1>0, <2>1, ServerLocks, Zenon
  <2>3. /\ conn' \in [Conns -> ConnState]
        /\ \A x \in Conns : conn'[x] = conn[x] \/ conn'[x] = "aborted"
    BY <1>0, <2>1, Zenon DEF ConnState
  <2> QED BY <1>0, <2>1, <2>2, <2>3, ZenonT(30) DEF ServerTypes, Tracked, Alive, IsServer
<1>6. ASSUME NEW c \in Conns, JoinConn(c)
      PROVE  ServerTypes' /\ Tracked'
  <2>1. /\ server.locked = {c} /\ conn[c] \in {"aborted", "done"}
        /\ UNCHANGED <<conns, conn, emitter>>
        /\ server' = [server EXCEPT !.locked = {}, !.todo = @ \ {c}]
    BY <1>6, Zenon DEF JoinConn, Joined
  <2>2. IsServer(server', server.pc, server.todo \ {c}, {})
    BY <1>0, <2>1, ServerJoins, Zenon
  <2>3. server.pc \in {"closing", "stopped"}
    BY <1>t, <2>1, Zenon DEF Tracked, ServerPc
  <2> QED BY <1>0, <2>1, <2>2, <2>3, Zenon DEF ServerTypes, Tracked, Alive, IsServer
<1> QED BY <1>1, <1>2, <1>3, <1>4, <1>5, <1>6, ZenonT(60) DEF ServerStep

\* The steps of a connection's task that move it.
LEMMA TrackedMove ==
    ASSUME ServerTypes, Tracked, NEW c \in Conns,
           AcceptSpawn(c) \/ ReadProtocol(c) \/ ProtocolDispatch(c) \/ RemoveConn(c) \/ ExitRun(c)
    PROVE  ServerTypes' /\ Tracked'
<1>0. server \in ServerType /\ conn \in [Conns -> ConnState] /\ conns \subseteq Conns
      /\ emitter \subseteq Conns
  BY Zenon DEF ServerTypes
<1>1. CASE AcceptSpawn(c)
  <2>1. /\ server.pc = "run" /\ conn[c] = "none" /\ conn' = [conn EXCEPT ![c] = "accept"]
        /\ server' = [server EXCEPT !.pc = "insert", !.todo = {c}] /\ UNCHANGED <<conns, emitter>>
    BY <1>1, Zenon DEF AcceptSpawn, Move
  <2>2. IsServer(server', "insert", {c}, server.locked)
    BY <1>0, <2>1, ServerTakes, Zenon DEF ServerPc
  <2> QED BY <1>0, <2>1, <2>2, Zenon DEF ServerTypes, Tracked, Alive, IsServer, ConnState
<1>2. CASE ReadProtocol(c)
  <2>1. PICK s \in {"handshake", "remove"} : conn[c] = "accept" /\ conn' = [conn EXCEPT ![c] = s]
    BY <1>2, Zenon DEF ReadProtocol, Move
  <2>2. UNCHANGED <<server, conns, emitter>>
    BY <1>2, Zenon DEF ReadProtocol
  <2> QED BY <1>0, <2>1, <2>2, Zenon DEF ServerTypes, Tracked, Alive, ConnState
<1>3. CASE ProtocolDispatch(c)
  <2>1. PICK s \in {"run", "remove"} :
            /\ conn[c] = "handshake" /\ conn' = [conn EXCEPT ![c] = s]
            /\ emitter' = IF s = "run" THEN emitter \cup {c} ELSE emitter
    BY <1>3, Zenon DEF ProtocolDispatch, Move
  <2>2. UNCHANGED <<server, conns>>
    BY <1>3, Zenon DEF ProtocolDispatch
  <2> QED BY <1>0, <2>1, <2>2, SMTT(30) DEF ServerTypes, Tracked, Alive, ConnState
<1>4. CASE RemoveConn(c)
  <2>1. /\ conn[c] = "remove" /\ conn' = [conn EXCEPT ![c] = "done"] /\ conns' = conns \ {c}
        /\ UNCHANGED <<server, emitter>>
    BY <1>4, Zenon DEF RemoveConn, Move
  <2> QED BY <1>0, <2>1, ZenonT(30) DEF ServerTypes, Tracked, Alive, ConnState
<1>5. CASE ExitRun(c)
  <2>1. /\ conn[c] = "run" /\ conn' = [conn EXCEPT ![c] = "remove"] /\ emitter' = emitter \ {c}
        /\ UNCHANGED <<server, conns>>
    BY <1>5, Zenon DEF ExitRun, Move, Unregistered
  <2> QED BY <1>0, <2>1, Zenon DEF ServerTypes, Tracked, Alive, ConnState
<1> QED BY <1>1, <1>2, <1>3, <1>4, <1>5, ZenonT(60)

LEMMA TrackedStep ==
    ASSUME ServerTypes, Tracked, [CtlNext]_ctlVars
    PROVE  ServerTypes' /\ Tracked'
<1>1. CASE UNCHANGED <<server, conns, conn, emitter>>
  BY <1>1, Zenon DEF ServerTypes, Tracked, Alive
<1>2. CASE UNCHANGED ctlVars
  BY <1>1, <1>2, Zenon DEF ctlVars
<1>3. CASE Cancel
  BY <1>1, <1>3, Zenon DEF Cancel
<1>4. ASSUME NEW c \in Conns, ReadRequest(c) \/ DispatcherStep(c)
      PROVE  ServerTypes' /\ Tracked'
  BY <1>1, <1>4, Zenon DEF ReadRequest, DispatcherStep, SendRequest, Command
<1>5. ASSUME NEW c \in Conns, NEW n \in handlers[c], Handled(c, n)
      PROVE  ServerTypes' /\ Tracked'
  BY <1>1, <1>5, Zenon DEF Handled
<1> QED BY <1>2, <1>3, <1>4, <1>5, TrackedServer, TrackedMove, ZenonT(60) DEF CtlNext

\* The server and the tasks of its connections agree on who is there: shutdown finds
\* every live task in the map, and a controller in the Emitter has its Dispatcher.
THEOREM EveryConnTracked == CtlSpec => []ConnsTracked
<1>1. ServerTypes /\ Tracked => ConnsTracked
  BY Zenon DEF ServerTypes, Tracked, ConnsTracked
<1> QED BY <1>1, TrackedInit, TrackedStep, PTL DEF CtlSpec

\* A server that has stopped has no task left: shutdown waits for every connection it
\* ever accepted, also one whose task ended, or was accepted, while it began.
NoneLeft == server.pc = "stopped" => \A c \in Conns : ~Alive(c)
THEOREM StoppedLeavesNone == CtlSpec => []NoneLeft
<1>1. ServerTypes /\ Tracked => NoneLeft
  BY Zenon DEF Tracked, NoneLeft
<1> QED BY <1>1, TrackedInit, TrackedStep, PTL DEF CtlSpec

-----------------------------------------------------------------------------
(* RemoteControl: the requests *)

Cmd == [kind : {"request", "response"}, n : Nat]
TalkTypes ==
    /\ chan \in [Conns -> Seq(Cmd)]
    /\ reader \in [Conns -> [got : Nat, sending : BOOLEAN]]
    /\ handlers \in [Conns -> SUBSET Nat]
    /\ written \in [Conns -> Seq(Nat)]

\* The number of a request that the read future has let go.
Given(n, g, b) == n \in 1 .. g /\ (b => n # g)

\* A request is in one place: in the channel q, with a handler h, answered in w, or
\* still the one that the read future is sending.
Apart(q, g, b, h, w) ==
    /\ \A i \in DOMAIN q : Given(q[i].n, g, b) /\ q[i].n \notin h
    /\ \A i, j \in DOMAIN q : q[i].n = q[j].n => i = j
    /\ \A n \in h : Given(n, g, b)
    /\ \A i \in DOMAIN w : Given(w[i], g, b) /\ w[i] \notin h
    /\ \A i \in DOMAIN w, j \in DOMAIN q : w[i] # q[j].n
    /\ \A i, j \in DOMAIN w : w[i] = w[j] => i = j
    /\ b => g > 0
AllApart == \A c \in Conns : Apart(chan[c], reader[c].got, reader[c].sending, handlers[c], written[c])

LEMMA ApartRead ==
    ASSUME NEW q, NEW g \in Nat, NEW h, NEW w, Apart(q, g, FALSE, h, w)
    PROVE  Apart(q, g + 1, TRUE, h, w)
BY DEF Apart, Given

LEMMA ApartSent ==
    ASSUME NEW q \in Seq(Cmd), NEW g \in Nat, NEW h, NEW w, Apart(q, g, TRUE, h, w)
    PROVE  Apart(Append(q, Request(g)), g, FALSE, h, w) /\ Append(q, Request(g)) \in Seq(Cmd)
<1> DEFINE r == Append(q, Request(g))
<1>1. Request(g) \in Cmd /\ Request(g).n = g
  BY Zenon DEF Request, Cmd
<1>2. r \in Seq(Cmd) /\ DOMAIN r = 1 .. Len(q) + 1 /\ DOMAIN q = 1 .. Len(q) /\ Len(q) \in Nat
  BY <1>1, SMTT(30)
<1>3. r[Len(q) + 1] = Request(g) /\ \A i \in DOMAIN q : r[i] = q[i]
  BY <1>1, SMTT(30)
<1>4. \A i \in DOMAIN r : \/ i \in DOMAIN q /\ r[i] = q[i]
                          \/ i = Len(q) + 1 /\ r[i].n = g
  BY <1>1, <1>2, <1>3, SMTT(30)
<1> HIDE DEF r
<1>5. Apart(r, g, FALSE, h, w)
  BY <1>2, <1>4, SMTT(30) DEF Apart, Given
<1> QED BY <1>2, <1>5, Zenon DEF r

LEMMA ApartEmptied ==
    ASSUME NEW q, NEW g, NEW b, NEW h, NEW w, Apart(q, g, b, h, w)
    PROVE  Apart(<<>>, g, b, h, w)
<1>1. DOMAIN <<>> = {}
  OBVIOUS
<1> QED BY <1>1, Zenon DEF Apart

\* What is left of the channel when its first command is taken.
LEMMA TailOf ==
    ASSUME NEW q \in Seq(Cmd), q # <<>>
    PROVE  /\ Tail(q) \in Seq(Cmd) /\ Head(q) = q[1] /\ 1 \in DOMAIN q /\ Head(q) \in Cmd
           /\ \A i \in DOMAIN Tail(q) : i + 1 \in DOMAIN q /\ Tail(q)[i] = q[i + 1] /\ i \in Nat \ {0}
OBVIOUS

LEMMA ApartSpawned ==
    ASSUME NEW q \in Seq(Cmd), q # <<>>, NEW g \in Nat, NEW b \in BOOLEAN, NEW h, NEW w,
           Apart(q, g, b, h, w)
    PROVE  Apart(Tail(q), g, b, h \cup {Head(q).n}, w)
<1> DEFINE r == Tail(q) k == Head(q).n
<1>1. /\ k = q[1].n /\ 1 \in DOMAIN q
      /\ \A i \in DOMAIN r : i + 1 \in DOMAIN q /\ r[i] = q[i + 1] /\ i \in Nat \ {0}
  BY TailOf, Zenon
<1> HIDE DEF r, k
<1>2. Apart(r, g, b, h \cup {k}, w)
  BY <1>1 DEF Apart
<1> QED BY <1>2, Zenon DEF r, k

LEMMA ApartWritten ==
    ASSUME NEW q \in Seq(Cmd), q # <<>>, NEW g \in Nat, NEW b \in BOOLEAN, NEW h, NEW w \in Seq(Nat),
           Apart(q, g, b, h, w)
    PROVE  Apart(Tail(q), g, b, h, Append(w, Head(q).n))
<1> DEFINE r == Tail(q) k == Head(q).n v == Append(w, k)
<1>1. /\ k = q[1].n /\ 1 \in DOMAIN q /\ k \in Nat
      /\ \A i \in DOMAIN r : i + 1 \in DOMAIN q /\ r[i] = q[i + 1] /\ i \in Nat \ {0}
  BY TailOf, Zenon DEF Cmd
<1> HIDE DEF r, k
<1>2. \A i \in DOMAIN v : \/ i \in DOMAIN w /\ v[i] = w[i]
                          \/ i = Len(w) + 1 /\ v[i] = k
  BY <1>1, SMTT(30)
<1> HIDE DEF v
<1>3. /\ Given(k, g, b) /\ k \notin h
      /\ \A i \in DOMAIN w : w[i] # k
      /\ \A j \in DOMAIN r : r[j].n # k
  BY <1>1, SMTT(30) DEF Apart
<1>4. \A i, j \in DOMAIN v : v[i] = v[j] => i = j
  BY <1>2, <1>3, Zenon DEF Apart
<1>5. \A i \in DOMAIN v : Given(v[i], g, b) /\ v[i] \notin h
  BY <1>2, <1>3, Zenon DEF Apart
<1>6. \A i \in DOMAIN v, j \in DOMAIN r : v[i] # r[j].n
  BY <1>1, <1>2, <1>3, SMTT(30) DEF Apart
<1>7. /\ \A i \in DOMAIN r : Given(r[i].n, g, b) /\ r[i].n \notin h
      /\ \A i, j \in DOMAIN r : r[i].n = r[j].n => i = j
      /\ \A n \in h : Given(n, g, b)
      /\ b => g > 0
  BY <1>1, SMTT(30) DEF Apart
<1>8. Apart(r, g, b, h, v)
  BY <1>4, <1>5, <1>6, <1>7, ZenonT(60) DEF Apart
<1> QED BY <1>8, Zenon DEF r, k, v

LEMMA ApartHandled ==
    ASSUME NEW q \in Seq(Cmd), NEW g \in Nat, NEW b \in BOOLEAN, NEW h, NEW w, NEW n \in h, n \in Nat,
           Apart(q, g, b, h, w)
    PROVE  /\ Apart(Append(q, Response(n)), g, b, h \ {n}, w) /\ Append(q, Response(n)) \in Seq(Cmd)
           /\ Apart(q, g, b, h \ {n}, w)
<1> DEFINE r == Append(q, Response(n))
<1>1. Response(n) \in Cmd /\ Response(n).n = n
  BY Zenon DEF Response, Cmd
<1>2. r \in Seq(Cmd) /\ DOMAIN r = 1 .. Len(q) + 1 /\ DOMAIN q = 1 .. Len(q) /\ Len(q) \in Nat
  BY <1>1, SMTT(30)
<1>3. r[Len(q) + 1] = Response(n) /\ \A i \in DOMAIN q : r[i] = q[i]
  BY <1>1, SMTT(30)
<1>4. \A i \in DOMAIN r : \/ i \in DOMAIN q /\ r[i] = q[i]
                          \/ i = Len(q) + 1 /\ r[i].n = n
  BY <1>1, <1>2, <1>3, SMTT(30)
<1> HIDE DEF r
<1>5. Apart(r, g, b, h \ {n}, w)
  BY <1>2, <1>4, SMTT(30) DEF Apart
<1>6. Apart(q, g, b, h \ {n}, w)
  BY Zenon DEF Apart
<1> QED BY <1>2, <1>5, <1>6, Zenon DEF r

LEMMA TalkInit == CtlInit => TalkTypes /\ AllApart
<1> SUFFICES ASSUME CtlInit PROVE TalkTypes /\ AllApart
  BY Zenon
<1>1. TalkTypes
  BY DEF CtlInit, TalkTypes
<1>2. \A c \in Conns : /\ chan[c] = <<>> /\ written[c] = <<>> /\ handlers[c] = {}
                       /\ reader[c].got = 0 /\ reader[c].sending = FALSE
  BY Zenon DEF CtlInit
<1>3. DOMAIN <<>> = {}
  OBVIOUS
<1> QED BY <1>1, <1>2, <1>3, ZenonT(60) DEF AllApart, Apart

LEMMA TalkStep ==
    ASSUME TalkTypes, AllApart, [CtlNext]_ctlVars
    PROVE  TalkTypes' /\ AllApart'
<1>0. CASE UNCHANGED talk
  BY <1>0, Zenon DEF talk, TalkTypes, AllApart
<1>1. CASE UNCHANGED ctlVars
  BY <1>0, <1>1, SMTT(30) DEF ctlVars, talk
<1>2. CASE ServerStep \/ Cancel
  BY <1>0, <1>2, Zenon DEF ServerStep, Cancel, BindListener, AcceptInsert, BeginShutdown, ServerStopped,
                    AbortConn, JoinConn
<1>3. ASSUME NEW c \in Conns,
             AcceptSpawn(c) \/ ReadProtocol(c) \/ ProtocolDispatch(c) \/ RemoveConn(c)
      PROVE  TalkTypes' /\ AllApart'
  BY <1>0, <1>3, ZenonT(60) DEF AcceptSpawn, ReadProtocol, ProtocolDispatch, RemoveConn
<1>4. ASSUME NEW c \in Conns, ReadRequest(c)
      PROVE  TalkTypes' /\ AllApart'
  <2>1. /\ ~reader[c].sending /\ UNCHANGED <<chan, handlers, written>>
        /\ reader' = [reader EXCEPT ![c] = [got |-> reader[c].got + 1, sending |-> TRUE]]
    BY <1>4, Zenon DEF ReadRequest
  <2>2. /\ reader' \in [Conns -> [got : Nat, sending : BOOLEAN]]
        /\ reader'[c].got = reader[c].got + 1 /\ reader'[c].sending = TRUE
        /\ \A x \in Conns \ {c} : reader'[x] = reader[x]
    BY <2>1, SMTT(30) DEF TalkTypes
  <2>3. Apart(chan[c], reader[c].got + 1, TRUE, handlers[c], written[c])
    <3>1. reader[c].got \in Nat /\ reader[c].sending = FALSE
      BY <2>1, Zenon DEF TalkTypes
    <3> QED BY <3>1, ApartRead, Zenon DEF AllApart
  <2> QED BY <2>1, <2>2, <2>3, Zenon DEF TalkTypes, AllApart
<1>5. ASSUME NEW c \in Conns, SendRequest(c)
      PROVE  TalkTypes' /\ AllApart'
  <2>1. /\ reader[c].sending /\ UNCHANGED <<handlers, written>>
        /\ chan' = [chan EXCEPT ![c] = Append(chan[c], Request(reader[c].got))]
        /\ reader' = [reader EXCEPT ![c].sending = FALSE]
    BY <1>5, Zenon DEF SendRequest
  <2>2. /\ reader' \in [Conns -> [got : Nat, sending : BOOLEAN]]
        /\ reader'[c].got = reader[c].got /\ reader'[c].sending = FALSE
        /\ \A x \in Conns \ {c} : reader'[x] = reader[x]
    BY <2>1, Zenon DEF TalkTypes
  <2>3. /\ Apart(Append(chan[c], Request(reader[c].got)), reader[c].got, FALSE, handlers[c], written[c])
        /\ Append(chan[c], Request(reader[c].got)) \in Seq(Cmd)
    <3>1. reader[c].got \in Nat /\ reader[c].sending = TRUE /\ chan[c] \in Seq(Cmd)
      BY <2>1, Zenon DEF TalkTypes
    <3> QED BY <3>1, ApartSent, Zenon DEF AllApart
  <2> QED BY <2>1, <2>2, <2>3, ZenonT(30) DEF TalkTypes, AllApart
<1>6. ASSUME NEW c \in Conns, Command(c)
      PROVE  TalkTypes' /\ AllApart'
  <2>0. /\ chan[c] \in Seq(Cmd) /\ chan[c] # <<>> /\ reader[c].got \in Nat
        /\ reader[c].sending \in BOOLEAN /\ written[c] \in Seq(Nat) /\ handlers[c] \subseteq Nat
    BY <1>6, Zenon DEF Command, TalkTypes
  <2>1. chan' = [chan EXCEPT ![c] = Tail(chan[c])] /\ UNCHANGED reader
    BY <1>6, Zenon DEF Command
  <2>2. Tail(chan[c]) \in Seq(Cmd) /\ Head(chan[c]).n \in Nat
    BY <2>0, TailOf, Zenon DEF Cmd
  <2>3. CASE handlers' = [handlers EXCEPT ![c] = handlers[c] \cup {Head(chan[c]).n}] /\ UNCHANGED written
    <3>1. Apart(Tail(chan[c]), reader[c].got, reader[c].sending,
                handlers[c] \cup {Head(chan[c]).n}, written[c])
      BY <2>0, ApartSpawned, SMTT(30) DEF AllApart
    <3> QED BY <2>0, <2>1, <2>2, <2>3, <3>1, ZenonT(30) DEF TalkTypes, AllApart
  <2>4. CASE written' = [written EXCEPT ![c] = Append(written[c], Head(chan[c]).n)] /\ UNCHANGED handlers
    <3>1. Apart(Tail(chan[c]), reader[c].got, reader[c].sending,
                handlers[c], Append(written[c], Head(chan[c]).n))
      BY <2>0, ApartWritten, Zenon DEF AllApart
    <3>2. Append(written[c], Head(chan[c]).n) \in Seq(Nat)
      BY <2>0, <2>2, SMTT(30)
    <3> QED BY <2>0, <2>1, <2>2, <2>4, <3>1, <3>2, Zenon DEF TalkTypes, AllApart
  <2> QED BY <1>6, <2>3, <2>4, Zenon DEF Command, Spawned, WriteOwn
<1>7. ASSUME NEW c \in Conns, NEW n \in handlers[c], Handled(c, n)
      PROVE  TalkTypes' /\ AllApart'
  <2>0. /\ chan[c] \in Seq(Cmd) /\ reader[c].got \in Nat /\ n \in Nat
        /\ reader[c].sending \in BOOLEAN /\ handlers[c] \subseteq Nat
    BY Zenon DEF TalkTypes
  <2>1. handlers' = [handlers EXCEPT ![c] = handlers[c] \ {n}] /\ UNCHANGED <<reader, written>>
    BY <1>7, Zenon DEF Handled
  <2>2. /\ Apart(Append(chan[c], Response(n)), reader[c].got, reader[c].sending,
                 handlers[c] \ {n}, written[c])
        /\ Append(chan[c], Response(n)) \in Seq(Cmd)
        /\ Apart(chan[c], reader[c].got, reader[c].sending, handlers[c] \ {n}, written[c])
    BY <2>0, ApartHandled, ZenonT(40) DEF AllApart
  <2>3. CASE chan' = [chan EXCEPT ![c] = Append(chan[c], Response(n))]
    BY <2>0, <2>1, <2>2, <2>3, Zenon DEF TalkTypes, AllApart
  <2>4. CASE UNCHANGED chan
    BY <2>0, <2>1, <2>2, <2>4, ZenonT(60) DEF TalkTypes, AllApart
  <2> QED BY <1>7, <2>3, <2>4, Zenon DEF Handled
<1>8. ASSUME NEW c \in Conns, ExitRun(c)
      PROVE  TalkTypes' /\ AllApart'
  <2>1. chan' = [chan EXCEPT ![c] = <<>>] /\ UNCHANGED <<reader, handlers, written>>
    BY <1>8, Zenon DEF ExitRun
  <2>2. Apart(<<>>, reader[c].got, reader[c].sending, handlers[c], written[c])
    BY ApartEmptied, SMTT(30) DEF AllApart
  <2> QED BY <2>1, <2>2, SMTT(30) DEF TalkTypes, AllApart
<1> QED BY <1>1, <1>2, <1>3, <1>4, <1>5, <1>6, <1>7, <1>8, ZenonT(30) DEF CtlNext, DispatcherStep

\* Every response on the socket answers a request that was read, no request is
\* answered twice, and none that was answered is still waiting or being handled.
THEOREM RequestsAnsweredOnce == CtlSpec => []AnsweredOnce
<1>1. TalkTypes /\ AllApart => AnsweredOnce
  <2> SUFFICES ASSUME TalkTypes, AllApart, NEW c \in Conns
               PROVE  /\ \A i, j \in DOMAIN written[c] : written[c][i] = written[c][j] => i = j
                      /\ \A i \in DOMAIN written[c] :
                            /\ written[c][i] \in 1 .. reader[c].got
                            /\ written[c][i] \notin handlers[c]
                            /\ Request(written[c][i]) \notin Range(chan[c])
    BY Zenon DEF AnsweredOnce
  <2>1. ASSUME NEW i \in DOMAIN written[c], NEW j \in DOMAIN chan[c]
        PROVE  Request(written[c][i]) # chan[c][j]
    <3>1. Request(written[c][i]).n = written[c][i]
      BY Zenon DEF Request
    <3> QED BY <3>1 DEF AllApart, Apart
  <2> QED BY <2>1, SMTT(30) DEF AllApart, Apart, Given, Range
<1> QED BY <1>1, TalkInit, TalkStep, PTL DEF CtlSpec

-----------------------------------------------------------------------------
(* DhtScan *)

\* What holds a permit.
PermitTypes ==
    permits \subseteq Permits /\ orphans \subseteq Permits /\ queries \in [Tasks -> SUBSET Permits]

\* PermitsHeld, permit by permit.
HeldOnce ==
    \A p \in Permits :
        /\ p \in permits \/ p \in orphans \/ \E t \in Tasks : p \in queries[t]
        /\ ~(p \in permits /\ p \in orphans)
        /\ \A t \in Tasks : p \in queries[t] =>
               /\ p \notin permits /\ p \notin orphans
               /\ \A u \in Tasks : p \in queries[u] => u = t

LEMMA PermitsInit == ScanInit => PermitTypes /\ HeldOnce
BY Zenon DEF ScanInit, PermitTypes, HeldOnce

LEMMA PermitsSame ==
    ASSUME PermitTypes /\ HeldOnce, UNCHANGED <<queries, orphans, permits>>
    PROVE  (PermitTypes /\ HeldOnce)'
BY Zenon DEF PermitTypes, HeldOnce

LEMMA DropPermits ==
    ASSUME PermitTypes, HeldOnce, NEW t \in Tasks, DropFutures(t)
    PROVE  PermitTypes' /\ HeldOnce'
<1>1. PermitTypes'
  BY Zenon DEF PermitTypes, DropFutures
<1>2. /\ permits' = permits /\ orphans' = orphans \cup queries[t] /\ queries'[t] = {}
      /\ \A u \in Tasks \ {t} : queries'[u] = queries[u]
  BY Zenon DEF PermitTypes, DropFutures
<1> QED BY <1>1, <1>2, Zenon DEF HeldOnce

LEMMA PermitsStep ==
    ASSUME PermitTypes, HeldOnce, ScanNext
    PROVE  PermitTypes' /\ HeldOnce'
<1>1. ASSUME NEW t \in Tasks, Acquire(t) PROVE PermitTypes' /\ HeldOnce'
  <2>1. PICK p \in permits : /\ queries' = [queries EXCEPT ![t] = @ \cup {p}]
                             /\ permits' = permits \ {p} /\ orphans' = orphans
    BY <1>1, Zenon DEF Acquire
  <2>2. PermitTypes'
    BY <2>1, Zenon DEF PermitTypes
  <2>3. queries'[t] = queries[t] \cup {p} /\ \A u \in Tasks \ {t} : queries'[u] = queries[u]
    BY <2>1, Zenon DEF PermitTypes
  <2> QED BY <2>1, <2>2, <2>3, SMTT(30) DEF HeldOnce
<1>2. ASSUME NEW t \in Tasks, NEW p \in queries[t], Query(t, p) PROVE PermitTypes' /\ HeldOnce'
  <2>1. /\ queries' = [queries EXCEPT ![t] = @ \ {p}]
        /\ permits' = permits \cup {p} /\ orphans' = orphans /\ p \in Permits
    BY <1>2, Zenon DEF Query, Release, PermitTypes
  <2>2. PermitTypes'
    BY <2>1, Zenon DEF PermitTypes
  <2>3. queries'[t] = queries[t] \ {p} /\ \A u \in Tasks \ {t} : queries'[u] = queries[u]
    BY <2>1, Zenon DEF PermitTypes
  <2> QED BY <2>1, <2>2, <2>3, SMTT(30) DEF HeldOnce
<1>3. ASSUME NEW p \in orphans, OrphanQuery(p) PROVE PermitTypes' /\ HeldOnce'
  BY <1>3, Zenon DEF OrphanQuery, PermitTypes, HeldOnce
<1>4. ASSUME NEW t \in Tasks, Destroy(t) PROVE PermitTypes' /\ HeldOnce'
  BY <1>4, DropPermits, Zenon DEF Destroy
<1>5. ASSUME NEW t \in Tasks, Rest(t) PROVE PermitTypes' /\ HeldOnce'
  BY <1>5, DropPermits, PermitsSame, ZenonT(30) DEF Rest, queryVars
<1>6. ASSUME NEW t \in Tasks, TickScan(t) \/ SignalScan(t) \/ Top(t) \/ Choose(t) \/ Pop(t)
      PROVE  PermitTypes' /\ HeldOnce'
  BY <1>6, PermitsSame, Zenon DEF TickScan, SignalScan, Top, Choose, Pop, queryVars
<1>7. ASSUME NEW t \in Tasks, NEW r, NextResult(t, r) PROVE PermitTypes' /\ HeldOnce'
  BY <1>7, PermitsSame, Zenon DEF NextResult
<1>8. ASSUME NEW t, SendSignal(t) \/ SetFlag(t) PROVE PermitTypes' /\ HeldOnce'
  BY <1>8, PermitsSame, Zenon DEF SendSignal, SetFlag, queryVars
<1> QED BY <1>1, <1>2, <1>3, <1>4, <1>5, <1>6, <1>7, <1>8, ZenonT(30) DEF ScanNext, ScanStep

\* Every permit of gpcs is available or held by exactly one query, through scans that
\* end early or are aborted and queries that outlive them.
THEOREM PermitsNeverLost == ScanSpec => []PermitsHeld
<1>1. PermitTypes /\ HeldOnce /\ [ScanNext]_scanVars => (PermitTypes /\ HeldOnce)'
  BY PermitsStep, PermitsSame, ZenonT(30) DEF scanVars
<1>2. PermitTypes /\ HeldOnce => PermitsHeld
  BY DEF PermitTypes, HeldOnce, PermitsHeld
<1> QED BY <1>1, <1>2, PermitsInit, PTL DEF ScanSpec

\* The control state of the scans, and what their queries reported.
ScanRec == [pc : {"idle", "top", "choose", "next", "pop", "acquire", "rest", "gone"},
            queue : Nat, used : 0 .. Bootstraps, count : Nat, left : Nat]
ResultRec == [nodes : Nat, found : Nat]
ScanTypes ==
    /\ scan \in [Tasks -> ScanRec]
    /\ DOMAIN results = Tasks /\ \A t \in Tasks : DOMAIN results[t] \subseteq ResultRec
    /\ DOMAIN queries = Tasks
    /\ supply \in Nat

\* A scan that waits for the next result has a query that will deliver one, or the
\* result is there: the safety half of ScanEnds.
Awaited == \A t \in Tasks : scan[t].pc = "next" => ~NoFutures(t)

LEMMA ResultKept ==
    ASSUME NEW f, NEW r
    PROVE  f (+) SetToBag({r}) # EmptyBag /\ DOMAIN (f (+) SetToBag({r})) = DOMAIN f \cup {r}
<1>1. DOMAIN (f (+) SetToBag({r})) = DOMAIN f \cup {r}
  BY Zenon DEF (+), SetToBag
<1>2. DOMAIN EmptyBag = {}
  BY Zenon DEF EmptyBag, SetToBag
<1> QED BY <1>1, <1>2, Zenon

LEMMA ResultTaken ==
    ASSUME NEW f, NEW r
    PROVE  DOMAIN (f (-) SetToBag({r})) \subseteq DOMAIN f
BY Zenon DEF (-), SetToBag

\* g is f with a scan of task t at pc p.
IsScan(g, f, t, p) ==
    g \in [Tasks -> ScanRec] /\ g[t].pc = p /\ \A u \in Tasks \ {t} : g[u] = f[u]

LEMMA GotoScan ==
    ASSUME ScanTypes, NEW t \in Tasks, NEW p \in {"idle", "choose", "next", "pop", "top", "gone"},
           Goto(t, p)
    PROVE  IsScan(scan', scan, t, p)
BY ZenonT(30) DEF ScanTypes, Goto, IsScan, ScanRec

LEMMA BeginScan ==
    ASSUME ScanTypes, NEW t \in Tasks, Begin(t)
    PROVE  \E p \in {"idle", "top"} : IsScan(scan', scan, t, p)
<1>1. PICK enough \in BOOLEAN, n \in 0 .. Closest :
          scan' = [scan EXCEPT ![t] =
                    [scan[t] EXCEPT !.pc = IF enough THEN "idle" ELSE "top", !.left = @ - 1,
                                    !.queue = IF enough THEN 0 ELSE n, !.used = 0, !.count = 0]]
  BY Zenon DEF Begin
<1> DEFINE p == IF enough THEN "idle" ELSE "top"
           q == IF enough THEN 0 ELSE n
           l == scan[t].left - 1
           r == [scan[t] EXCEPT !.pc = p, !.left = l, !.queue = q, !.used = 0, !.count = 0]
<1>2. p \in {"idle", "top"} /\ q \in Nat /\ 0 \in 0 .. Bootstraps
  BY DhtScanAssumption, SMTT(30)
<1>3. l \in Nat /\ scan[t] \in ScanRec
  BY DEF Begin, ScanTypes, ScanRec
<1>4. scan' = [scan EXCEPT ![t] = r]
  BY <1>1, ZenonT(60)
<1> HIDE DEF p, q, l
<1>5. r \in ScanRec /\ r.pc = p
  BY <1>2, <1>3, ZenonT(60) DEF ScanRec
<1> HIDE DEF r
<1> QED BY <1>2, <1>4, <1>5, Zenon DEF ScanTypes, IsScan

LEMMA TopScan ==
    ASSUME ScanTypes, NEW t \in Tasks, Top(t)
    PROVE  IsScan(scan', scan, t, "choose")
<1>0. scan \in [Tasks -> ScanRec]
  BY Zenon DEF ScanTypes
<1>1. ASSUME NEW u \in 0 .. Bootstraps,
             scan' = [scan EXCEPT ![t].used = u, ![t].queue = 1, ![t].pc = "choose"]
      PROVE  IsScan(scan', scan, t, "choose")
  BY <1>0, <1>1, ZenonT(60) DEF IsScan, ScanRec
<1>2. ASSUME NEW u \in 0 .. Bootstraps, scan' = [scan EXCEPT ![t].used = u, ![t].pc = "choose"]
      PROVE  IsScan(scan', scan, t, "choose")
  BY <1>0, <1>2, ZenonT(60) DEF IsScan, ScanRec
<1>3. /\ Bootstraps \in 0 .. Bootstraps
      /\ scan[t].used + 1 .. Bootstraps \subseteq 0 .. Bootstraps
  BY <1>0, DhtScanAssumption, SMTT(30) DEF ScanRec
<1> QED BY <1>1, <1>2, <1>3, GotoScan, ZenonT(60) DEF Top

LEMMA NextScan ==
    ASSUME ScanTypes, NEW t \in Tasks, NEW r \in ResultRec, NextResult(t, r)
    PROVE  \E p \in {"rest", "pop"} : IsScan(scan', scan, t, p)
<1> DEFINE p == IF scan[t].count + r.found >= Expect THEN "rest" ELSE "pop"
           q == scan[t].queue + r.nodes
           n == scan[t].count + r.found
           x == [scan[t] EXCEPT !.queue = q, !.count = n, !.pc = p]
<1>0. scan \in [Tasks -> ScanRec] /\ scan[t] \in ScanRec
  BY Zenon DEF ScanTypes
<1>1. p \in {"rest", "pop"} /\ q \in Nat /\ n \in Nat
  BY <1>0, SMTT(30) DEF ScanRec, ResultRec
<1>2. scan' = [scan EXCEPT ![t] = x]
  BY Zenon DEF NextResult
<1> HIDE DEF p, q, n
<1>3. x \in ScanRec /\ x.pc = p
  BY <1>0, <1>1, Zenon DEF ScanRec
<1> HIDE DEF x
<1> QED BY <1>0, <1>1, <1>2, <1>3, ZenonT(60) DEF IsScan

LEMMA QueueScan ==
    ASSUME ScanTypes, NEW t \in Tasks, scan[t].queue > 0, NEW p \in {"acquire", "rest"},
           \/ scan' = [scan EXCEPT ![t].queue = @ - 1, ![t].pc = p]
           \/ scan' = [scan EXCEPT ![t].queue = @ - 1] /\ scan[t].pc = p
    PROVE  IsScan(scan', scan, t, p)
<1> DEFINE q == scan[t].queue - 1
<1>0. scan \in [Tasks -> ScanRec] /\ q \in Nat
  BY DEF ScanTypes, ScanRec
<1>1. CASE scan' = [scan EXCEPT ![t].queue = @ - 1, ![t].pc = p]
  <2>1. scan' = [scan EXCEPT ![t].queue = q, ![t].pc = p]
    BY <1>1, Zenon
  <2> HIDE DEF q
  <2> QED BY <1>0, <2>1, SMTT(30) DEF IsScan, ScanRec
<1>2. CASE scan' = [scan EXCEPT ![t].queue = @ - 1] /\ scan[t].pc = p
  <2>1. scan' = [scan EXCEPT ![t].queue = q] /\ scan[t].pc = p
    BY <1>2, Zenon
  <2> HIDE DEF q
  <2> QED BY <1>0, <2>1, ZenonT(30) DEF IsScan, ScanRec
<1> QED BY <1>1, <1>2, Zenon

\* A step of the scan of t that leaves it at another place than next() and drops
\* nobody else's futures.
LEMMA ElsewhereAwaited ==
    ASSUME ScanTypes, Awaited, NEW t \in Tasks, NEW p, p # "next", IsScan(scan', scan, t, p),
           \A u \in Tasks \ {t} : queries'[u] = queries[u] /\ results'[u] = results[u]
    PROVE  Awaited'
BY Zenon DEF Awaited, IsScan, NoFutures

LEMMA ScanStepInv ==
    ASSUME ScanTypes, Awaited, ScanNext
    PROVE  ScanTypes' /\ Awaited'
<1> USE DEF queryVars, flagVars
<1>0. DOMAIN results = Tasks /\ DOMAIN queries = Tasks /\ supply \in Nat
  BY Zenon DEF ScanTypes
<1>1. ASSUME NEW t \in Tasks, TickScan(t) \/ SignalScan(t) PROVE ScanTypes' /\ Awaited'
  <2>1. PICK p \in {"idle", "top"} : IsScan(scan', scan, t, p)
    BY <1>1, BeginScan, ZenonT(30) DEF TickScan, SignalScan
  <2>2. UNCHANGED <<queries, results, supply>>
    BY <1>1, Zenon DEF TickScan, SignalScan
  <2> QED BY <2>1, <2>2, ElsewhereAwaited, ZenonT(30) DEF ScanTypes, IsScan
<1>2. ASSUME NEW t \in Tasks, Top(t) PROVE ScanTypes' /\ Awaited'
  <2>1. IsScan(scan', scan, t, "choose")
    BY <1>2, TopScan, ZenonT(30)
  <2>2. UNCHANGED <<queries, results, supply>>
    BY <1>2, Zenon DEF Top
  <2> QED BY <2>1, <2>2, ElsewhereAwaited, ZenonT(30) DEF ScanTypes, IsScan
<1>3. ASSUME NEW t \in Tasks, Choose(t) PROVE ScanTypes' /\ Awaited'
  <2>1. UNCHANGED <<queries, results, supply>>
    BY <1>3, Zenon DEF Choose
  <2>2. CASE Await(t)
    <3>1. IsScan(scan', scan, t, "next")
      BY <1>3, <2>2, GotoScan, ZenonT(30) DEF Choose
    <3>2. ~NoFutures(t)
      BY <2>2, Zenon DEF Await
    <3> QED BY <2>1, <3>1, <3>2, ZenonT(30) DEF ScanTypes, IsScan, Awaited, NoFutures
  <2>3. CASE ~Await(t)
    <3>1. IsScan(scan', scan, t, "pop")
      BY <1>3, <2>3, GotoScan, ZenonT(30) DEF Choose
    <3> QED BY <2>1, <3>1, ElsewhereAwaited, ZenonT(30) DEF ScanTypes, IsScan
  <2> QED BY <2>2, <2>3, ZenonT(30)
<1>4. ASSUME NEW t \in Tasks, NEW r \in BagToSet(results[t]), NextResult(t, r)
      PROVE  ScanTypes' /\ Awaited'
  <2>0. r \in ResultRec
    BY Zenon DEF BagToSet, ScanTypes
  <2>1. PICK p \in {"rest", "pop"} : IsScan(scan', scan, t, p)
    BY <1>4, <2>0, NextScan, ZenonT(30)
  <2>2. /\ queries' = queries /\ supply' = supply
        /\ DOMAIN results' = Tasks /\ results'[t] = results[t] (-) SetToBag({r})
        /\ \A u \in Tasks \ {t} : results'[u] = results[u]
    BY <1>0, <1>4, ZenonT(30) DEF NextResult
  <2>3. DOMAIN results'[t] \subseteq ResultRec
    BY <2>2, ResultTaken, ZenonT(30) DEF ScanTypes
  <2>4. Awaited'
    BY <2>1, <2>2, ElsewhereAwaited, ZenonT(30)
  <2> QED BY <2>1, <2>2, <2>3, <2>4, ZenonT(30) DEF ScanTypes, IsScan
<1>5. ASSUME NEW t \in Tasks, Pop(t) PROVE ScanTypes' /\ Awaited'
  <2>1. UNCHANGED <<queries, results, supply>>
    BY <1>5, Zenon DEF Pop
  <2>2. PICK p \in {"acquire", "idle", "top"} : IsScan(scan', scan, t, p)
    BY <1>5, QueueScan, GotoScan, ZenonT(30) DEF Pop
  <2> QED BY <2>1, <2>2, ElsewhereAwaited, ZenonT(30) DEF ScanTypes, IsScan
<1>6. ASSUME NEW t \in Tasks, Acquire(t) PROVE ScanTypes' /\ Awaited'
  <2>1. IsScan(scan', scan, t, "top")
    BY <1>6, GotoScan, ZenonT(30) DEF Acquire
  <2>2. /\ UNCHANGED <<results, supply>> /\ DOMAIN queries' = Tasks
        /\ \A u \in Tasks \ {t} : queries'[u] = queries[u]
    BY <1>0, <1>6, ZenonT(30) DEF Acquire
  <2> QED BY <2>1, <2>2, ElsewhereAwaited, ZenonT(30) DEF ScanTypes, IsScan
<1>7. ASSUME NEW t \in Tasks, DropFutures(t), NEW p, p # "next", IsScan(scan', scan, t, p)
      PROVE  ScanTypes' /\ Awaited'
  <2>1. /\ supply' = supply /\ DOMAIN queries' = Tasks /\ DOMAIN results' = Tasks
        /\ results'[t] = EmptyBag
        /\ \A u \in Tasks \ {t} : queries'[u] = queries[u] /\ results'[u] = results[u]
    BY <1>0, <1>7, ZenonT(30) DEF DropFutures
  <2>2. DOMAIN EmptyBag = {}
    BY Zenon DEF EmptyBag, SetToBag
  <2>3. Awaited'
    BY <1>7, <2>1, ElsewhereAwaited, ZenonT(30)
  <2> QED BY <1>7, <2>1, <2>2, <2>3, ZenonT(30) DEF ScanTypes, IsScan
<1>8. ASSUME NEW t \in Tasks, Destroy(t) PROVE ScanTypes' /\ Awaited'
  BY <1>7, <1>8, GotoScan, ZenonT(30) DEF Destroy
<1>9. ASSUME NEW t \in Tasks, Rest(t) PROVE ScanTypes' /\ Awaited'
  <2>1. CASE scan[t].queue > 0
    <3>1. IsScan(scan', scan, t, "rest")
      BY <1>9, <2>1, QueueScan, ZenonT(30) DEF Rest
    <3>2. UNCHANGED <<queries, results, supply>>
      BY <1>9, <2>1, Zenon DEF Rest
    <3> QED BY <3>1, <3>2, ElsewhereAwaited, ZenonT(30) DEF ScanTypes, IsScan
  <2>2. CASE ~(scan[t].queue > 0)
    BY <1>7, <1>9, <2>2, GotoScan, ZenonT(30) DEF Rest
  <2> QED BY <2>1, <2>2, ZenonT(30)
<1>10. ASSUME NEW t \in Tasks, NEW p \in queries[t], Query(t, p) PROVE ScanTypes' /\ Awaited'
  <2>1. PICK n \in 0 .. Min({2, supply}), v \in 0 .. 1 :
            /\ results' = [results EXCEPT ![t] = @ (+) SetToBag({[nodes |-> n, found |-> v]})]
            /\ supply' = supply - n
    BY <1>10, Zenon DEF Query
  <2>2. n \in Nat /\ supply - n \in Nat
    <3>1. Min({2, supply}) \in Nat /\ Min({2, supply}) <= supply
      BY <1>0, SMTT(30) DEF Min
    <3> QED BY <1>0, <3>1, SMTT(30)
  <2> DEFINE r == [nodes |-> n, found |-> v]
  <2>3. r \in ResultRec
    BY <2>2, SMTT(30) DEF ResultRec
  <2>4. /\ DOMAIN results' = Tasks /\ results'[t] = results[t] (+) SetToBag({r})
        /\ \A u \in Tasks \ {t} : results'[u] = results[u]
    BY <1>0, <2>1, ZenonT(30)
  <2> HIDE DEF r
  <2>5. DOMAIN results'[t] = DOMAIN results[t] \cup {r} /\ results'[t] # EmptyBag
    BY <2>4, ResultKept, ZenonT(30)
  <2>6. /\ scan' = scan /\ DOMAIN queries' = Tasks
        /\ \A u \in Tasks \ {t} : queries'[u] = queries[u]
    BY <1>0, <1>10, ZenonT(30) DEF Query
  <2>7. ScanTypes'
    BY <2>1, <2>2, <2>3, <2>4, <2>5, <2>6, ZenonT(30) DEF ScanTypes
  <2> QED BY <2>4, <2>5, <2>6, <2>7, ZenonT(30) DEF Awaited, NoFutures
<1>11. ASSUME NEW p, OrphanQuery(p) PROVE ScanTypes' /\ Awaited'
  BY <1>11, ZenonT(60) DEF OrphanQuery, ScanTypes, Awaited, NoFutures
<1>12. ASSUME NEW t, SendSignal(t) \/ SetFlag(t) PROVE ScanTypes' /\ Awaited'
  BY <1>12, Zenon DEF SendSignal, SetFlag, ScanTypes, Awaited, NoFutures
<1> QED BY <1>1, <1>2, <1>3, <1>4, <1>5, <1>6, <1>8, <1>9, <1>10, <1>11, <1>12, ZenonT(30)
        DEF ScanNext, ScanStep

\* find_peers calls next() on its futures only while one of them is left: a scan never
\* waits for a result that no query will deliver.
THEOREM NeverWaitsForNothing == ScanSpec => []Awaited
<1>1. ScanInit => ScanTypes /\ Awaited
  <2>1. DOMAIN EmptyBag = {}
    BY Zenon DEF EmptyBag, SetToBag
  <2>2. Idle \in ScanRec /\ Idle.pc = "idle"
    BY DhtScanAssumption, SMTT(30) DEF Idle, ScanRec
  <2> QED BY <2>1, <2>2, DhtScanAssumption, ZenonT(30) DEF ScanInit, ScanTypes, Awaited
<1>2. ScanTypes /\ Awaited /\ [ScanNext]_scanVars => (ScanTypes /\ Awaited)'
  <2>1. CASE UNCHANGED scanVars
    BY <2>1, Zenon DEF scanVars, ScanTypes, Awaited, NoFutures
  <2> QED BY <2>1, ScanStepInv, Zenon
<1> QED BY <1>1, <1>2, PTL DEF ScanSpec
=============================================================================
