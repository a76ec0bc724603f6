----------------------------- MODULE TaskProofs -----------------------------
(***************************************************************************)
(* From a feed to the peers of a download, for every set of feeds, callers *)
(* and addresses and every size of the pool and of the queues.             *)
(* Subscription: a torrent is started once, no connection of the database  *)
(* is lost, and a pool with two connections more than feeds are refreshed  *)
(* at once never waits for itself.  ContentDispatch: an address has one    *)
(* holder, and the connections stay within their limit.                    *)
(***************************************************************************)
EXTENDS Subscription, ContentDispatch, PeerLaunchProofs

-----------------------------------------------------------------------------
(* Subscription: the record of a worker *)

\* A worker has the fields of IdleWorker.
IsWorker(r) ==
    r = [pc |-> r.pc, feed |-> r.feed, snap |-> r.snap, got |-> r.got, items |-> r.items,
         read |-> r.read, torrent |-> r.torrent, held |-> r.held]
WorkerTypes == worker = [w \in Workers |-> worker[w]] /\ \A w \in Workers : IsWorker(worker[w])

\* g differs from f in the worker w alone, which has then the pc, torrent and held given.
IsWork(g, f, w, p, t, k) ==
    /\ g = [x \in Workers |-> g[x]] /\ \A x \in Workers : IsWorker(g[x])
    /\ \A x \in Workers \ {w} : g[x] = f[x]
    /\ g[w].pc = p /\ g[w].torrent = t /\ g[w].held = k

LEMMA WorkSets ==
    ASSUME WorkerTypes, NEW w \in Workers, NEW r, IsWorker(r)
    PROVE  IsWork([worker EXCEPT ![w] = r], worker, w, r.pc, r.torrent, r.held)
BY Zenon DEF WorkerTypes, IsWork

\* What an assignment to fields of the record leaves.
Kept(s, p, t, k) == IsWorker(s) /\ s.pc = p /\ s.torrent = t /\ s.held = k

LEMMA RecPc ==
    ASSUME NEW r, IsWorker(r), NEW v
    PROVE  Kept([r EXCEPT !.pc = v], v, r.torrent, r.held)
BY DEF IsWorker, Kept

LEMMA RecFeed ==
    ASSUME NEW r, IsWorker(r), NEW v
    PROVE  Kept([r EXCEPT !.feed = v], r.pc, r.torrent, r.held)
BY DEF IsWorker, Kept

LEMMA RecGot ==
    ASSUME NEW r, IsWorker(r), NEW v
    PROVE  Kept([r EXCEPT !.got = v], r.pc, r.torrent, r.held)
BY DEF IsWorker, Kept

LEMMA RecItems ==
    ASSUME NEW r, IsWorker(r), NEW v
    PROVE  Kept([r EXCEPT !.items = v], r.pc, r.torrent, r.held)
BY DEF IsWorker, Kept

LEMMA RecRead ==
    ASSUME NEW r, IsWorker(r), NEW v
    PROVE  Kept([r EXCEPT !.read = v], r.pc, r.torrent, r.held)
BY DEF IsWorker, Kept

LEMMA RecTorrent ==
    ASSUME NEW r, IsWorker(r), NEW v
    PROVE  Kept([r EXCEPT !.torrent = v], r.pc, v, r.held)
BY DEF IsWorker, Kept

LEMMA RecHeld ==
    ASSUME NEW r, IsWorker(r), NEW v
    PROVE  Kept([r EXCEPT !.held = v], r.pc, r.torrent, v)
BY DEF IsWorker, Kept

LEMMA RecSubscribes ==
    ASSUME NEW r, IsWorker(r), NEW p, NEW f
    PROVE  Kept([r EXCEPT !.pc = p, !.feed = f], p, r.torrent, r.held)
<1> DEFINE s == [r EXCEPT !.pc = p]
<1>1. [r EXCEPT !.pc = p, !.feed = f] = [s EXCEPT !.feed = f]
  BY Zenon
<1>2. Kept(s, p, r.torrent, r.held)
  BY RecPc, Zenon
<1> HIDE DEF s
<1>3. IsWorker(s)
  BY <1>2, Zenon DEF Kept
<1>4. Kept([s EXCEPT !.feed = f], s.pc, s.torrent, s.held)
  BY <1>3, RecFeed, Zenon
<1> QED BY <1>1, <1>2, <1>4, Zenon DEF Kept

LEMMA RecAims ==
    ASSUME NEW r, IsWorker(r), NEW p, NEW t
    PROVE  Kept([r EXCEPT !.pc = p, !.torrent = t], p, t, r.held)
<1> DEFINE s == [r EXCEPT !.pc = p]
<1>1. [r EXCEPT !.pc = p, !.torrent = t] = [s EXCEPT !.torrent = t]
  BY Zenon
<1>2. Kept(s, p, r.torrent, r.held)
  BY RecPc, Zenon
<1> HIDE DEF s
<1>3. IsWorker(s)
  BY <1>2, Zenon DEF Kept
<1>4. Kept([s EXCEPT !.torrent = t], s.pc, t, s.held)
  BY <1>3, RecTorrent, Zenon
<1> QED BY <1>1, <1>2, <1>4, Zenon DEF Kept

LEMMA RecGets ==
    ASSUME NEW r, IsWorker(r), NEW p, NEW v
    PROVE  Kept([r EXCEPT !.got = v, !.pc = p], p, r.torrent, r.held)
<1> DEFINE s == [r EXCEPT !.got = v]
<1>1. [r EXCEPT !.got = v, !.pc = p] = [s EXCEPT !.pc = p]
  BY Zenon
<1>2. Kept(s, r.pc, r.torrent, r.held)
  BY RecGot, Zenon
<1> HIDE DEF s
<1>3. IsWorker(s)
  BY <1>2, Zenon DEF Kept
<1>4. Kept([s EXCEPT !.pc = p], p, s.torrent, s.held)
  BY <1>3, RecPc, Zenon
<1> QED BY <1>1, <1>2, <1>4, Zenon DEF Kept

LEMMA RecHolds ==
    ASSUME NEW r, IsWorker(r), NEW p, NEW k
    PROVE  Kept([r EXCEPT !.pc = p, !.held = k], p, r.torrent, k)
<1> DEFINE s == [r EXCEPT !.pc = p]
<1>1. [r EXCEPT !.pc = p, !.held = k] = [s EXCEPT !.held = k]
  BY Zenon
<1>2. Kept(s, p, r.torrent, r.held)
  BY RecPc, Zenon
<1> HIDE DEF s
<1>3. IsWorker(s)
  BY <1>2, Zenon DEF Kept
<1>4. Kept([s EXCEPT !.held = k], s.pc, s.torrent, k)
  BY <1>3, RecHeld, Zenon
<1> QED BY <1>1, <1>2, <1>4, Zenon DEF Kept

LEMMA RecTakes ==
    ASSUME NEW r, IsWorker(r), NEW p, NEW q
    PROVE  Kept([r EXCEPT !.pc = p, !.items = q], p, r.torrent, r.held)
<1> DEFINE s == [r EXCEPT !.pc = p]
<1>1. [r EXCEPT !.pc = p, !.items = q] = [s EXCEPT !.items = q]
  BY Zenon
<1>2. Kept(s, p, r.torrent, r.held)
  BY RecPc, Zenon
<1> HIDE DEF s
<1>3. IsWorker(s)
  BY <1>2, Zenon DEF Kept
<1>4. Kept([s EXCEPT !.items = q], s.pc, s.torrent, s.held)
  BY <1>3, RecItems, Zenon
<1> QED BY <1>1, <1>2, <1>4, Zenon DEF Kept

LEMMA RecLists ==
    ASSUME NEW r, IsWorker(r), NEW p, NEW q, NEW d
    PROVE  Kept([r EXCEPT !.pc = p, !.items = q, !.read = d], p, r.torrent, r.held)
<1> DEFINE s == [r EXCEPT !.pc = p, !.items = q]
<1>1. [r EXCEPT !.pc = p, !.items = q, !.read = d] = [s EXCEPT !.read = d]
  BY Zenon
<1>2. Kept(s, p, r.torrent, r.held)
  BY RecTakes, Zenon
<1> HIDE DEF s
<1>3. IsWorker(s)
  BY <1>2, Zenon DEF Kept
<1>4. Kept([s EXCEPT !.read = d], s.pc, s.torrent, s.held)
  BY <1>3, RecRead, Zenon
<1> QED BY <1>1, <1>2, <1>4, Zenon DEF Kept

LEMMA WorkMoves ==
    ASSUME WorkerTypes, NEW w \in Workers, NEW p
    PROVE  IsWork([worker EXCEPT ![w].pc = p], worker, w, p, worker[w].torrent, worker[w].held)
<1>1. IsWorker(worker[w])
  BY Zenon DEF WorkerTypes
<1> DEFINE r == [worker[w] EXCEPT !.pc = p]
<1>2. [worker EXCEPT ![w].pc = p] = [worker EXCEPT ![w] = r]
  BY Zenon DEF WorkerTypes
<1>3. Kept(r, p, worker[w].torrent, worker[w].held)
  BY <1>1, RecPc, Zenon
<1> HIDE DEF r
<1> QED BY <1>2, <1>3, WorkSets, Zenon DEF Kept

LEMMA WorkSubscribes ==
    ASSUME WorkerTypes, NEW w \in Workers, NEW p, NEW f
    PROVE  IsWork([worker EXCEPT ![w].pc = p, ![w].feed = f], worker, w, p, worker[w].torrent, worker[w].held)
<1>1. IsWorker(worker[w])
  BY Zenon DEF WorkerTypes
<1> DEFINE r == [worker[w] EXCEPT !.pc = p, !.feed = f]
<1>2. [worker EXCEPT ![w].pc = p, ![w].feed = f] = [worker EXCEPT ![w] = r]
  BY Zenon DEF WorkerTypes
<1>3. Kept(r, p, worker[w].torrent, worker[w].held)
  BY <1>1, RecSubscribes, Zenon
<1> HIDE DEF r
<1> QED BY <1>2, <1>3, WorkSets DEF Kept

LEMMA WorkAims ==
    ASSUME WorkerTypes, NEW w \in Workers, NEW p, NEW t
    PROVE  IsWork([worker EXCEPT ![w].pc = p, ![w].torrent = t], worker, w, p, t, worker[w].held)
<1>1. IsWorker(worker[w])
  BY Zenon DEF WorkerTypes
<1> DEFINE r == [worker[w] EXCEPT !.pc = p, !.torrent = t]
<1>2. [worker EXCEPT ![w].pc = p, ![w].torrent = t] = [worker EXCEPT ![w] = r]
  BY Zenon DEF WorkerTypes
<1>3. Kept(r, p, t, worker[w].held)
  BY <1>1, RecAims, Zenon
<1> HIDE DEF r
<1> QED BY <1>2, <1>3, WorkSets DEF Kept

LEMMA WorkGets ==
    ASSUME WorkerTypes, NEW w \in Workers, NEW p, NEW v
    PROVE  IsWork([worker EXCEPT ![w].got = v, ![w].pc = p], worker, w, p, worker[w].torrent, worker[w].held)
<1>1. IsWorker(worker[w])
  BY Zenon DEF WorkerTypes
<1> DEFINE r == [worker[w] EXCEPT !.got = v, !.pc = p]
<1>2. [worker EXCEPT ![w].got = v, ![w].pc = p] = [worker EXCEPT ![w] = r]
  BY Zenon DEF WorkerTypes
<1>3. Kept(r, p, worker[w].torrent, worker[w].held)
  BY <1>1, RecGets, Zenon
<1> HIDE DEF r
<1> QED BY <1>2, <1>3, WorkSets, SMTT(30) DEF Kept

LEMMA WorkHolds ==
    ASSUME WorkerTypes, NEW w \in Workers, NEW p, NEW k
    PROVE  IsWork([worker EXCEPT ![w].pc = p, ![w].held = k], worker, w, p, worker[w].torrent, k)
<1>1. IsWorker(worker[w])
  BY Zenon DEF WorkerTypes
<1> DEFINE r == [worker[w] EXCEPT !.pc = p, !.held = k]
<1>2. [worker EXCEPT ![w].pc = p, ![w].held = k] = [worker EXCEPT ![w] = r]
  BY Zenon DEF WorkerTypes
<1>3. Kept(r, p, worker[w].torrent, k)
  BY <1>1, RecHolds, Zenon
<1> HIDE DEF r
<1> QED BY <1>2, <1>3, WorkSets, Zenon DEF Kept

LEMMA WorkLists ==
    ASSUME WorkerTypes, NEW w \in Workers, NEW p, NEW q, NEW d
    PROVE  IsWork([worker EXCEPT ![w] = [worker[w] EXCEPT !.pc = p, !.items = q, !.read = d]], worker, w, p,
                  worker[w].torrent, worker[w].held)
<1>1. IsWorker(worker[w])
  BY Zenon DEF WorkerTypes
<1> DEFINE r == [worker[w] EXCEPT !.pc = p, !.items = q, !.read = d]
<1>2. Kept(r, p, worker[w].torrent, worker[w].held)
  BY <1>1, RecLists, Zenon
<1> HIDE DEF r
<1>3. IsWork([worker EXCEPT ![w] = r], worker, w, p, worker[w].torrent, worker[w].held)
  BY <1>2, WorkSets, Zenon DEF Kept
<1> QED BY <1>3, Zenon DEF r

LEMMA WorkItems ==
    ASSUME WorkerTypes, NEW w \in Workers, NEW p, NEW q
    PROVE  IsWork([worker EXCEPT ![w].pc = p, ![w].items = q], worker, w, p, worker[w].torrent, worker[w].held)
<1>1. IsWorker(worker[w])
  BY Zenon DEF WorkerTypes
<1> DEFINE r == [worker[w] EXCEPT !.pc = p, !.items = q]
<1>2. [worker EXCEPT ![w].pc = p, ![w].items = q] = [worker EXCEPT ![w] = r]
  BY Zenon DEF WorkerTypes
<1>3. Kept(r, p, worker[w].torrent, worker[w].held)
  BY <1>1, RecTakes, Zenon
<1> HIDE DEF r
<1> QED BY <1>2, <1>3, WorkSets DEF Kept

LEMMA WorkReturns ==
    ASSUME WorkerTypes, NEW w \in Workers
    PROVE  IsWork([worker EXCEPT ![w] = IdleWorker], worker, w, "idle", NoTorrent, 0)
<1>1. Kept(IdleWorker, "idle", NoTorrent, 0)
  BY Zenon DEF IdleWorker, Kept, IsWorker
<1> QED BY <1>1, WorkSets, Zenon DEF Kept

-----------------------------------------------------------------------------
(* Subscription: the inductive invariant *)

BootPc == {"init", "list", "load", "done"}
SubTypes ==
    /\ WorkerTypes
    /\ running \in [Torrents -> Nat]
    /\ boot = [pc |-> boot.pc, todo |-> boot.todo] /\ boot.pc \in BootPc
    /\ refresher = [pc |-> refresher.pc, todo |-> refresher.todo, rounds |-> refresher.rounds]
    /\ refresher.pc \in {"idle", "spawn"}
    /\ free \in Nat /\ dht_conn \in {0, 1}

\* A feed's worker takes the connection when it stores the hash, and a caller keeps none.
HoldOK(w) ==
    /\ worker[w].held \in {0, 1}
    /\ worker[w].held = 1 => w \in Feeds
    /\ worker[w].pc \in {"idle", "new", "fetch", "update", "add_subscribe"} => worker[w].held = 0
    /\ w \in Callers => worker[w].pc # "update"
    /\ w \in Feeds => worker[w].pc # "new"

\* The feeds flush only between the two ends of a refresh, at most Concurrency of
\* them, and none is spawned while it runs; the start-up is over by then.
Pool ==
    /\ free + Held = PoolLimit
    /\ \A w \in Workers : HoldOK(w)
    /\ Cardinality(Flushing) <= Concurrency
    /\ refresher.pc = "idle" => Flushing = {}
    /\ refresher.pc = "spawn" =>
          /\ boot.pc = "done"
          /\ \A f \in Feeds : f \in DOMAIN refresher.todo => worker[f].pc = "idle"

\* The row of a torrent is inserted by one worker; that worker, or the start-up when
\* it finds the row, starts the task, and nobody else does.
Starts(w, t) == worker[w].pc = "start" /\ worker[w].torrent = t
Begun(t) ==
    /\ running[t] <= 1
    /\ running[t] > 0 => t \in torrents /\ boot.pc \in {"load", "done"}
    /\ \A w \in Workers : Starts(w, t) =>
          /\ running[t] = 0 /\ t \in torrents /\ boot.pc \in {"load", "done"}
          /\ boot.pc = "load" => t \notin boot.todo
    /\ \A w, v \in Workers : Starts(w, t) /\ Starts(v, t) => w = v
    /\ boot.pc = "load" /\ t \in boot.todo => running[t] = 0 /\ t \in torrents
Once == \A t \in Torrents : t \notin doubled => Begun(t)

-----------------------------------------------------------------------------
(* Subscription: a step of a worker *)

\* The step changes the worker w alone, which has then the pc p and k connections.
Change(w, p, k) ==
    /\ IsWork(worker', worker, w, worker'[w].pc, worker'[w].torrent, worker'[w].held)
    /\ worker'[w].pc = p /\ worker'[w].held = k

\* What a step of the worker w changes of the pool.
WorkStep(w) ==
    /\ IsWork(worker', worker, w, worker'[w].pc, worker'[w].torrent, worker'[w].held)
    /\ worker[w].pc # "idle"
    /\ HoldOK(w)'
    /\ free' + worker'[w].held = free + worker[w].held /\ free' \in Nat
    /\ UNCHANGED <<refresher, boot, dht_conn>>

LEMMA WorkChange ==
    ASSUME NEW w \in Workers, NEW p, NEW t, NEW k, IsWork(worker', worker, w, p, t, k)
    PROVE  Change(w, p, k) /\ worker'[w].torrent = t
BY Zenon DEF Change, IsWork

LEMMA ReturnStep ==
    ASSUME SubTypes, Pool, NEW w \in Workers, worker[w].pc # "idle", Return(w),
           UNCHANGED <<refresher, boot, dht_conn>>
    PROVE  WorkStep(w) /\ worker'[w].pc = "idle"
<1>1. IsWork(worker', worker, w, "idle", NoTorrent, 0)
  BY WorkReturns, Zenon DEF Return, SubTypes
<1>2. free' = free + worker[w].held /\ worker[w].held \in {0, 1}
  BY Zenon DEF Return, Pool, HoldOK
<1> QED BY <1>1, <1>2 DEF WorkStep, IsWork, HoldOK, SubTypes

\* A step that keeps the connections as they are, to a pc at which one may be held.
LEMMA KeepStep ==
    ASSUME SubTypes, Pool, NEW w \in Workers, worker[w].pc # "idle",
           NEW p \in {"list_read", "items", "load", "mark_read", "add_torrent", "start"},
           Change(w, p, worker[w].held),
           UNCHANGED <<free, refresher, boot, dht_conn>>
    PROVE  WorkStep(w)
<1>1. HoldOK(w)
  BY Zenon DEF Pool
<1> QED BY <1>1, Zenon DEF WorkStep, Change, HoldOK, SubTypes

\* A step of a worker that holds none, and goes on without.
LEMMA BareStep ==
    ASSUME SubTypes, Pool, NEW w \in Workers, worker[w].pc # "idle", worker[w].held = 0,
           NEW p, p # "new", w \in Callers => p # "update", Change(w, p, 0),
           UNCHANGED <<free, refresher, boot, dht_conn>>
    PROVE  WorkStep(w)
BY DEF WorkStep, Change, HoldOK, SubTypes

\* The calls and the steps up to the torrent's row start nothing.
LEMMA QuietWork ==
    ASSUME SubTypes, Pool, NEW w \in Workers,
           \/ \E f \in Feeds : CallSubscribe(w, f)
           \/ \E t \in Torrents : CallAddTask(w, t)
           \/ Fetch(w) \/ UpdateSubscribe(w) \/ AddSubscribe(w) \/ ListRead(w) \/ NextItem(w)
           \/ Load(w) \/ MarkRead(w)
    PROVE  WorkStep(w) /\ worker'[w].pc # "start" /\ UNCHANGED <<torrents, running, doubled>>
<1>0. WorkerTypes /\ free \in Nat /\ HoldOK(w)
  BY Zenon DEF SubTypes, Pool
<1>a. UNCHANGED <<torrents, running, doubled>>
  BY Zenon DEF CallSubscribe, CallAddTask, Fetch, UpdateSubscribe, AddSubscribe, ListRead, NextItem, Load,
         MarkRead, tables
<1> DEFINE Goal == WorkStep(w) /\ worker'[w].pc # "start"
<1> SUFFICES Goal
  BY <1>a, Zenon
<1>r. ASSUME worker[w].pc # "idle", Return(w), UNCHANGED <<refresher, boot, dht_conn>>
      PROVE  Goal
  BY <1>r, ReturnStep, Zenon
<1>k. ASSUME worker[w].pc # "idle", NEW p \in {"list_read", "items", "load", "mark_read", "add_torrent"},
             Change(w, p, worker[w].held), UNCHANGED free, UNCHANGED <<refresher, boot, dht_conn>>
      PROVE  Goal
  <2>1. UNCHANGED <<free, refresher, boot, dht_conn>>
    BY <1>k, Zenon
  <2>2. worker'[w].pc # "start"
    BY <1>k, Zenon DEF Change
  <2> QED BY <1>k, <2>1, <2>2, KeepStep, Zenon
<1>1. ASSUME NEW f \in Feeds, CallSubscribe(w, f) PROVE Goal
  <2>1. worker[w].pc = "new" /\ UNCHANGED <<free, refresher, boot, dht_conn>>
    BY <1>1, Zenon DEF CallSubscribe
  <2>2. worker' = [worker EXCEPT ![w].pc = "fetch", ![w].feed = f]
    BY <1>1, Zenon DEF CallSubscribe
  <2>3. IsWork(worker', worker, w, "fetch", worker[w].torrent, worker[w].held)
    BY <1>0, <2>2, WorkSubscribes, Zenon
  <2>4. worker[w].held = 0
    BY <1>0, <2>1, Zenon DEF HoldOK
  <2>5. Change(w, "fetch", 0)
    BY <2>3, <2>4, WorkChange, Zenon
  <2>6. WorkStep(w)
    BY <2>1, <2>4, <2>5, BareStep, Zenon
  <2> QED BY <2>5, <2>6, Zenon DEF Change
<1>2. ASSUME NEW t \in Torrents, CallAddTask(w, t) PROVE Goal
  <2>1. worker[w].pc = "new" /\ UNCHANGED free /\ UNCHANGED <<refresher, boot, dht_conn>>
    BY <1>2, Zenon DEF CallAddTask
  <2>2. worker' = [worker EXCEPT ![w].pc = "add_torrent", ![w].torrent = t]
    BY <1>2, Zenon DEF CallAddTask
  <2>3. IsWork(worker', worker, w, "add_torrent", t, worker[w].held)
    BY <1>0, <2>2, WorkAims, Zenon
  <2>4. Change(w, "add_torrent", worker[w].held)
    BY <2>3, WorkChange, Zenon
  <2> QED BY <1>k, <2>1, <2>4, Zenon
<1>3. CASE Fetch(w)
  <2>1. worker[w].pc = "fetch" /\ UNCHANGED <<refresher, boot, dht_conn>>
    BY <1>3, Zenon DEF Fetch
  <2>2. CASE Return(w)
    BY <1>r, <2>1, <2>2, Zenon
  <2>3. ASSUME NEW v, NEW p, p = (IF w \in Feeds THEN "update" ELSE "add_subscribe"),
               worker' = [worker EXCEPT ![w].got = v, ![w].pc = p], UNCHANGED free
        PROVE  Goal
    <3>1. IsWork(worker', worker, w, p, worker[w].torrent, worker[w].held)
      BY <1>0, <2>3, WorkGets, Zenon
    <3>2. /\ worker[w].held = 0 /\ (w \in Callers => p # "update")
          /\ p # "start" /\ p # "new"
      BY <1>0, <2>1, <2>3, SubscriptionAssumption, ZenonT(30) DEF HoldOK
    <3>3. Change(w, p, 0)
      BY <3>1, <3>2, WorkChange, Zenon
    <3>4. UNCHANGED <<free, refresher, boot, dht_conn>> /\ worker[w].pc # "idle"
      BY <2>1, <2>3, Zenon
    <3>5. WorkStep(w)
      BY <3>2, <3>3, <3>4, BareStep, ZenonT(30)
    <3> QED BY <3>2, <3>3, <3>5, Zenon DEF Change
  <2> QED BY <1>3, <2>2, <2>3, SMTT(30) DEF Fetch
<1>4. CASE UpdateSubscribe(w)
  <2>1. /\ worker[w].pc = "update" /\ free > 0 /\ free' = free - 1
        /\ UNCHANGED <<refresher, boot, dht_conn>>
    BY <1>4, Zenon DEF UpdateSubscribe, HasConn
  <2>2. worker' = [worker EXCEPT ![w].pc = "list_read", ![w].held = 1]
    BY <1>4, Zenon DEF UpdateSubscribe
  <2>3. IsWork(worker', worker, w, "list_read", worker[w].torrent, 1)
    BY <1>0, <2>2, WorkHolds, Zenon
  <2>4. worker[w].held = 0 /\ w \in Feeds
    BY <1>0, <2>1, Zenon DEF HoldOK, Workers
  <2>5. Change(w, "list_read", 1)
    BY <2>3, WorkChange, Zenon
  <2>6. HoldOK(w)'
    BY <2>4, <2>5, Zenon DEF HoldOK, Change
  <2> QED BY <1>0, <2>1, <2>4, <2>5, <2>6, SMTT(30) DEF WorkStep, Change
<1>5. CASE AddSubscribe(w)
  <2>1. worker[w].pc = "add_subscribe" /\ UNCHANGED <<refresher, boot, dht_conn>>
    BY <1>5, Zenon DEF AddSubscribe, HasConn
  <2>2. CASE Return(w)
    BY <1>r, <2>1, <2>2, Zenon
  <2>3. CASE To(w, "list_read") /\ UNCHANGED free
    <3>1. IsWork(worker', worker, w, "list_read", worker[w].torrent, worker[w].held)
      BY <1>0, <2>3, WorkMoves, Zenon DEF To
    <3>2. Change(w, "list_read", worker[w].held)
      BY <3>1, WorkChange, Zenon
    <3> QED BY <1>k, <2>1, <2>3, <3>2, ZenonT(30)
  <2> QED BY <1>5, <2>2, <2>3, Zenon DEF AddSubscribe
<1>6. CASE ListRead(w)
  <2>1. worker[w].pc = "list_read" /\ UNCHANGED free /\ UNCHANGED <<refresher, boot, dht_conn>>
    BY <1>6, Zenon DEF ListRead, HasConn
  <2> DEFINE q == Items[worker[w].feed][worker[w].got]
             d == {m[2] : m \in {m \in marks : m[1] = worker[w].feed}}
  <2>2. worker' = [worker EXCEPT ![w] = [worker[w] EXCEPT !.pc = "items", !.items = q, !.read = d]]
    BY <1>6, Zenon DEF ListRead
  <2> HIDE DEF q, d
  <2>3. IsWork(worker', worker, w, "items", worker[w].torrent, worker[w].held)
    BY <1>0, <2>2, WorkLists, Zenon
  <2>4. Change(w, "items", worker[w].held)
    BY <2>3, WorkChange, Zenon
  <2> QED BY <1>k, <2>1, <2>4, Zenon
<1>7. CASE NextItem(w)
  <2>1. worker[w].pc = "items" /\ UNCHANGED <<refresher, boot, dht_conn>>
    BY <1>7, Zenon DEF NextItem
  <2>2. CASE Return(w)
    BY <1>r, <2>1, <2>2, Zenon
  <2>3. ASSUME NEW q, worker' = [worker EXCEPT ![w].pc = "load", ![w].items = q], UNCHANGED free
        PROVE  Goal
    <3>1. IsWork(worker', worker, w, "load", worker[w].torrent, worker[w].held)
      BY <1>0, <2>3, WorkItems, Zenon
    <3>2. Change(w, "load", worker[w].held)
      BY <3>1, WorkChange, Zenon
    <3> QED BY <1>k, <2>1, <2>3, <3>2, Zenon
  <2> QED BY <1>7, <2>2, <2>3, Zenon DEF NextItem
<1>8. CASE Load(w)
  <2>1. worker[w].pc = "load" /\ UNCHANGED <<refresher, boot, dht_conn>>
    BY <1>8, Zenon DEF Load
  <2>2. CASE Return(w)
    BY <1>r, <2>1, <2>2, Zenon
  <2>3. ASSUME NEW t, worker' = [worker EXCEPT ![w].pc = "mark_read", ![w].torrent = t],
               UNCHANGED free
        PROVE  Goal
    <3>1. IsWork(worker', worker, w, "mark_read", t, worker[w].held)
      BY <1>0, <2>3, WorkAims, Zenon
    <3>2. Change(w, "mark_read", worker[w].held)
      BY <3>1, WorkChange, Zenon
    <3> QED BY <1>k, <2>1, <2>3, <3>2, Zenon
  <2> QED BY <1>8, <2>2, <2>3, Zenon DEF Load
<1>9. CASE MarkRead(w)
  <2>1. worker[w].pc = "mark_read" /\ UNCHANGED <<refresher, boot, dht_conn>>
    BY <1>9, Zenon DEF MarkRead, HasConn
  <2>2. CASE Return(w)
    BY <1>r, <2>1, <2>2, Zenon
  <2>3. CASE To(w, "add_torrent") /\ UNCHANGED free
    <3>1. IsWork(worker', worker, w, "add_torrent", worker[w].torrent, worker[w].held)
      BY <1>0, <2>3, WorkMoves, ZenonT(30) DEF To
    <3>2. Change(w, "add_torrent", worker[w].held)
      BY <3>1, WorkChange, Zenon
    <3> QED BY <1>k, <2>1, <2>3, <3>2, ZenonT(30)
  <2> QED BY <1>9, <2>2, <2>3, Zenon DEF MarkRead
<1> QED BY <1>1, <1>2, <1>3, <1>4, <1>5, <1>6, <1>7, <1>8, <1>9, Zenon

LEMMA ProceedChange ==
    ASSUME WorkerTypes, NEW w \in Workers, Proceed(w)
    PROVE  Change(w, "items", worker[w].held)
<1> DEFINE q == IF worker[w].items = <<>> THEN worker[w].items ELSE Tail(worker[w].items)
<1>1. worker' = [worker EXCEPT ![w].pc = "items", ![w].items = q]
  BY Zenon DEF Proceed, WorkerTypes, IsWorker
<1> HIDE DEF q
<1>2. IsWork(worker', worker, w, "items", worker[w].torrent, worker[w].held)
  BY <1>1, WorkItems, Zenon
<1> QED BY <1>2, WorkChange, Zenon

\* add_torrent goes on to start the task exactly when it has inserted the row.
LEMMA AddStep ==
    ASSUME SubTypes, Pool, NEW w \in Workers, AddTorrent(w)
    PROVE  /\ WorkStep(w) /\ UNCHANGED running
           /\ worker[w].torrent \in torrents => worker'[w].pc # "start"
           /\ worker[w].torrent \notin torrents => worker'[w].torrent = worker[w].torrent
           /\ torrents' = torrents \cup {worker[w].torrent}
           /\ doubled' = IF boot.pc \in {"init", "list"} /\ worker[w].torrent \notin torrents
                         THEN doubled \cup {worker[w].torrent} ELSE doubled
<1>0. WorkerTypes /\ worker[w].pc # "idle"
  BY Zenon DEF SubTypes, AddTorrent, HasConn
<1>1. /\ UNCHANGED <<free, refresher, boot, dht_conn>> /\ UNCHANGED running
      /\ torrents' = torrents \cup {worker[w].torrent}
      /\ doubled' = IF boot.pc \in {"init", "list"} /\ worker[w].torrent \notin torrents
                    THEN doubled \cup {worker[w].torrent} ELSE doubled
  BY Zenon DEF AddTorrent
<1>2. CASE worker[w].torrent \in torrents
  <2>1. Change(w, "items", worker[w].held)
    BY <1>0, <1>2, ProceedChange, Zenon DEF AddTorrent, IfAbsent
  <2>2. WorkStep(w)
    BY <1>0, <1>1, <2>1, KeepStep, Zenon
  <2> QED BY <1>1, <1>2, <2>1, <2>2, Zenon DEF Change
<1>3. CASE worker[w].torrent \notin torrents
  <2>1. To(w, "start")
    BY <1>3, Zenon DEF AddTorrent, IfAbsent
  <2>2. IsWork(worker', worker, w, "start", worker[w].torrent, worker[w].held)
    BY <1>0, <2>1, WorkMoves, Zenon DEF To
  <2>3. Change(w, "start", worker[w].held) /\ worker'[w].torrent = worker[w].torrent
    BY <2>2, WorkChange, Zenon
  <2>4. WorkStep(w)
    BY <1>0, <1>1, <2>3, KeepStep, ZenonT(30)
  <2> QED BY <1>1, <1>3, <2>3, <2>4, Zenon
<1> QED BY <1>2, <1>3, Zenon

LEMMA StartStep ==
    ASSUME SubTypes, Pool, NEW w \in Workers, StartTask(w)
    PROVE  /\ WorkStep(w) /\ worker'[w].pc # "start" /\ UNCHANGED <<torrents, doubled>>
           /\ worker[w].pc = "start"
           /\ \/ UNCHANGED running
              \/ running' = [running EXCEPT ![worker[w].torrent] = @ + 1]
<1>0. WorkerTypes /\ worker[w].pc = "start"
  BY Zenon DEF SubTypes, StartTask, HasConn
<1>1. UNCHANGED <<refresher, boot, dht_conn>> /\ UNCHANGED <<torrents, doubled>>
  BY Zenon DEF StartTask, tables
<1>2. CASE running' = [running EXCEPT ![worker[w].torrent] = @ + 1] /\ Proceed(w) /\ UNCHANGED free
  <2>1. Change(w, "items", worker[w].held)
    BY <1>0, <1>2, ProceedChange, Zenon
  <2>2. UNCHANGED <<free, refresher, boot, dht_conn>>
    BY <1>1, <1>2, Zenon
  <2>3. WorkStep(w)
    BY <1>0, <2>1, <2>2, KeepStep, Zenon
  <2> QED BY <1>0, <1>1, <1>2, <2>1, <2>3, Zenon DEF Change
<1>3. CASE Return(w) /\ UNCHANGED running
  BY <1>0, <1>1, <1>3, ReturnStep, ZenonT(30)
<1> QED BY <1>2, <1>3, Zenon DEF StartTask

-----------------------------------------------------------------------------
(* Subscription: the pool *)

LEMMA FiniteWorkers == IsFiniteSet(Feeds) /\ IsFiniteSet(Workers)
BY SubscriptionAssumption, FS_Union, Zenon DEF Workers

\* The numbers that the pool speaks of.
LEMMA PoolNumbers ==
    /\ IsFiniteSet(Holders) /\ Cardinality(Holders) \in Nat
    /\ IsFiniteSet(Flushing) /\ Cardinality(Flushing) \in Nat
<1>1. Holders \subseteq Workers /\ Flushing \subseteq Feeds
  BY Zenon DEF Holders, Flushing
<1> QED BY <1>1, FiniteWorkers, FS_Subset, FS_CardinalityType, Zenon

\* The holders follow what the worker w holds.
LEMMA HoldersMove ==
    ASSUME SubTypes, Pool, NEW w \in Workers, WorkStep(w)
    PROVE  Cardinality(Holders') + worker[w].held = Cardinality(Holders) + worker'[w].held
<1>0. worker[w].held \in {0, 1} /\ worker'[w].held \in {0, 1}
  BY Zenon DEF Pool, HoldOK, WorkStep
<1>1. \A x \in Workers \ {w} : worker'[x] = worker[x]
  BY Zenon DEF WorkStep, IsWork
<1>2. CASE worker'[w].held = worker[w].held
  <2>1. Holders' = Holders
    BY <1>1, <1>2, Zenon DEF Holders
  <2> QED BY <1>0, <1>2, <2>1, PoolNumbers, Zenon
<1>3. CASE worker[w].held = 0 /\ worker'[w].held = 1
  <2>1. Holders' = Holders \cup {w} /\ w \notin Holders
    BY <1>1, <1>3 DEF Holders
  <2>2. Cardinality(Holders \cup {w}) = Cardinality(Holders) + 1
    BY <2>1, PoolNumbers, FS_AddElement, Zenon
  <2> QED BY <1>3, <2>1, <2>2, PoolNumbers, SMTT(30)
<1>4. CASE worker[w].held = 1 /\ worker'[w].held = 0
  <2>1. Holders' = Holders \ {w} /\ w \in Holders
    BY <1>1, <1>4 DEF Holders
  <2>2. Cardinality(Holders \ {w}) = Cardinality(Holders) - 1
    BY <2>1, PoolNumbers, FS_RemoveElement, Zenon
  <2> QED BY <1>4, <2>1, <2>2, PoolNumbers, SMTT(30)
<1> QED BY <1>0, <1>2, <1>3, <1>4, ZenonT(30)

LEMMA PoolWork ==
    ASSUME SubTypes, Pool, NEW w \in Workers, WorkStep(w)
    PROVE  Pool'
<1>0. \A x \in Workers \ {w} : worker'[x] = worker[x]
  BY Zenon DEF WorkStep, IsWork
<1>1. \A x \in Workers : HoldOK(x)'
  BY <1>0, ZenonT(30) DEF Pool, WorkStep, HoldOK
<1>2. Flushing' \subseteq Flushing
  BY <1>0, Zenon DEF Flushing, WorkStep, Workers
<1>3. Cardinality(Flushing') <= Cardinality(Flushing)
  BY <1>2, PoolNumbers, FS_Subset, Zenon
<1>4. Cardinality(Flushing') <= Concurrency
  <2>1. Cardinality(Flushing') \in Nat
    BY <1>2, PoolNumbers, FS_Subset, FS_CardinalityType, Zenon
  <2> QED BY <1>3, <2>1, PoolNumbers, SubscriptionAssumption, SMTT(30) DEF Pool
<1>5. free' + Held' = PoolLimit
  <2>1. Cardinality(Holders') + worker[w].held = Cardinality(Holders) + worker'[w].held
    BY HoldersMove, Zenon
  <2>2. Cardinality(Holders') \in Nat
    <3>1. Holders' \subseteq Workers
      BY Zenon DEF Holders
    <3> QED BY <3>1, FiniteWorkers, FS_Subset, FS_CardinalityType, Zenon
  <2>3. worker[w].held \in {0, 1} /\ worker'[w].held \in {0, 1}
    BY Zenon DEF Pool, HoldOK, WorkStep
  <2>4. free \in Nat /\ free' \in Nat /\ free' + worker'[w].held = free + worker[w].held
        /\ dht_conn \in {0, 1}
    BY Zenon DEF SubTypes, WorkStep
  <2>5. UNCHANGED <<refresher, boot, dht_conn>>
    BY Zenon DEF WorkStep
  <2> QED BY <2>1, <2>2, <2>3, <2>4, <2>5, PoolNumbers, SubscriptionAssumption, SMTT(30) DEF Pool, Held
<1>6. refresher.pc = "idle" => Flushing' = {}
  BY <1>2, Zenon DEF Pool
<1>7. refresher.pc = "spawn" =>
          \A f \in Feeds : f \in DOMAIN refresher.todo => worker'[f].pc = "idle"
  BY <1>0, Zenon DEF Pool, WorkStep, Workers
<1>8. UNCHANGED <<refresher, boot>>
  BY Zenon DEF WorkStep
<1> QED BY <1>1, <1>4, <1>5, <1>6, <1>7, <1>8, Zenon DEF Pool

-----------------------------------------------------------------------------
(* Subscription: flush_all_feeds, the start-up and the routing table *)

\* The steps that leave the workers and the tasks alone move one connection between
\* the pool and what the flags of the refresher, the start-up and the table say.
LEMMA PoolTick ==
    ASSUME SubTypes, Pool, Tick15
    PROVE  SubTypes' /\ Pool'
<1>1. /\ refresher.pc = "idle" /\ boot.pc = "done" /\ free > 0 /\ free' = free - 1
      /\ refresher'.pc = "spawn" /\ UNCHANGED <<worker, boot, dht_conn, running>>
      /\ refresher' = [pc |-> refresher'.pc, todo |-> refresher'.todo, rounds |-> refresher'.rounds]
  BY Zenon DEF Tick15
<1>2. SubTypes'
  BY <1>1 DEF SubTypes, WorkerTypes
<1>3. Holders' = Holders /\ Flushing' = Flushing /\ Flushing = {}
  BY <1>1, Zenon DEF Holders, Flushing, Pool
<1>4. \A f \in Feeds : worker[f].pc = "idle"
  BY <1>3, Zenon DEF Flushing
<1>5. Held' = Held + 1 /\ Held \in Nat
  BY <1>1, <1>3, PoolNumbers, SMTT(30) DEF Held, SubTypes
<1>6. free' + Held' = PoolLimit
  BY <1>1, <1>5 DEF Pool, SubTypes
<1>7. \A w \in Workers : HoldOK(w)'
  BY <1>1, Zenon DEF Pool, HoldOK
<1> QED BY <1>1, <1>2, <1>3, <1>4, <1>6, <1>7, ZenonT(30) DEF Pool

LEMMA PoolJoin ==
    ASSUME SubTypes, Pool, JoinFlush
    PROVE  SubTypes' /\ Pool'
<1>1. /\ refresher.pc = "spawn" /\ Flushing = {} /\ free' = free + 1
      /\ refresher' = [refresher EXCEPT !.pc = "idle"]
      /\ UNCHANGED <<worker, boot, dht_conn, running>>
  BY Zenon DEF JoinFlush
<1>2. /\ refresher'.pc = "idle"
      /\ refresher' = [pc |-> refresher'.pc, todo |-> refresher'.todo, rounds |-> refresher'.rounds]
  BY <1>1, Zenon DEF SubTypes
<1>3. SubTypes'
  BY <1>1, <1>2 DEF SubTypes, WorkerTypes
<1>4. Holders' = Holders /\ Flushing' = Flushing
  BY <1>1, Zenon DEF Holders, Flushing
<1>5. Held = Held' + 1 /\ Held' \in Nat
  BY <1>1, <1>2, <1>4, PoolNumbers, SMTT(30) DEF Held, SubTypes
<1>6. free' + Held' = PoolLimit
  BY <1>1, <1>5, SMTT(30) DEF Pool, SubTypes
<1>7. \A w \in Workers : HoldOK(w)'
  BY <1>1, Zenon DEF Pool, HoldOK
<1> QED BY <1>1, <1>2, <1>3, <1>4, <1>6, <1>7, Zenon DEF Pool

LEMMA RecSnap ==
    ASSUME NEW r, IsWorker(r), NEW v
    PROVE  Kept([r EXCEPT !.snap = v], r.pc, r.torrent, r.held)
BY DEF IsWorker, Kept

LEMMA SpawnedWorker ==
    ASSUME WorkerTypes, NEW f \in Feeds, SpawnFlush(f)
    PROVE  IsWork(worker', worker, f, "fetch", NoTorrent, 0)
<1> DEFINE h == refresher.todo[f].hash
           r == [IdleWorker EXCEPT !.pc = "fetch", !.feed = f]
           s == [IdleWorker EXCEPT !.pc = "fetch", !.feed = f, !.snap = h]
<1>1. worker' = [worker EXCEPT ![f] = s]
  BY Zenon DEF SpawnFlush
<1> HIDE DEF h
<1>2. s = [r EXCEPT !.snap = h]
  BY Zenon
<1>3. Kept(r, "fetch", NoTorrent, 0)
  <2>1. IsWorker(IdleWorker) /\ IdleWorker.torrent = NoTorrent /\ IdleWorker.held = 0
    BY Zenon DEF IdleWorker, IsWorker
  <2> QED BY <2>1, RecSubscribes, Zenon
<1> HIDE DEF r
<1>4. Kept(s, "fetch", NoTorrent, 0)
  BY <1>2, <1>3, RecSnap, ZenonT(60) DEF Kept
<1> HIDE DEF s
<1>5. f \in Workers
  BY Zenon DEF Workers
<1> QED BY <1>1, <1>4, <1>5, WorkSets, Zenon DEF Kept

LEMMA PoolSpawn ==
    ASSUME SubTypes, Pool, NEW f \in Feeds, SpawnFlush(f)
    PROVE  SubTypes' /\ Pool'
<1>0. f \in Workers /\ f \notin Callers
  BY SubscriptionAssumption, Zenon DEF Workers
<1>1. /\ refresher.pc = "spawn" /\ f \in DOMAIN refresher.todo /\ Cardinality(Flushing) < Concurrency
      /\ UNCHANGED <<free, boot, dht_conn, running>>
  BY Zenon DEF SpawnFlush
<1>2. IsWork(worker', worker, f, "fetch", NoTorrent, 0)
  BY SpawnedWorker, Zenon DEF SubTypes
<1>3. /\ refresher'.pc = "spawn"
      /\ refresher' = [pc |-> refresher'.pc, todo |-> refresher'.todo, rounds |-> refresher'.rounds]
      /\ DOMAIN refresher'.todo = DOMAIN refresher.todo \ {f}
  <2>1. refresher' = [refresher EXCEPT !.todo = Restrict(refresher.todo, DOMAIN refresher.todo \ {f})]
    BY Zenon DEF SpawnFlush
  <2> DEFINE d == Restrict(refresher.todo, DOMAIN refresher.todo \ {f})
  <2>2. DOMAIN d = DOMAIN refresher.todo \ {f}
    BY Zenon DEF Restrict
  <2> HIDE DEF d
  <2>3. refresher' = [refresher EXCEPT !.todo = d]
    BY <2>1, Zenon DEF d
  <2> QED BY <1>1, <2>2, <2>3, Zenon DEF SubTypes
<1>4. SubTypes'
  BY <1>1, <1>2, <1>3, Zenon DEF SubTypes, WorkerTypes, IsWork
<1>5. worker[f].pc = "idle" /\ worker[f].held = 0
  BY <1>0, <1>1, Zenon DEF Pool, HoldOK
<1>6. Holders' = Holders
  BY <1>2, <1>5, ZenonT(30) DEF IsWork, Holders
<1>7. Flushing' = Flushing \cup {f} /\ f \notin Flushing
  BY <1>0, <1>2, <1>5, Zenon DEF IsWork, Flushing, Workers
<1>8. Cardinality(Flushing') <= Concurrency
  <2>1. Cardinality(Flushing \cup {f}) = Cardinality(Flushing) + 1
    BY <1>7, PoolNumbers, FS_AddElement, Zenon
  <2> QED BY <1>1, <1>7, <2>1, PoolNumbers, SubscriptionAssumption, SMTT(30)
<1>9. free' + Held' = PoolLimit
  BY <1>1, <1>3, <1>6, ZenonT(30) DEF Pool, Held
<1>10. \A w \in Workers : HoldOK(w)'
  BY <1>0, <1>2, SMTT(30) DEF Pool, HoldOK, IsWork
<1>11. \A x \in Feeds : x \in DOMAIN refresher'.todo => worker'[x].pc = "idle"
  BY <1>1, <1>2, <1>3, Zenon DEF Pool, IsWork, Workers
<1> QED BY <1>1, <1>3, <1>4, <1>8, <1>9, <1>10, <1>11, Zenon DEF Pool

\* The steps of the start-up and of the routing table.
LEMMA PoolBoot ==
    ASSUME SubTypes, Pool, SetManager \/ ListTorrent \/ LoadTask \/ RefreshTable
    PROVE  SubTypes' /\ Pool'
<1>0. UNCHANGED <<refresher, worker>>
  BY Zenon DEF SetManager, ListTorrent, LoadTask, RefreshTable
<1>1. Holders' = Holders /\ Flushing' = Flushing
  BY <1>0, Zenon DEF Holders, Flushing
<1>2. boot' = [pc |-> boot'.pc, todo |-> boot'.todo] /\ boot'.pc \in BootPc
  BY DEF SubTypes, BootPc, SetManager, ListTorrent, LoadTask, RefreshTable
<1>3. refresher.pc = "spawn" => boot'.pc = "done"
  BY <1>0, Zenon DEF SubTypes, Pool, SetManager, ListTorrent, LoadTask, RefreshTable
<1>4. running' \in [Torrents -> Nat]
  BY DEF SubTypes, SetManager, ListTorrent, LoadTask, RefreshTable
<1>5. dht_conn' \in {0, 1} /\ free' \in Nat
  BY DEF SubTypes, SetManager, ListTorrent, LoadTask, RefreshTable
<1>6. free' + Held' = free + Held
  <2> DEFINE B(b) == IF b = "load" THEN 1 ELSE 0
             R == IF refresher.pc = "idle" THEN 0 ELSE 1
  <2>1. free' + B(boot'.pc) + dht_conn' = free + B(boot.pc) + dht_conn
    BY DEF SubTypes, SetManager, ListTorrent, LoadTask, RefreshTable
  <2>2. Held = Cardinality(Holders) + R + B(boot.pc) + dht_conn
    BY Zenon DEF Held
  <2>3. Held' = Cardinality(Holders) + R + B(boot'.pc) + dht_conn'
    BY <1>0, <1>1, Zenon DEF Held
  <2>4. R \in Nat /\ B(boot.pc) \in Nat /\ B(boot'.pc) \in Nat
    BY Zenon
  <2> HIDE DEF R, B
  <2> QED BY <1>5, <2>1, <2>2, <2>3, <2>4, PoolNumbers, SMTT(30) DEF SubTypes
<1>7. SubTypes'
  BY <1>0, <1>2, <1>4, <1>5, ZenonT(30) DEF SubTypes, WorkerTypes
<1>8. \A w \in Workers : HoldOK(w)'
  BY <1>0, Zenon DEF Pool, HoldOK
<1> QED BY <1>0, <1>1, <1>3, <1>6, <1>7, <1>8, Zenon DEF Pool

LEMMA IdleKept == Kept(IdleWorker, "idle", NoTorrent, 0) /\ Kept(NewCaller, "new", NoTorrent, 0)
<1>1. Kept(IdleWorker, "idle", NoTorrent, 0)
  BY Zenon DEF IdleWorker, Kept, IsWorker
<1> QED BY <1>1, RecPc, Zenon DEF Kept, NewCaller

\* With every worker idle or not begun the whole pool is free.
Fresh ==
    /\ \A w \in Workers : worker[w].held = 0 /\ worker[w].pc \in {"idle", "new"}
    /\ \A f \in Feeds : worker[f].pc = "idle"
    /\ refresher.pc = "idle" /\ boot.pc = "init" /\ dht_conn = 0 /\ free = PoolLimit

LEMMA PoolFresh == Fresh => Pool
<1> SUFFICES ASSUME Fresh PROVE Pool
  BY Zenon
<1>1. Holders = {} /\ Flushing = {}
  BY DEF Fresh, Holders, Flushing
<1>2. Cardinality({}) = 0
  BY FS_EmptySet, Zenon
<1>3. \A w \in Workers : HoldOK(w)
  BY SubscriptionAssumption, SMTT(30) DEF Fresh, HoldOK
<1>4. Held = 0
  BY <1>1, <1>2, SMTT(30) DEF Fresh, Held
<1> QED BY <1>1, <1>2, <1>3, <1>4, SubscriptionAssumption, SMTT(30) DEF Fresh, Pool

LEMMA PoolRestart ==
    ASSUME SubTypes, Pool, Restart
    PROVE  SubTypes' /\ Pool'
<1>1. /\ worker' = [w \in Workers |-> IF worker[w].pc = "new" THEN worker[w] ELSE IdleWorker]
      /\ running' = [t \in Torrents |-> 0] /\ boot' = Starting
      /\ refresher' = [Waiting EXCEPT !.rounds = refresher.rounds]
      /\ free' = PoolLimit /\ dht_conn' = 0
  BY Zenon DEF Restart
<1>2. boot' = [pc |-> boot'.pc, todo |-> boot'.todo] /\ boot'.pc = "init"
  BY <1>1, Zenon DEF Starting
<1>3. /\ refresher' = [pc |-> refresher'.pc, todo |-> refresher'.todo, rounds |-> refresher'.rounds]
      /\ refresher'.pc = "idle"
  BY <1>1, Zenon DEF Waiting
<1>4. \A w \in Workers : /\ IsWorker(worker'[w]) /\ worker'[w].held = 0
                         /\ worker'[w].pc \in {"idle", "new"}
                         /\ w \in Feeds => worker'[w].pc = "idle"
  <2>1. IsWorker(IdleWorker) /\ IdleWorker.held = 0 /\ IdleWorker.pc = "idle"
    BY IdleKept, Zenon DEF Kept
  <2>2. \A w \in Workers : HoldOK(w) /\ IsWorker(worker[w])
    BY Zenon DEF Pool, SubTypes, WorkerTypes
  <2>3. \A w \in Workers : worker'[w] = IF worker[w].pc = "new" THEN worker[w] ELSE IdleWorker
    BY <1>1, Zenon
  <2> QED BY <2>1, <2>2, <2>3, SMTT(30) DEF HoldOK
<1>5. SubTypes'
  <2>1. worker' = [w \in Workers |-> worker'[w]]
    BY <1>1, Zenon
  <2>2. running' \in [Torrents -> Nat]
    BY <1>1, Zenon
  <2>3. free' \in Nat
    BY <1>1, SubscriptionAssumption, Zenon
  <2> QED BY <1>1, <1>2, <1>3, <1>4, <2>1, <2>2, <2>3, ZenonT(60) DEF SubTypes, WorkerTypes, BootPc
<1>6. \A f \in Feeds : worker'[f].pc = "idle"
  BY <1>4, Zenon DEF Workers
<1>7. Fresh'
  BY <1>1, <1>2, <1>3, <1>4, <1>6, Zenon DEF Fresh
<1>8. Pool'
  BY <1>7, PoolFresh, PTL
<1> QED BY <1>5, <1>8, Zenon

LEMMA PoolInit == SubInit => SubTypes /\ Pool
<1> SUFFICES ASSUME SubInit PROVE SubTypes /\ Pool
  BY Zenon
<1>1. /\ worker = [w \in Workers |-> IF w \in Callers THEN NewCaller ELSE IdleWorker]
      /\ running = [t \in Torrents |-> 0] /\ boot = Starting /\ refresher = Waiting
      /\ free = PoolLimit /\ dht_conn = 0
  BY Zenon DEF SubInit
<1>2. boot = [pc |-> boot.pc, todo |-> boot.todo] /\ boot.pc = "init"
  BY <1>1, Zenon DEF Starting
<1>3. /\ refresher = [pc |-> refresher.pc, todo |-> refresher.todo, rounds |-> refresher.rounds]
      /\ refresher.pc = "idle"
  BY <1>1, Zenon DEF Waiting
<1>4. \A w \in Workers : /\ IsWorker(worker[w]) /\ worker[w].held = 0
                         /\ worker[w].pc \in {"idle", "new"}
                         /\ w \in Feeds => worker[w].pc = "idle"
  <2>1. /\ IsWorker(IdleWorker) /\ IdleWorker.held = 0 /\ IdleWorker.pc = "idle"
        /\ IsWorker(NewCaller) /\ NewCaller.held = 0 /\ NewCaller.pc = "new"
    BY IdleKept, Zenon DEF Kept
  <2>2. \A w \in Workers : worker[w] = IF w \in Callers THEN NewCaller ELSE IdleWorker
    BY <1>1, Zenon
  <2> QED BY <2>1, <2>2, SubscriptionAssumption, Zenon
<1>5. SubTypes
  <2>1. worker = [w \in Workers |-> worker[w]]
    BY <1>1, Zenon
  <2>2. running \in [Torrents -> Nat] /\ free \in Nat
    BY <1>1, SubscriptionAssumption, Zenon
  <2> QED BY <1>1, <1>2, <1>3, <1>4, <2>1, <2>2, ZenonT(30) DEF SubTypes, WorkerTypes, BootPc
<1>6. \A f \in Feeds : worker[f].pc = "idle"
  BY <1>4, Zenon DEF Workers
<1>7. Pool
  BY <1>1, <1>2, <1>3, <1>4, <1>6, PoolFresh, ZenonT(30) DEF Fresh
<1> QED BY <1>5, <1>7, Zenon

-----------------------------------------------------------------------------
(* Subscription: the tasks *)

\* A step of a worker that starts nothing.
LEMMA OnceQuiet ==
    ASSUME Once, NEW w \in Workers, WorkStep(w), worker'[w].pc # "start",
           UNCHANGED <<torrents, running, doubled>>
    PROVE  Once'
<1>1. \A x \in Workers \ {w} : worker'[x] = worker[x]
  BY Zenon DEF WorkStep, IsWork
<1>2. \A x \in Workers : \A t : Starts(x, t)' => Starts(x, t)
  BY <1>1, Zenon DEF Starts
<1>3. UNCHANGED boot
  BY Zenon DEF WorkStep
<1> QED BY <1>2, <1>3, Zenon DEF Once, Begun

LEMMA OnceAdd ==
    ASSUME SubTypes, Pool, Once, NEW w \in Workers, AddTorrent(w)
    PROVE  Once'
<1>0. /\ WorkStep(w) /\ UNCHANGED running
      /\ worker[w].torrent \in torrents => worker'[w].pc # "start"
      /\ worker[w].torrent \notin torrents => worker'[w].torrent = worker[w].torrent
      /\ torrents' = torrents \cup {worker[w].torrent}
      /\ doubled' = IF boot.pc \in {"init", "list"} /\ worker[w].torrent \notin torrents
                    THEN doubled \cup {worker[w].torrent} ELSE doubled
  BY AddStep, Zenon
<1>1. \A x \in Workers \ {w} : worker'[x] = worker[x]
  BY <1>0, Zenon DEF WorkStep, IsWork
<1>2. UNCHANGED boot /\ boot.pc \in BootPc
  BY <1>0, Zenon DEF WorkStep, SubTypes
<1>3. SUFFICES ASSUME NEW t \in Torrents, t \notin doubled' PROVE Begun(t)'
  BY Zenon DEF Once
<1>4. t \notin doubled /\ Begun(t)
  BY <1>0, <1>3, Zenon DEF Once
<1>5. CASE worker[w].torrent = t /\ t \notin torrents
  <2>1. boot.pc \in {"load", "done"}
    BY <1>0, <1>2, <1>3, <1>5, Zenon DEF BootPc
  <2>2. \A x \in Workers : ~Starts(x, t)
    BY <1>4, <1>5, Zenon DEF Begun
  <2>3. running[t] <= 0 /\ ~(boot.pc = "load" /\ t \in boot.todo) /\ running[t] \in Nat
    BY <1>4, <1>5, SMTT(30) DEF Begun, SubTypes
  <2>4. \A x \in Workers : Starts(x, t)' => x = w
    BY <1>1, <2>2, Zenon DEF Starts
  <2> QED BY <1>0, <1>2, <1>5, <2>1, <2>3, <2>4, SMTT(30) DEF Begun
<1>6. CASE ~(worker[w].torrent = t /\ t \notin torrents)
  <2>1. \A x \in Workers : Starts(x, t)' => Starts(x, t)
    BY <1>0, <1>1, <1>6, Zenon DEF Starts
  <2> QED BY <1>0, <1>2, <1>4, <2>1, Zenon DEF Begun
<1> QED BY <1>5, <1>6, Zenon

LEMMA OnceStart ==
    ASSUME SubTypes, Pool, Once, NEW w \in Workers, StartTask(w)
    PROVE  Once'
<1>0. /\ WorkStep(w) /\ worker'[w].pc # "start" /\ UNCHANGED <<torrents, doubled>>
      /\ worker[w].pc = "start"
      /\ UNCHANGED running \/ running' = [running EXCEPT ![worker[w].torrent] = @ + 1]
  BY StartStep, Zenon
<1>1. CASE UNCHANGED running
  BY <1>0, <1>1, OnceQuiet, Zenon
<1>2. CASE running' = [running EXCEPT ![worker[w].torrent] = @ + 1]
  <2>1. \A x \in Workers \ {w} : worker'[x] = worker[x]
    BY <1>0, Zenon DEF WorkStep, IsWork
  <2>2. UNCHANGED boot
    BY <1>0, Zenon DEF WorkStep
  <2>3. SUFFICES ASSUME NEW t \in Torrents, t \notin doubled' PROVE Begun(t)'
    BY Zenon DEF Once
  <2>4. Begun(t) /\ running[t] \in Nat
    BY <1>0, <2>3, Zenon DEF Once, SubTypes
  <2>5. \A x \in Workers : Starts(x, t)' => Starts(x, t) /\ x # w
    BY <1>0, <2>1, Zenon DEF Starts
  <2>6. CASE worker[w].torrent = t
    <3>1. Starts(w, t)
      BY <1>0, <2>6, Zenon DEF Starts
    <3>2. \A x \in Workers : ~Starts(x, t)'
      BY <2>4, <2>5, <3>1, Zenon DEF Begun
    <3>3. running'[t] = 1
      BY <1>2, <2>4, <2>6, <3>1, SMTT(30) DEF Begun, SubTypes
    <3> QED BY <1>0, <2>2, <2>4, <3>1, <3>2, <3>3, SMTT(30) DEF Begun
  <2>7. CASE worker[w].torrent # t
    <3>1. running'[t] = running[t]
      BY <1>2, <2>7, Zenon DEF SubTypes
    <3> QED BY <1>0, <2>2, <2>4, <2>5, <3>1, Zenon DEF Begun
  <2> QED BY <2>6, <2>7, Zenon
<1> QED BY <1>0, <1>1, <1>2, Zenon

\* The steps of the start-up and of the refresher.
LEMMA OnceBoot ==
    ASSUME SubTypes, Once, SetManager \/ ListTorrent \/ LoadTask
    PROVE  Once'
<1>0. UNCHANGED <<worker, doubled, torrents>>
  BY Zenon DEF SetManager, ListTorrent, LoadTask, tables
<1>1. SUFFICES ASSUME NEW t \in Torrents, t \notin doubled' PROVE Begun(t)'
  BY Zenon DEF Once
<1>2. Begun(t) /\ running[t] \in Nat
  BY <1>0, <1>1, Zenon DEF Once, SubTypes
<1>3. \A x \in Workers : Starts(x, t)' = Starts(x, t)
  BY <1>0, Zenon DEF Starts
<1>4. CASE SetManager
  <2>1. boot.pc = "init" /\ boot'.pc = "list" /\ UNCHANGED running
    BY <1>4, Zenon DEF SetManager, SubTypes
  <2> QED BY <1>0, <1>2, <1>3, <2>1, Zenon DEF Begun
<1>5. CASE ListTorrent
  <2>1. boot.pc = "list" /\ boot'.pc = "load" /\ boot'.todo = torrents /\ UNCHANGED running
    BY <1>5, Zenon DEF ListTorrent
  <2> QED BY <1>0, <1>2, <1>3, <2>1, SMTT(30) DEF Begun
<1>6. CASE LoadTask
  <2>1. boot.pc = "load"
    BY <1>6, Zenon DEF LoadTask
  <2>2. ASSUME NEW u \in boot.todo, boot' = [boot EXCEPT !.todo = @ \ {u}],
               running' = [running EXCEPT ![u] = @ + 1]
        PROVE  Begun(t)'
    <3>1. boot'.pc = "load" /\ boot'.todo = boot.todo \ {u}
      BY <2>1, <2>2, ZenonT(60) DEF SubTypes
    <3>2. CASE u = t
      <4>1. running'[t] = 1 /\ \A x \in Workers : ~Starts(x, t)
        BY <1>2, <2>1, <2>2, <3>2, SMTT(30) DEF SubTypes, Begun
      <4> QED BY <1>0, <1>2, <1>3, <2>1, <3>1, <3>2, <4>1, SMTT(30) DEF Begun
    <3>3. CASE u # t
      <4>1. running'[t] = running[t]
        BY <2>2, <3>3, Zenon DEF SubTypes
      <4> QED BY <1>0, <1>2, <1>3, <2>1, <3>1, <3>3, <4>1, ZenonT(60) DEF Begun
    <3> QED BY <3>2, <3>3, Zenon
  <2>3. ASSUME boot' = [boot EXCEPT !.pc = "done"], UNCHANGED running
        PROVE  Begun(t)'
    <3>1. boot'.pc = "done"
      BY <2>3, Zenon DEF SubTypes
    <3> QED BY <1>0, <1>2, <1>3, <2>1, <2>3, <3>1, ZenonT(30) DEF Begun
  <2> QED BY <1>6, <2>2, <2>3, ZenonT(60) DEF LoadTask
<1> QED BY <1>4, <1>5, <1>6, Zenon

LEMMA OnceSpawn ==
    ASSUME SubTypes, Once, NEW f \in Feeds, SpawnFlush(f)
    PROVE  Once'
<1>1. IsWork(worker', worker, f, "fetch", NoTorrent, 0)
  BY SpawnedWorker, Zenon DEF SubTypes
<1>2. \A x \in Workers : \A t : Starts(x, t)' => Starts(x, t)
  BY <1>1, Zenon DEF Starts, IsWork
<1>3. UNCHANGED <<boot, torrents, running, doubled>>
  BY Zenon DEF SpawnFlush, tables
<1> QED BY <1>2, <1>3, Zenon DEF Once, Begun

-----------------------------------------------------------------------------
(* Subscription: the theorems *)

SubInv == SubTypes /\ Pool /\ Once

LEMMA SubInvInit == SubInit => SubInv
<1> SUFFICES ASSUME SubInit PROVE Once
  BY PoolInit, Zenon DEF SubInv
<1>1. /\ worker = [w \in Workers |-> IF w \in Callers THEN NewCaller ELSE IdleWorker]
      /\ running = [t \in Torrents |-> 0] /\ boot = Starting
  BY Zenon DEF SubInit
<1>2. boot.pc = "init"
  BY <1>1, Zenon DEF Starting
<1>3. \A w \in Workers : worker[w].pc # "start"
  <2>1. IdleWorker.pc = "idle" /\ NewCaller.pc = "new"
    BY IdleKept, Zenon DEF Kept
  <2> QED BY <1>1, <2>1, Zenon
<1> QED BY <1>1, <1>2, <1>3, SMTT(30) DEF Once, Begun, Starts

LEMMA WorkTypes ==
    ASSUME SubTypes, NEW w \in Workers, WorkStep(w), running' \in [Torrents -> Nat]
    PROVE  SubTypes'
BY Zenon DEF SubTypes, WorkStep, IsWork, WorkerTypes

LEMMA WorkerInv ==
    ASSUME SubInv, NEW w \in Workers,
           \/ WorkerStep(w) \/ \E f \in Feeds : CallSubscribe(w, f)
           \/ \E t \in Torrents : CallAddTask(w, t)
    PROVE  SubInv'
<1>0. SubTypes /\ Pool /\ Once /\ running \in [Torrents -> Nat]
  BY Zenon DEF SubInv, SubTypes
<1>1. CASE AddTorrent(w)
  <2>1. WorkStep(w) /\ UNCHANGED running
    BY <1>0, <1>1, AddStep, Zenon
  <2> QED BY <1>0, <1>1, <2>1, WorkTypes, PoolWork, OnceAdd, ZenonT(30) DEF SubInv
<1>2. CASE StartTask(w)
  <2>1. WorkStep(w) /\ (UNCHANGED running \/ running' = [running EXCEPT ![worker[w].torrent] = @ + 1])
    BY <1>0, <1>2, StartStep, Zenon
  <2>2. running' \in [Torrents -> Nat]
    BY <1>0, <2>1, SMTT(30)
  <2> QED BY <1>0, <1>2, <2>1, <2>2, WorkTypes, PoolWork, OnceStart, ZenonT(30) DEF SubInv
<1>3. CASE \/ \E f \in Feeds : CallSubscribe(w, f)
           \/ \E t \in Torrents : CallAddTask(w, t)
           \/ Fetch(w) \/ UpdateSubscribe(w) \/ AddSubscribe(w) \/ ListRead(w) \/ NextItem(w)
           \/ Load(w) \/ MarkRead(w)
  <2>1. WorkStep(w) /\ worker'[w].pc # "start" /\ UNCHANGED <<torrents, running, doubled>>
    BY <1>0, <1>3, QuietWork, Zenon
  <2> QED BY <1>0, <2>1, WorkTypes, PoolWork, OnceQuiet, Zenon DEF SubInv
<1> QED BY <1>1, <1>2, <1>3, Zenon DEF WorkerStep

LEMMA SubInvStep ==
    ASSUME SubInv, [SubNext]_subVars
    PROVE  SubInv'
<1>0. SubTypes /\ Pool /\ Once
  BY Zenon DEF SubInv
<1>o. ASSUME UNCHANGED <<worker, boot, torrents, running, doubled>> PROVE Once'
  BY <1>0, <1>o, ZenonT(30) DEF Once, Begun, Starts
<1>p. ASSUME UNCHANGED <<worker, boot, running, free, refresher, dht_conn>> PROVE SubTypes' /\ Pool'
  BY <1>0, <1>p, Zenon DEF SubTypes, WorkerTypes, Pool, HoldOK, Held, Holders, Flushing
<1>1. ASSUME NEW w \in Callers,
             (\E f \in Feeds : CallSubscribe(w, f)) \/ \E t \in Torrents : CallAddTask(w, t)
      PROVE  SubInv'
  BY <1>1, WorkerInv, Zenon DEF Workers
<1>2. ASSUME NEW w \in Workers, WorkerStep(w) PROVE SubInv'
  BY <1>2, WorkerInv, Zenon
<1>3. CASE Tick15
  <2>1. UNCHANGED <<worker, boot, torrents, running, doubled>>
    BY <1>3, Zenon DEF Tick15, tables
  <2> QED BY <1>0, <1>3, <1>o, <2>1, PoolTick, ZenonT(30) DEF SubInv
<1>4. ASSUME NEW f \in Feeds, SpawnFlush(f) PROVE SubInv'
  BY <1>0, <1>4, PoolSpawn, OnceSpawn, Zenon DEF SubInv
<1>5. CASE JoinFlush
  <2>1. UNCHANGED <<worker, boot, torrents, running, doubled>>
    BY <1>5, Zenon DEF JoinFlush, tables
  <2> QED BY <1>0, <1>5, <1>o, <2>1, PoolJoin, Zenon DEF SubInv
<1>6. CASE SetManager \/ ListTorrent \/ LoadTask
  BY <1>0, <1>6, PoolBoot, OnceBoot, ZenonT(30) DEF SubInv
<1>7. CASE RefreshTable
  <2>1. UNCHANGED <<worker, boot, torrents, running, doubled>>
    BY <1>7, Zenon DEF RefreshTable, tables
  <2> QED BY <1>0, <1>7, <1>o, <2>1, PoolBoot, Zenon DEF SubInv
<1>8. ASSUME NEW f \in Feeds, Publish(f) \/ GrowOld(f) PROVE SubInv'
  <2>1. UNCHANGED <<worker, boot, torrents, running, doubled, free, refresher, dht_conn>>
    BY <1>8, Zenon DEF Publish, GrowOld, tables
  <2> QED BY <1>o, <1>p, <2>1, Zenon DEF SubInv
<1>9. CASE Restart
  <2>1. /\ worker' = [w \in Workers |-> IF worker[w].pc = "new" THEN worker[w] ELSE IdleWorker]
        /\ running' = [t \in Torrents |-> 0] /\ boot' = Starting
    BY <1>9, Zenon DEF Restart
  <2>2. boot'.pc = "init"
    BY <2>1, Zenon DEF Starting
  <2>3. \A w \in Workers : worker'[w].pc # "start"
    <3>1. IdleWorker.pc = "idle"
      BY IdleKept, Zenon DEF Kept
    <3> QED BY <2>1, <3>1, Zenon
  <2>4. Once'
    BY <2>1, <2>2, <2>3, SMTT(30) DEF Once, Begun, Starts
  <2> QED BY <1>0, <1>9, <2>4, PoolRestart, ZenonT(60) DEF SubInv
<1>10. CASE UNCHANGED subVars
  <2>1. UNCHANGED <<worker, boot, torrents, running, doubled, free, refresher, dht_conn>>
    BY <1>10, Zenon DEF subVars
  <2> QED BY <1>o, <1>p, <2>1, Zenon DEF SubInv
<1> QED BY <1>1, <1>2, <1>3, <1>4, <1>5, <1>6, <1>7, <1>8, <1>9, <1>10, ZenonT(60) DEF SubNext

\* However the feeds, the calls of the API and the restarts interleave, a torrent that
\* was not added before list_torrent is read has at most one task.
THEOREM OneTaskPerTorrent == SubSpec => []OneTask
<1>1. SubInv => OneTask
  BY DEF SubInv, SubTypes, Once, Begun, OneTask
<1> QED BY <1>1, SubInvInit, SubInvStep, PTL DEF SubSpec

\* No error path of flush_feed, consumer_not_read, add_task or the start-up loses a
\* connection of the pool, whatever the sizes of the pool and of the refresh are.
ConnsBalance == free + Held = PoolLimit
THEOREM NoConnectionLost == SubSpec => []ConnsBalance
<1>1. SubInv => ConnsBalance
  BY Zenon DEF SubInv, Pool, ConnsBalance
<1> QED BY <1>1, SubInvInit, SubInvStep, PTL DEF SubSpec

\* A pool with two connections more than feeds are refreshed at once is never stuck:
\* flush_all_feeds keeps one and every flush_feed another, so the last is held by
\* refresh_routing_table, which needs no more.
THEOREM PoolFlows ==
    ASSUME PoolLimit >= Concurrency + 2
    PROVE  SubSpec => []PoolNeverStuck
<1>1. SubInv => PoolNeverStuck
  <2> SUFFICES ASSUME SubInv, free = 0, dht_conn = 0 PROVE FALSE
    BY DEF SubInv, SubTypes, Pool, PoolNeverStuck
  <2>1. Holders \subseteq Flushing
    BY DEF SubInv, Pool, HoldOK, Holders, Flushing
  <2>2. Cardinality(Holders) <= Concurrency
    BY <2>1, PoolNumbers, FS_Subset, SubscriptionAssumption, SMTT(30) DEF SubInv, Pool
  <2>3. Held <= Concurrency + 1
    BY <2>2, PoolNumbers, SubscriptionAssumption, SMTT(30) DEF SubInv, SubTypes, Pool, Held
  <2>4. Held \in Nat
    BY PoolNumbers DEF SubInv, SubTypes, Held
  <2> QED BY <2>3, <2>4, SubscriptionAssumption, SMTT(30) DEF SubInv, Pool
<1> QED BY <1>1, SubInvInit, SubInvStep, PTL DEF SubSpec

-----------------------------------------------------------------------------
(* ContentDispatch: the steps of the launcher are covered by PeerLaunchProofs *)

\* The coordinator.
CoordType == [pc : {"idle", "exit", "temp", "send"}, id : Id \cup {NoId}]

\* The inductive invariant: what the launcher keeps, and the types of the rest.
IInv ==
    /\ LaunchInv
    /\ coord \in CoordType
    /\ guard \in Id \cup {NoId}
    /\ finished \in BOOLEAN

-----------------------------------------------------------------------------
(* Exits *)

\* peer_exit and on_peer_exit: the peer is requeued or dropped with its address,
\* and at most one waiting peer is woken.
LEMMA PeerExitEffect ==
    ASSUME LaunchInv, NEW id \in Id, NEW replaced \in BOOLEAN, NEW dm \in BOOLEAN,
           NEW inf \in [Id -> InfoType],
           \A j \in Id : inf[j].addr = info[j].addr /\ inf[j].waited = info[j].waited,
           PeerExit(id, replaced, inf, dm)
    PROVE  /\ QuietStep
           /\ servant_peers' \subseteq servant_peers
           /\ listening' \subseteq listening
<1> USE DEF LaunchInv
<1>1. CASE id \notin servant_peers \/ place[id] # "peers"
  <2>1. /\ info' = inf /\ place' = place /\ channel' = channel /\ wait_queue' = wait_queue
        /\ doomed' = doomed /\ unstart_host' = unstart_host
        /\ servant_peers' \subseteq servant_peers /\ listening' \subseteq listening
    BY <1>1, Zenon DEF PeerExit
  <2>2. QueuesOwnTheirPeers'
    BY <2>1, Zenon DEF QueuesOwnTheirPeers, At
  <2>3. KeepsHolders /\ ReleaseStep /\ KeepsConnections
    BY <2>1, Zenon DEF KeepsHolders, Accepted, ReleaseStep, KeepsConnections
  <2> QED BY <2>1, <2>2, <2>3, Zenon DEF QuietStep, LaunchTypeOK
<1>2. CASE id \in servant_peers /\ place[id] = "peers" /\ replaced
  <2> DEFINE q == Append(wait_queue, id)
             p == [place EXCEPT ![id] = "wait"]
             temp == TRUE
  <2>1. /\ StartFromQueue(q, p, inf, temp, dm)
        /\ unstart_host' = unstart_host
        /\ servant_peers' \subseteq servant_peers /\ listening' \subseteq listening
    BY <1>2, Zenon DEF PeerExit, Release
  <2>2. id \notin Range(wait_queue)
    BY <1>2, Zenon DEF QueuesOwnTheirPeers, At
  <2>3. q \in Seq(Id) /\ IsInjective(q) /\ Range(q) = Range(wait_queue) \cup {id}
    BY <2>2, AppendFresh, SMTT(30) DEF LaunchTypeOK, QueuesOwnTheirPeers
  <2>4. p \in [Id -> Place]
    BY Zenon DEF LaunchTypeOK, Place
  <2>5. /\ Range(channel) = {j \in Id : p[j] = "channel"}
        /\ Range(q) = {j \in Id : p[j] = "wait"}
    BY <1>2, <2>3 DEF QueuesOwnTheirPeers, At, LaunchTypeOK
  <2>6. IsInjective(channel) /\ LaunchTypeOK
    BY Zenon DEF QueuesOwnTheirPeers
  <2>t. temp \in BOOLEAN
    BY Zenon
  <2> HIDE DEF q, p, temp
  <2>7. /\ place' \in [Id -> Place] /\ info' \in [Id -> InfoType]
        /\ channel' \in Seq(Id) /\ Len(channel') <= CHANNEL_BUFFER
        /\ wait_queue' \in Seq(Id) /\ doomed' \subseteq Id
        /\ QueuesOwnTheirPeers'
        /\ \A j \in Id : info'[j].addr = inf[j].addr
        /\ \A j \in Id : \/ place'[j] = p[j] /\ info'[j].waited = inf[j].waited
                         \/ p[j] = "wait" /\ place'[j] \in {"channel", "sending"}
    BY ONLY <2>1, <2>3, <2>4, <2>5, <2>6, <2>t, StartFromQueueEffect, dm \in BOOLEAN, inf \in [Id -> InfoType], SMTT(30)
  <2>8. \A j \in Id : \/ place'[j] = place[j] /\ info'[j].waited = info[j].waited
                      \/ j = id /\ place'[j] = "wait"
                      \/ place[j] \in {"wait", "peers"} /\ place'[j] \in {"channel", "sending"}
    BY <1>2, <2>7, ZenonT(30) DEF LaunchTypeOK, p
  <2>9. KeepsHolders
    BY <1>2, <2>7, <2>8, ZenonT(30) DEF KeepsHolders, Accepted
  <2>10. ReleaseStep /\ KeepsConnections
    BY <1>2, <2>1, <2>8, Zenon DEF ReleaseStep, KeepsConnections
  <2> QED BY <1>2, <2>1, <2>7, <2>8, <2>9, <2>10, Zenon DEF QuietStep
<1>3. CASE id \in servant_peers /\ place[id] = "peers" /\ ~replaced
  <2> DEFINE p == [place EXCEPT ![id] = "free"]
             inf2 == [inf EXCEPT ![id] = NoInfo]
             temp == FALSE
  <2>1. /\ StartFromQueue(wait_queue, p, inf2, temp, dm)
        /\ unstart_host' = unstart_host \ {info[id].addr}
        /\ servant_peers' \subseteq servant_peers /\ listening' \subseteq listening
    BY <1>3, Zenon DEF PeerExit, Release
  <2>2. p \in [Id -> Place] /\ inf2 \in [Id -> InfoType]
    BY Zenon DEF LaunchTypeOK, Place, InfoType, NoInfo
  <2>3. /\ Range(channel) = {j \in Id : p[j] = "channel"}
        /\ Range(wait_queue) = {j \in Id : p[j] = "wait"}
    BY <1>3, Zenon DEF QueuesOwnTheirPeers, At, LaunchTypeOK
  <2>4. /\ IsInjective(channel) /\ IsInjective(wait_queue) /\ LaunchTypeOK
        /\ wait_queue \in Seq(Id)
    BY Zenon DEF QueuesOwnTheirPeers, LaunchTypeOK
  <2>5. \A j \in Id : j # id => inf2[j] = inf[j]
    BY Zenon
  <2>6. p[id] = "free" /\ \A j \in Id : j # id => p[j] = place[j]
    BY Zenon DEF LaunchTypeOK
  <2>t. temp \in BOOLEAN
    BY Zenon
  <2> HIDE DEF p, inf2, temp
  <2>7. /\ place' \in [Id -> Place] /\ info' \in [Id -> InfoType]
        /\ channel' \in Seq(Id) /\ Len(channel') <= CHANNEL_BUFFER
        /\ wait_queue' \in Seq(Id) /\ doomed' \subseteq Id
        /\ QueuesOwnTheirPeers'
        /\ \A j \in Id : info'[j].addr = inf2[j].addr
        /\ \A j \in Id : \/ place'[j] = p[j] /\ info'[j].waited = inf2[j].waited
                         \/ p[j] = "wait" /\ place'[j] \in {"channel", "sending"}
    BY ONLY <2>1, <2>2, <2>3, <2>4, <2>t, StartFromQueueEffect, dm \in BOOLEAN, SMTT(30)
  <2>8. /\ place'[id] = "free"
        /\ \A j \in Id : j # id =>
              /\ info'[j].addr = info[j].addr
              /\ \/ place'[j] = place[j] /\ info'[j].waited = info[j].waited
                 \/ place[j] = "wait" /\ place'[j] \in {"channel", "sending"}
    BY <2>5, <2>6, <2>7, SMTT(30)
  <2>9. KeepsHolders
    BY <2>8, Zenon DEF KeepsHolders, Accepted
  <2>10. ReleaseStep /\ KeepsConnections
    BY <1>3, <2>1, <2>8, Zenon DEF ReleaseStep, KeepsConnections, Accepted
  <2> QED BY <1>3, <2>1, <2>7, <2>8, <2>9, <2>10, Zenon DEF QuietStep
<1> QED BY <1>1, <1>2, <1>3, Zenon

\* An exit of any kind preserves the launcher's invariant.
LEMMA ExitPreserves ==
    ASSUME LaunchInv, NEW id \in Id, NEW replaced \in BOOLEAN, NEW dm \in BOOLEAN,
           NEW inf \in [Id -> InfoType],
           \A j \in Id : inf[j].addr = info[j].addr /\ inf[j].waited = info[j].waited,
           PeerExit(id, replaced, inf, dm),
           UNCHANGED <<phase, launcher>>
    PROVE  LaunchInv' /\ ReleaseStep
<1>1. QuietStep /\ servant_peers' \subseteq servant_peers /\ listening' \subseteq listening
  BY ONLY ZenonT(30), PeerExitEffect, LaunchInv, id \in Id, replaced \in BOOLEAN, dm \in BOOLEAN,
     inf \in [Id -> InfoType], PeerExit(id, replaced, inf, dm),
     \A j \in Id : inf[j].addr = info[j].addr /\ inf[j].waited = info[j].waited
<1>2. OtherTypes
  BY OtherTypesHold, Zenon
<1>3. OtherTypes'
  BY <1>1, <1>2, Zenon DEF OtherTypes
<1> QED BY <1>1, <1>3, QuietStepOtherTypes, Zenon

\* The exits raised by a peer's own task or by the task that took its pieces.
LEMMA DisconnectPreserves ==
    ASSUME LaunchInv, NEW id \in Id,
           Disconnect(id) \/ \E own \in BOOLEAN : NotHasJob(id, own)
    PROVE  LaunchInv' /\ ReleaseStep
<1>0. OtherTypes /\ info \in [Id -> InfoType]
  BY OtherTypesHold, Zenon
<1>1. ASSUME NEW own \in BOOLEAN, PeerExit(id, FALSE, info, own), UNCHANGED <<phase, launcher>>
      PROVE  LaunchInv' /\ ReleaseStep
  <2> DEFINE replaced == FALSE
  <2>1. replaced \in BOOLEAN /\ PeerExit(id, replaced, info, own)
    BY <1>1, Zenon
  <2>2. \A j \in Id : info[j].addr = info[j].addr /\ info[j].waited = info[j].waited
    BY Zenon
  <2>3. UNCHANGED <<phase, launcher>>
    BY <1>1, Zenon
  <2> HIDE DEF replaced
  <2> QED BY ONLY <1>0, <2>1, <2>2, <2>3, own \in BOOLEAN, id \in Id, LaunchInv, ExitPreserves, ZenonT(60)
<1>2. CASE Disconnect(id) /\ id \in servant_peers
  <2> DEFINE own == TRUE
  <2>1. own \in BOOLEAN /\ PeerExit(id, FALSE, info, own) /\ UNCHANGED <<phase, launcher>>
    BY <1>2, Zenon DEF Disconnect
  <2> HIDE DEF own
  <2> QED BY <1>1, <2>1, Zenon
<1>3. CASE Disconnect(id) /\ id \notin servant_peers
  <2>1. /\ UNCHANGED <<info, place, channel, wait_queue, doomed, unstart_host, servant_peers,
                       phase, launcher>>
        /\ listening' = listening \ {id}
    BY <1>3, Zenon DEF Disconnect
  <2>2. QuietStep
    BY <1>0, <2>1, SamePlacesEffect, Zenon
  <2>3. OtherTypes'
    BY <1>0, <2>1, Zenon DEF OtherTypes
  <2> QED BY <2>1, <2>2, <2>3, QuietStepOtherTypes, Zenon
<1>4. CASE \E own \in BOOLEAN : NotHasJob(id, own)
  BY <1>1, <1>4, Zenon DEF NotHasJob
<1> QED BY <1>2, <1>3, <1>4, Zenon

\* Counting a bad piece, and the exit it may begin.
LEMMA VerifyFailedPreserves ==
    ASSUME LaunchInv, NEW id \in Id, VerifyFailed(id)
    PROVE  LaunchInv' /\ ReleaseStep
<1>1. /\ info' = [info EXCEPT ![id].err = @ + 1]
      /\ UNCHANGED <<place, channel, wait_queue, doomed, unstart_host, phase, launcher>>
      /\ servant_peers' \subseteq servant_peers /\ listening' \subseteq listening
  BY Zenon DEF VerifyFailed
<1>2. OtherTypes /\ info \in [Id -> InfoType] /\ info[id] \in InfoType
  BY OtherTypesHold, Zenon
<1>3. /\ info' \in [Id -> InfoType]
      /\ \A j \in Id : info'[j].addr = info[j].addr /\ info'[j].waited = info[j].waited
  BY <1>1, <1>2, SMTT(30) DEF InfoType
<1>4. OtherTypes'
  BY <1>1, <1>2, Zenon DEF OtherTypes
<1>5. QuietStep
  BY <1>1, <1>3, SamePlacesEffect, Zenon
<1> QED BY <1>1, <1>4, <1>5, QuietStepOtherTypes, Zenon

\* An upgrade changes lt only; a replacement is an exit.
LEMMA PeerAllocPreserves ==
    ASSUME LaunchInv, PeerAlloc
    PROVE  LaunchInv' /\ ReleaseStep
<1>0. OtherTypes /\ info \in [Id -> InfoType] /\ wait_queue \in Seq(Id)
  BY OtherTypesHold, Zenon DEF LaunchInv, LaunchTypeOK
<1>1. ASSUME NEW f \in Id
      PROVE  /\ [info EXCEPT ![f].lt = TRUE] \in [Id -> InfoType]
             /\ \A j \in Id : /\ [info EXCEPT ![f].lt = TRUE][j].addr = info[j].addr
                              /\ [info EXCEPT ![f].lt = TRUE][j].waited = info[j].waited
  <2>1. info[f] \in InfoType
    BY <1>0, Zenon
  <2> QED BY <1>0, <2>1, Zenon DEF InfoType
<1>3. ASSUME NEW e \in Id, NEW inf \in [Id -> InfoType],
             \A j \in Id : inf[j].addr = info[j].addr /\ inf[j].waited = info[j].waited,
             PeerExit(e, TRUE, inf, FALSE),
             UNCHANGED <<phase, launcher>>
      PROVE  LaunchInv' /\ ReleaseStep
  <2> DEFINE replaced == TRUE
             dm == FALSE
  <2>1. replaced \in BOOLEAN /\ dm \in BOOLEAN /\ PeerExit(e, replaced, inf, dm)
    BY <1>3, Zenon
  <2> HIDE DEF replaced, dm
  <2> QED BY ONLY <2>1, <1>3, LaunchInv, ExitPreserves, Zenon
<1>4. CASE UNCHANGED launchVars
  <2>1. UNCHANGED <<info, place, channel, wait_queue, doomed, unstart_host, phase, launcher,
                    servant_peers, listening>>
    BY <1>4, Zenon DEF launchVars
  <2>2. QuietStep
    BY <1>0, <2>1, SamePlacesEffect, Zenon
  <2>3. OtherTypes'
    BY <1>0, <2>1, Zenon DEF OtherTypes
  <2> QED BY <2>1, <2>2, <2>3, QuietStepOtherTypes, Zenon
<1>5. ASSUME NEW f \in Id, info' = [info EXCEPT ![f].lt = TRUE],
             UNCHANGED <<place, channel, wait_queue, doomed, unstart_host, phase,
                         launcher, servant_peers, listening>>
      PROVE  LaunchInv' /\ ReleaseStep
  <2>1. QuietStep
    BY <1>1, <1>5, SamePlacesEffect, Zenon
  <2>2. OtherTypes'
    BY <1>0, <1>5, Zenon DEF OtherTypes
  <2> QED BY <1>5, <2>1, <2>2, QuietStepOtherTypes, Zenon
<1>6. ASSUME NEW f \in Id, NEW e \in Id, UNCHANGED <<phase, launcher>>,
             \/ PeerExit(e, TRUE, [info EXCEPT ![f].lt = TRUE], FALSE)
             \/ PeerExit(f, TRUE, info, FALSE)
      PROVE  LaunchInv' /\ ReleaseStep
  <2> DEFINE inf == [info EXCEPT ![f].lt = TRUE]
  <2>1. /\ inf \in [Id -> InfoType]
        /\ \A j \in Id : inf[j].addr = info[j].addr /\ inf[j].waited = info[j].waited
    BY <1>1, Zenon
  <2>2. CASE PeerExit(e, TRUE, inf, FALSE)
    <3> HIDE DEF inf
    <3> QED BY <1>3, <1>6, <2>1, <2>2, Zenon
  <2>3. CASE PeerExit(f, TRUE, info, FALSE)
    BY <1>0, <1>3, <1>6, <2>3, Zenon
  <2> QED BY <1>6, <2>2, <2>3, Zenon
<1>7. \A f \in temp_peers : f \in Id
  BY Zenon DEF temp_peers, peers, At
<1>8. \A e \in lt_peers : e \in Id
  BY Zenon DEF lt_peers, peers, At
<1> QED BY <1>4, <1>5, <1>6, <1>7, <1>8, Zenon DEF PeerAlloc

-----------------------------------------------------------------------------
(* The steps *)

\* A dispatch starts without peers.
LEMMA InitEstablishes ==
    Init => IInv
<1> SUFFICES ASSUME Init PROVE IInv
  BY Zenon
<1>1. LaunchInv
  BY LaunchInitEstablishes, Zenon DEF Init
<1>2. CoordIdle \in CoordType
  BY Zenon DEF CoordType, CoordIdle
<1>3. coord = CoordIdle /\ guard = NoId /\ finished = FALSE
  BY Zenon DEF Init
<1> QED BY <1>1, <1>2, <1>3, Zenon DEF IInv

\* The coordinator, the entry guard and the finished flag keep their shape.
LEMMA DispatchTypes ==
    ASSUME IInv, [Next]_vars
    PROVE  coord' \in CoordType /\ guard' \in Id \cup {NoId} /\ finished' \in BOOLEAN
<1>0. /\ coord \in CoordType /\ guard \in Id \cup {NoId} /\ finished \in BOOLEAN
      /\ wait_queue \in Seq(Id)
  BY Zenon DEF IInv, LaunchInv, LaunchTypeOK
<1>1. CASE UNCHANGED <<coord, guard, finished>>
  BY <1>0, <1>1, Zenon
<1>2. ASSUME NEW id \in Id, SendDone(id)
      PROVE  coord' \in CoordType /\ UNCHANGED <<guard, finished>>
  BY <1>0, <1>2, Zenon DEF SendDone, CoordType, CoordTempPc, CoordIdle
<1>3. ASSUME NEW id \in Id, VerifyFailed(id)
      PROVE  guard' \in {guard, id} /\ UNCHANGED <<coord, finished>>
  BY <1>3, Zenon DEF VerifyFailed
<1>4. ASSUME NEW id \in Id PROVE AfterExit(id) \in CoordType
  <2> DEFINE q == Append(wait_queue, id)
  <2>0. wait_queue \in Seq(Id)
    BY <1>0, Zenon
  <2>1. q \in Seq(Id) /\ Len(q) = Len(wait_queue) + 1 /\ Len(wait_queue) \in Nat
    BY <2>0, SMTT(30)
  <2>2. Head(q) \in Id
    BY <2>1, SMTT(30)
  <2> QED BY <2>2, Zenon DEF AfterExit, CoordType, CoordTempPc
<1>5. ASSUME PeerAlloc PROVE coord' \in CoordType /\ UNCHANGED <<guard, finished>>
  <2>1. CoordTempPc \in CoordType
    BY Zenon DEF CoordType, CoordTempPc
  <2>2. temp_peers \subseteq Id /\ lt_peers \subseteq Id
    BY Zenon DEF temp_peers, lt_peers, peers, At
  <2>3. coord' = CoordTempPc \/ \E e \in Id : coord' = AfterExit(e)
    BY <1>5, <2>2, Zenon DEF PeerAlloc
  <2>4. UNCHANGED <<guard, finished>>
    BY <1>5, ZenonT(60) DEF PeerAlloc
  <2> QED BY <1>4, <2>1, <2>3, <2>4, ZenonT(60)
<1>6. ASSUME StartTempPeer PROVE coord' \in CoordType /\ UNCHANGED <<guard, finished>>
  BY <1>0, <1>6, SMTT(30) DEF StartTempPeer, CoordType, CoordIdle
<1>7. ASSUME Finish PROVE finished' = TRUE /\ UNCHANGED <<coord, guard>>
  BY <1>7, Zenon DEF Finish
<1>8. \/ UNCHANGED <<coord, guard, finished>>
      \/ \E id \in Id : SendDone(id) \/ VerifyFailed(id)
      \/ PeerAlloc \/ StartTempPeer \/ Finish
  BY Zenon DEF Next, vars, ReceiveHost, SendAborted, Recv, Result, Wake, AsyncRun, Disconnect, NotHasJob
<1> QED BY <1>0, <1>1, <1>2, <1>3, <1>5, <1>6, <1>7, <1>8, ZenonT(60)

\* Every step preserves the launcher's invariant.
LEMMA LaunchStep ==
    ASSUME LaunchInv, [Next]_vars
    PROVE  LaunchInv' /\ ReleaseStep
<1>1. CASE \E id \in Id, a \in Addr : ReceiveHost(id, a)
  <2> DEFINE lt == TRUE
  <2>1. PICK id \in Id, a \in Addr : NewPeer(id, a, lt)
    BY <1>1, Zenon DEF ReceiveHost
  <2>2. lt \in BOOLEAN
    BY Zenon
  <2> HIDE DEF lt
  <2> QED BY <2>1, <2>2, NewPeerPreserves, Zenon
<1>2. CASE \E id \in Id : SendDone(id)
  BY <1>2, SendReadyPreserves, Zenon DEF SendDone
<1>3. CASE \E id \in Id : SendAborted(id)
  BY <1>3, AbortSendPreserves, Zenon DEF SendAborted
<1>4. CASE \E pool \in BOOLEAN : Recv(pool)
  BY <1>4, LaunchRecvPreserves, Zenon DEF Recv
<1>5. CASE \E id \in Id : Result(id)
  BY <1>5, LaunchResultPreserves, Zenon DEF Result
<1>6. CASE Wake
  BY <1>6, LaunchWakePreserves, Zenon DEF Wake
<1>7. CASE \E id \in Id : AsyncRun(id)
  BY <1>7, StartStepPreserves, Zenon DEF AsyncRun
<1>8. CASE \/ \E id \in Id : Disconnect(id)
           \/ \E id \in Id, own \in BOOLEAN : NotHasJob(id, own)
  BY <1>8, DisconnectPreserves, Zenon
<1>9. CASE \E id \in Id : VerifyFailed(id)
  BY <1>9, VerifyFailedPreserves, Zenon
<1>10. CASE PeerAlloc
  BY <1>10, PeerAllocPreserves, Zenon
<1>11. CASE StartTempPeer
  <2> DEFINE temp == TRUE
  <2>1. /\ temp \in BOOLEAN /\ StartFromQueue(wait_queue, place, info, temp, FALSE)
        /\ UNCHANGED <<unstart_host, phase, launcher, servant_peers, listening>>
    BY <1>11, Zenon DEF StartTempPeer
  <2> HIDE DEF temp
  <2>2. QuietStep
    BY ONLY <2>1, WakeEffect, LaunchInv, Zenon
  <2>3. OtherTypes'
    BY <2>1, OtherTypesHold, Zenon DEF OtherTypes
  <2> QED BY <2>1, <2>2, <2>3, QuietStepOtherTypes, ZenonT(60)
<1>12. CASE Finish \/ UNCHANGED vars
  <2>1. UNCHANGED <<info, place, channel, wait_queue, doomed, unstart_host, phase, launcher,
                    servant_peers, listening>>
    BY <1>12, Zenon DEF Finish, vars, launchVars
  <2>2. OtherTypes /\ info \in [Id -> InfoType]
    BY OtherTypesHold, Zenon
  <2>3. OtherTypes'
    BY <2>1, <2>2, Zenon DEF OtherTypes
  <2>4. QuietStep
    BY <2>1, <2>2, SamePlacesEffect, Zenon
  <2> QED BY <2>1, <2>3, <2>4, QuietStepOtherTypes, ZenonT(60)
<1> QED BY <1>1, <1>2, <1>3, <1>4, <1>5, <1>6, <1>7, <1>8, <1>9, <1>10, <1>11, <1>12, ZenonT(60) DEF Next

\* Every step of Dispatch, the coordinator and the launcher.
LEMMA StepPreserves ==
    IInv /\ [Next]_vars => IInv' /\ ReleaseStep
BY LaunchStep, DispatchTypes, Zenon DEF IInv

-----------------------------------------------------------------------------
(* The theorems *)

\* The inductive invariant holds in every state of every download.
THEOREM Invariance == Spec => []IInv
BY InitEstablishes, StepPreserves, PTL DEF Spec

\* Every variable keeps its shape; in particular the launch channel never holds
\* more than CHANNEL_BUFFER PeerInfos.
THEOREM TypeCorrect == Spec => []TypeOK
<1>1. IInv => TypeOK
  BY Zenon DEF IInv, LaunchInv, TypeOK, CoordType
<1> QED BY <1>1, Invariance, PTL

\* The launch channel and the wait queue never lose or duplicate a PeerInfo
\* (take_from_wait_queue, do_start_peer, the receive branch of PeerLaunch::run).
THEOREM QueuesOwn == Spec => []QueuesOwnTheirPeers
<1>1. IInv => QueuesOwnTheirPeers
  BY Zenon DEF IInv, LaunchInv
<1> QED BY <1>1, Invariance, PTL

\* At most one accepted PeerInfo per address, for any number of hosts, peers and
\* quotas: the purpose of unstart_host.
THEOREM UniqueHolder == Spec => []OneHolderPerAddr
<1>1. IInv => OneHolderPerAddr
  BY Zenon DEF IInv, LaunchInv
<1> QED BY <1>1, Invariance, PTL

\* The address of every accepted PeerInfo is in unstart_host.
THEOREM HolderBlocked == Spec => []HolderIsBlocked
<1>1. IInv => HolderIsBlocked
  BY Zenon DEF IInv, LaunchInv
<1> QED BY <1>1, Invariance, PTL

\* The connections of a task never exceed torrent_peer_conn_limit, whatever the
\* limits on asynchronous starts.
THEOREM ConnectionLimit == Spec => []ConnLimitRespected
<1>1. IInv => ConnLimitRespected
  BY Zenon DEF IInv, LaunchInv
<1> QED BY <1>1, Invariance, PTL

\* An address leaves unstart_host only together with the PeerInfo that held it
\* (handle_peer_start_result, on_peer_exit).
THEOREM ReleaseOnlyWithHolder == Spec => ReleasedWithHolder
<1>1. IInv /\ [Next]_vars => [ReleaseStep]_vars
  BY StepPreserves, Zenon
<1> QED BY <1>1, Invariance, PTL DEF Spec, ReleasedWithHolder
=============================================================================
