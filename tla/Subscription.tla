----------------------------- MODULE Subscription -----------------------------
(***************************************************************************)
(* core/rss.rs over the connection pool of core/db.rs, with add_task of    *)
(* service/task_service.rs, the rows of mapper/rss.rs and mapper/torrent.rs*)
(* and the start of the TaskManager.  A worker is a spawned flush_feed,    *)
(* one for every feed, or a caller of the API.  A database call that is    *)
(* made and dropped between two awaits is one step that needs a free       *)
(* connection; the calls that keep theirs across awaits are modelled so.   *)
(***************************************************************************)
EXTENDS Integers, FiniteSets, Functions, Sequences

CONSTANTS
    Feeds, Guids, Torrents,
    Items,        \* Items[f][v]: the guids of version v of feed f
    TorrentOf,    \* the torrent of a guid
    Subscribed,       \* feeds whose first version was consumed before
    Callers,      \* API calls of add_rss_feed and add_task, each made once
    PoolLimit,    \* DATABASE_CONN_LIMIT
    Concurrency,  \* rss_refresh_concurrency
    RefreshLimit, CrashLimit

Workers == Feeds \cup Callers
ASSUME SubscriptionAssumption ==
    /\ PoolLimit \in Nat \ {0} /\ Concurrency \in Nat \ {0}
    /\ IsFiniteSet(Feeds) /\ IsFiniteSet(Callers)
    /\ Feeds \cap Callers = {} /\ DOMAIN Items = Feeds
    /\ Subscribed \subseteq Feeds

VARIABLES
    rss,        \* table rss: feed -> hash and whether last_update is old
    marks,      \* table rss_mark_read
    torrents,   \* table torrent
    running,    \* tasks in the TaskManager, for every torrent
    published,  \* the version a feed's server delivers
    free,       \* permits of the pool's semaphore
    refresher,  \* flush_all_feeds
    worker,
    boot,       \* TaskManager::init
    dht_conn,   \* connections held by refresh_routing_table
    doubled,    \* torrents added by a call before list_torrent was read
    crashes

subVars == <<rss, marks, torrents, running, published, free, refresher, worker, boot,
             dht_conn, doubled, crashes>>
tables == <<rss, marks, torrents>>
outside == <<published, crashes>>

NoTorrent == "none"
IdleWorker == [pc |-> "idle", feed |-> "none", snap |-> 0, got |-> 0, items |-> <<>>,
               read |-> {}, torrent |-> NoTorrent, held |-> 0]
NewCaller == [IdleWorker EXCEPT !.pc = "new"]
Starting == [pc |-> "init", todo |-> {}]
Waiting == [pc |-> "idle", todo |-> <<>>, rounds |-> RefreshLimit]

SubInit ==
    /\ rss = [f \in Subscribed |-> [hash |-> 1, old |-> TRUE]]
    /\ marks = {m \in Subscribed \X Guids : \E i \in DOMAIN Items[m[1]][1] : Items[m[1]][1][i] = m[2]}
    /\ torrents = {TorrentOf[m[2]] : m \in marks}
    /\ running = [t \in Torrents |-> 0]
    /\ published = [f \in Feeds |-> 1]
    /\ free = PoolLimit
    /\ refresher = Waiting
    /\ worker = [w \in Workers |-> IF w \in Callers THEN NewCaller ELSE IdleWorker]
    /\ boot = Starting
    /\ dht_conn = 0 /\ doubled = {} /\ crashes = 0

Insert(f, k, v) == [x \in DOMAIN f \cup {k} |-> IF x = k THEN v ELSE f[x]]
To(w, pc) == worker' = [worker EXCEPT ![w].pc = pc]
\* The worker returns: its connection goes back, in the mutant it is lost.
KeepConn(w) == worker' = [worker EXCEPT ![w] = IdleWorker] /\ free' = free
Return(w) == worker' = [worker EXCEPT ![w] = IdleWorker] /\ free' = free + worker[w].held
HasConn(w, pc) == worker[w].pc = pc /\ free > 0

-----------------------------------------------------------------------------
(* subscribe and flush_feed *)

CallSubscribe(w, f) ==
    /\ w \in Callers /\ worker[w].pc = "new"
    /\ worker' = [worker EXCEPT ![w].pc = "fetch", ![w].feed = f]
    /\ UNCHANGED <<tables, running, free, refresher, boot, dht_conn, doubled, outside>>

\* add_task with a local file.
CallAddTask(w, t) ==
    /\ w \in Callers /\ worker[w].pc = "new"
    /\ worker' = [worker EXCEPT ![w].pc = "add_torrent", ![w].torrent = t]
    /\ UNCHANGED <<tables, running, free, refresher, boot, dht_conn, doubled, outside>>

\* get_subscribe_channel; a feed whose hash has not changed is done with.
Fetch(w) ==
    /\ worker[w].pc = "fetch"
    /\ LET v == published[worker[w].feed]
       IN  \/ Return(w)
           \/ /\ w \in Feeds => v # worker[w].snap
              /\ worker' = [worker EXCEPT ![w].got = v,
                            ![w].pc = IF w \in Feeds THEN "update" ELSE "add_subscribe"]
              /\ UNCHANGED free
    /\ UNCHANGED <<tables, running, refresher, boot, dht_conn, doubled, outside>>

\* flush_feed keeps this connection until it returns.
UpdateSubscribe(w) ==
    /\ HasConn(w, "update")
    /\ rss' = [rss EXCEPT ![worker[w].feed] = [hash |-> worker[w].got, old |-> FALSE]]
    /\ worker' = [worker EXCEPT ![w].pc = "list_read", ![w].held = 1]
    /\ free' = free - 1
    /\ UNCHANGED <<marks, torrents, running, refresher, boot, dht_conn, doubled, outside>>

AddSubscribe(w) ==
    /\ HasConn(w, "add_subscribe")
    /\ IF worker[w].feed \in DOMAIN rss
       THEN Return(w) /\ UNCHANGED rss
       ELSE /\ rss' = Insert(rss, worker[w].feed, [hash |-> worker[w].got, old |-> FALSE])
            /\ To(w, "list_read") /\ UNCHANGED free
    /\ UNCHANGED <<marks, torrents, running, refresher, boot, dht_conn, doubled, outside>>

-----------------------------------------------------------------------------
(* consumer_not_read *)

\* Mutant: the connection of list_mark_read_guid is kept too.
ListReadKeeps(w) ==
    /\ HasConn(w, "list_read")
    /\ worker' = [worker EXCEPT ![w].pc = "items", ![w].items = Items[worker[w].feed][worker[w].got],
                                ![w].read = {m[2] : m \in {m \in marks : m[1] = worker[w].feed}},
                                ![w].held = @ + 1]
    /\ free' = free - 1
    /\ UNCHANGED <<tables, running, refresher, boot, dht_conn, doubled, outside>>
ListRead(w) ==
    /\ HasConn(w, "list_read")
    /\ worker' = [worker EXCEPT ![w] =
            [@ EXCEPT !.pc = "items", !.items = Items[worker[w].feed][worker[w].got],
                      !.read = {m[2] : m \in {m \in marks : m[1] = worker[w].feed}}]]
    /\ UNCHANGED <<tables, running, free, refresher, boot, dht_conn, doubled, outside>>

NextItem(w) ==
    /\ worker[w].pc = "items"
    /\ LET items == SelectSeq(worker[w].items, LAMBDA g : g \notin worker[w].read)
       IN  IF items = <<>> THEN Return(w)
           ELSE /\ worker' = [worker EXCEPT ![w].pc = "load", ![w].items = items]
                /\ UNCHANGED free
    /\ UNCHANGED <<tables, running, refresher, boot, dht_conn, doubled, outside>>

\* load_torrent_from_rss_feed up to the parsed torrent; an error ends the worker.
Load(w) ==
    /\ worker[w].pc = "load"
    /\ \/ Return(w)
       \/ /\ worker' = [worker EXCEPT ![w].pc = "mark_read",
                                      ![w].torrent = TorrentOf[Head(worker[w].items)]]
          /\ UNCHANGED free
    /\ UNCHANGED <<tables, running, refresher, boot, dht_conn, doubled, outside>>

\* mark_read looks for the pair, the index allows a guid once: a guid that another
\* feed has marked is an error.
MarkRead(w) ==
    /\ HasConn(w, "mark_read")
    /\ LET g == Head(worker[w].items) IN
       \/ /\ \A m \in marks : m[2] = g => m[1] = worker[w].feed
          /\ marks' = marks \cup {<<worker[w].feed, g>>}
          /\ To(w, "add_torrent") /\ UNCHANGED free
       \/ /\ \E m \in marks : m[2] = g /\ m[1] # worker[w].feed
          /\ Return(w) /\ UNCHANGED marks
    /\ UNCHANGED <<rss, torrents, running, refresher, boot, dht_conn, doubled, outside>>

\* The worker goes on with its next item.
Proceed(w) == worker' = [worker EXCEPT ![w].pc = "items",
                         ![w].items = IF @ = <<>> THEN @ ELSE Tail(@)]

\* add_torrent: count, insert and commit are one transaction; AddAgain skips the count.
AddAgain(w) == To(w, "start")
IfAbsent(w) == IF worker[w].torrent \in torrents THEN Proceed(w) ELSE To(w, "start")
AddTorrent(w) ==
    /\ HasConn(w, "add_torrent")
    /\ IfAbsent(w)
    /\ torrents' = torrents \cup {worker[w].torrent}
    /\ doubled' = IF boot.pc \in {"init", "list"} /\ worker[w].torrent \notin torrents
                  THEN doubled \cup {worker[w].torrent} ELSE doubled
    /\ UNCHANGED <<rss, marks, running, free, refresher, boot, dht_conn, outside>>

\* DownloadContent::new, with its own connection, and handle_task.  Both may fail;
\* before TaskManager::init the global is missing and the caller's task panics.
StartTask(w) ==
    /\ HasConn(w, "start")
    /\ \/ /\ boot.pc # "init"
          /\ running' = [running EXCEPT ![worker[w].torrent] = @ + 1]
          /\ Proceed(w) /\ UNCHANGED free
       \/ Return(w) /\ UNCHANGED running
    /\ UNCHANGED <<tables, refresher, boot, dht_conn, doubled, outside>>

WorkerStep(w) ==
    \/ Fetch(w) \/ UpdateSubscribe(w) \/ AddSubscribe(w) \/ ListRead(w) \/ NextItem(w)
    \/ Load(w) \/ MarkRead(w) \/ AddTorrent(w) \/ StartTask(w)

-----------------------------------------------------------------------------
(* flush_all_feeds, which keeps its connection while it waits *)

Tick15 ==
    /\ refresher.pc = "idle" /\ refresher.rounds > 0 /\ boot.pc = "done" /\ free > 0
    /\ refresher' = [pc |-> "spawn", rounds |-> refresher.rounds - 1,
                     todo |-> Restrict(rss, {f \in DOMAIN rss : rss[f].old})]
    /\ free' = free - 1
    /\ UNCHANGED <<tables, running, worker, boot, dht_conn, doubled, outside>>

Flushing == {f \in Feeds : worker[f].pc # "idle"}

SpawnFlush(f) ==
    /\ refresher.pc = "spawn" /\ f \in DOMAIN refresher.todo
    /\ Cardinality(Flushing) < Concurrency
    /\ worker' = [worker EXCEPT ![f] = [IdleWorker EXCEPT !.pc = "fetch", !.feed = f,
                                        !.snap = refresher.todo[f].hash]]
    /\ refresher' = [refresher EXCEPT !.todo = Restrict(@, DOMAIN @ \ {f})]
    /\ UNCHANGED <<tables, running, free, boot, dht_conn, doubled, outside>>

JoinFlush ==
    /\ refresher.pc = "spawn" /\ DOMAIN refresher.todo = {} /\ Flushing = {}
    /\ refresher' = [refresher EXCEPT !.pc = "idle"]
    /\ free' = free + 1
    /\ UNCHANGED <<tables, running, worker, boot, dht_conn, doubled, outside>>

-----------------------------------------------------------------------------
(* TaskManager::init and refresh_routing_table *)

SetManager ==
    /\ boot.pc = "init"
    /\ boot' = [boot EXCEPT !.pc = "list"]
    /\ UNCHANGED <<tables, running, free, refresher, worker, dht_conn, doubled, outside>>

\* load_task_from_db keeps its connection while the tasks are made.
ListTorrent ==
    /\ boot.pc = "list" /\ free > 0
    /\ boot' = [pc |-> "load", todo |-> torrents]
    /\ free' = free - 1
    /\ UNCHANGED <<tables, running, refresher, worker, dht_conn, doubled, outside>>

LoadTask ==
    /\ boot.pc = "load"
    /\ \/ \E t \in boot.todo :
            /\ free > 0
            /\ boot' = [boot EXCEPT !.todo = @ \ {t}]
            /\ running' = [running EXCEPT ![t] = @ + 1]
            /\ UNCHANGED free
       \/ /\ boot.todo = {}
          /\ boot' = [boot EXCEPT !.pc = "done"]
          /\ free' = free + 1
          /\ UNCHANGED running
    /\ UNCHANGED <<tables, refresher, worker, dht_conn, doubled, outside>>

RefreshTable ==
    /\ \/ dht_conn = 0 /\ free > 0 /\ dht_conn' = 1 /\ free' = free - 1
       \/ dht_conn = 1 /\ dht_conn' = 0 /\ free' = free + 1
    /\ UNCHANGED <<tables, running, refresher, worker, boot, doubled, outside>>

-----------------------------------------------------------------------------
(* The world outside *)

Publish(f) ==
    /\ published[f] < Len(Items[f])
    /\ published' = [published EXCEPT ![f] = @ + 1]
    /\ UNCHANGED <<tables, running, free, refresher, worker, boot, dht_conn, doubled, crashes>>

\* 15 minutes have passed since last_update.
GrowOld(f) ==
    /\ f \in DOMAIN rss /\ ~rss[f].old
    /\ rss' = [rss EXCEPT ![f].old = TRUE]
    /\ UNCHANGED <<marks, torrents, running, free, refresher, worker, boot, dht_conn, doubled, outside>>

\* The process ends between two steps and is started again.
Restart ==
    /\ crashes < CrashLimit
    /\ crashes' = crashes + 1
    /\ worker' = [w \in Workers |-> IF worker[w].pc = "new" THEN worker[w] ELSE IdleWorker]
    /\ running' = [t \in Torrents |-> 0]
    /\ refresher' = [Waiting EXCEPT !.rounds = refresher.rounds]
    /\ boot' = Starting
    /\ free' = PoolLimit /\ dht_conn' = 0 /\ doubled' = {}
    /\ UNCHANGED <<tables, published>>

SubNext ==
    \/ \E w \in Callers : \/ \E f \in Feeds : CallSubscribe(w, f)
                          \/ \E t \in Torrents : CallAddTask(w, t)
    \/ \E w \in Workers : WorkerStep(w)
    \/ Tick15 \/ (\E f \in Feeds : SpawnFlush(f)) \/ JoinFlush
    \/ SetManager \/ ListTorrent \/ LoadTask \/ RefreshTable
    \/ (\E f \in Feeds : Publish(f) \/ GrowOld(f)) \/ Restart

SubSpec == SubInit /\ [][SubNext]_subVars

-----------------------------------------------------------------------------
(* Properties *)

SubTypeOK ==
    /\ DOMAIN rss \subseteq Feeds /\ marks \subseteq Feeds \X Guids /\ torrents \subseteq Torrents
    /\ free \in 0 .. PoolLimit /\ DOMAIN refresher.todo \subseteq Feeds
    /\ \A t \in Torrents : running[t] \in Nat

Holders == {w \in Workers : worker[w].held = 1}
Held == Cardinality(Holders)
        + (IF refresher.pc = "idle" THEN 0 ELSE 1) + (IF boot.pc = "load" THEN 1 ELSE 0) + dht_conn
\* A torrent has at most one task, whichever feeds and calls name it and however
\* often it is started again: add_torrent decides.  The exception is a call that
\* is served between TcpServer's start and the reading of list_torrent.
OneTask == \A t \in Torrents : running[t] > 1 => t \in doubled

NeedsConn(w) ==
    worker[w].pc \in {"update", "add_subscribe", "list_read", "mark_read", "add_torrent", "start"}
\* Every connection is in the pool or held by a call under way: no error path of
\* flush_feed, consumer_not_read or add_task loses one.  And the calls that keep one
\* never wait for each other in a circle: one of the holders can go on without
\* another connection.
PoolNeverStuck ==
    /\ free + Held = PoolLimit
    /\ free = 0 =>
           \/ dht_conn > 0
           \/ boot.pc = "load" /\ boot.todo = {}
           \/ \E w \in Workers : worker[w].held = 1 /\ ~NeedsConn(w)
           \/ refresher.pc = "spawn" /\ \A f \in Flushing : worker[f].pc = "fetch"

\* rss.rs:5: updated resources are downloaded.  A feed whose stored hash is that of
\* a version, with no call at work on it, has had the items of that version loaded.
FeedConsumed ==
    \A f \in DOMAIN rss :
        (\A w \in Workers : worker[w].feed # f) =>
            \A i \in DOMAIN Items[f][rss[f].hash] :
                \E m \in marks : m[2] = Items[f][rss[f].hash][i]

\* rss.rs:149: the feeds are refreshed periodically.
RefreshEnds == (refresher.pc = "spawn") ~> (refresher.pc = "idle")
=============================================================================
