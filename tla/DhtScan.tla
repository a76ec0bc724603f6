------------------------------- MODULE DhtScan -------------------------------
(***************************************************************************)
(* bt/dht.rs: find_peers and the timed task that starts it, one for every  *)
(* download or magnet, and the dispatch's flag that asks for a scan.  All  *)
(* scans share the permits of DHT::gpcs; a query is a spawned task that    *)
(* outlives its scan.  A query remembers nothing of the nodes it visited,  *)
(* so a queue of nodes is a number.  The calls of UdpServer are assumed to *)
(* end (module UdpServer shows it).                                        *)
(***************************************************************************)
EXTENDS Integers, FiniteSetsExt, Functions, Bags

CONSTANTS
    Tasks,         \* downloads and magnets
    Askers,        \* those whose wait queue runs empty
    Permits,       \* the permits of gpcs, GET_PEERS_CONCURRENCY of them
    Expect,        \* DHT_EXPECT_PEERS
    Closest,       \* nodes the routing table offers, EXPECT_CLOSEST_NODE_NUM at most
    Bootstraps,    \* bootstrap_nodes.len()
    Supply,        \* nodes that the network will name
    ScanLimit      \* scans a task starts

ASSUME DhtScanAssumption ==
    /\ Permits # {} /\ Expect \in Nat \ {0} /\ Askers \subseteq Tasks
    /\ Closest \in Nat /\ Bootstraps \in Nat /\ Supply \in Nat /\ ScanLimit \in Nat

VARIABLES
    scan,       \* control state of the timed task of every task
    queries,    \* running queries of every task's scan, by the permits they hold
    results,    \* bag of results its scan has not taken from futures
    orphans,    \* running queries whose scan is over
    permits,    \* permits of gpcs that are available
    find_flag,  \* peer_find_flag
    signal,     \* messages in dht_peer_scan_signal
    asker,      \* control state of take_from_wait_queue
    supply      \* nodes the network has yet to name

scanVars == <<scan, queries, results, orphans, permits, find_flag, signal, asker, supply>>
queryVars == <<queries, results, orphans, permits, supply>>
flagVars == <<find_flag, signal, asker>>

Idle == [pc |-> "idle", queue |-> 0, used |-> 0, count |-> 0, left |-> ScanLimit]

ScanInit ==
    /\ scan = [t \in Tasks |-> Idle]
    /\ queries = [t \in Tasks |-> {}]
    /\ results = [t \in Tasks |-> EmptyBag]
    /\ orphans = {}
    /\ permits = Permits
    /\ find_flag = [t \in Tasks |-> FALSE]
    /\ signal = [t \in Tasks |-> 0]
    /\ asker = [t \in Tasks |-> "idle"]
    /\ supply = Supply

\* futures.is_empty()
NoFutures(t) == queries[t] = {} /\ results[t] = EmptyBag
Goto(t, pc) == scan' = [scan EXCEPT ![t].pc = pc]
\* futures is dropped: the queries go on, their results are lost.
DropFutures(t) ==
    /\ orphans' = orphans \cup queries[t]
    /\ queries' = [queries EXCEPT ![t] = {}]
    /\ results' = [results EXCEPT ![t] = EmptyBag]
    /\ UNCHANGED <<permits, supply>>

-----------------------------------------------------------------------------
(* DHTTimedTask::run *)

\* find_peers of the timed task; with a long wait queue nothing is searched.
Begin(t) ==
    /\ scan[t].pc = "idle" /\ scan[t].left > 0
    /\ \E enough \in BOOLEAN, n \in 0 .. Closest :
          scan' = [scan EXCEPT ![t] =
                    [scan[t] EXCEPT !.pc = IF enough THEN "idle" ELSE "top", !.left = @ - 1,
                                    !.queue = IF enough THEN 0 ELSE n, !.used = 0, !.count = 0]]

TickScan(t) == Begin(t) /\ UNCHANGED <<queryVars, flagVars>>

SignalScan(t) ==
    /\ signal[t] > 0
    /\ Begin(t)
    /\ signal' = [signal EXCEPT ![t] = @ - 1]
    /\ UNCHANGED <<queryVars, find_flag, asker>>

-----------------------------------------------------------------------------
(* find_peers *)

\* An empty queue is given the next bootstrap node whose name resolves.
Top(t) ==
    /\ scan[t].pc = "top"
    /\ IF scan[t].queue > 0 THEN Goto(t, "choose")
       ELSE \/ \E u \in scan[t].used + 1 .. Bootstraps :
                  scan' = [scan EXCEPT ![t].used = u, ![t].queue = 1, ![t].pc = "choose"]
            \/ scan' = [scan EXCEPT ![t].used = Bootstraps, ![t].pc = "choose"]
    /\ UNCHANGED <<queryVars, flagVars>>

\* Without a permit or a node the next result is awaited; next() of an empty set
\* of futures is None at once.  AwaitAlways forgets that.
AwaitAlways(t) == permits = {} \/ scan[t].queue = 0
Await(t) == (permits = {} \/ scan[t].queue = 0) /\ ~NoFutures(t)
Choose(t) ==
    /\ scan[t].pc = "choose"
    /\ Goto(t, IF Await(t) THEN "next" ELSE "pop")
    /\ UNCHANGED <<queryVars, flagVars>>

\* A finished query: its nodes are queued; enough peers end the search.
NextResult(t, r) ==
    /\ scan[t].pc = "next"
    /\ scan' = [scan EXCEPT ![t] =
            [scan[t] EXCEPT !.queue = @ + r.nodes, !.count = @ + r.found,
                            !.pc = IF scan[t].count + r.found >= Expect THEN "rest" ELSE "pop"]]
    /\ results' = [results EXCEPT ![t] = @ (-) SetToBag({r})]
    /\ UNCHANGED <<queries, orphans, permits, supply, flagVars>>

Pop(t) ==
    /\ scan[t].pc = "pop"
    /\ IF scan[t].queue > 0
       THEN scan' = [scan EXCEPT ![t].queue = @ - 1, ![t].pc = "acquire"]
       ELSE Goto(t, IF NoFutures(t) THEN "idle" ELSE "top")
    /\ UNCHANGED <<queryVars, flagVars>>

\* acquire_owned, then the query is spawned with the permit.
Acquire(t) ==
    /\ scan[t].pc = "acquire"
    /\ \E p \in permits :
          /\ queries' = [queries EXCEPT ![t] = @ \cup {p}]
          /\ permits' = permits \ {p}
    /\ Goto(t, "top")
    /\ UNCHANGED <<results, orphans, supply, flagVars>>

\* Enough was found: every queued node is pinged first, then the dispatch is told.
Rest(t) ==
    /\ scan[t].pc = "rest"
    /\ IF scan[t].queue > 0
       THEN scan' = [scan EXCEPT ![t].queue = @ - 1] /\ UNCHANGED <<queryVars, find_flag>>
       ELSE /\ Goto(t, "idle")
            /\ DropFutures(t)
            /\ find_flag' = [find_flag EXCEPT ![t] = FALSE]
    /\ UNCHANGED <<signal, asker>>

\* The task is destroyed: its timed task is aborted at an await, its queries are not.
Destroy(t) ==
    /\ scan[t].pc \in {"idle", "next", "acquire", "rest"}
    /\ Goto(t, "gone")
    /\ DropFutures(t)
    /\ UNCHANGED flagVars

-----------------------------------------------------------------------------
(* async_find_peers *)

\* ping and get_peers are over: the node did not answer, or named peers and nodes
\* that are not farther than min_dist.  The permit is dropped; KeepOnFail keeps it
\* when there is nothing to report.
KeepOnFail(p, n, v) == IF n + v = 0 THEN permits ELSE permits \cup {p}
Release(p, n, v) == permits \cup {p}

Query(t, p) ==
    /\ queries' = [queries EXCEPT ![t] = @ \ {p}]
    /\ \E n \in 0 .. Min({2, supply}), v \in 0 .. 1 :
          /\ results' = [results EXCEPT ![t] = @ (+) SetToBag({[nodes |-> n, found |-> v]})]
          /\ supply' = supply - n
          /\ permits' = Release(p, n, v)
    /\ UNCHANGED <<scan, orphans, flagVars>>

OrphanQuery(p) ==
    /\ orphans' = orphans \ {p}
    /\ permits' = permits \cup {p}
    /\ UNCHANGED <<scan, queries, results, supply, flagVars>>

-----------------------------------------------------------------------------
(* take_from_wait_queue of the dispatch, with an empty wait queue *)

SendSignal(t) ==
    /\ asker[t] = "idle" /\ ~find_flag[t] /\ signal[t] = 0 /\ scan[t].pc # "gone"
    /\ signal' = [signal EXCEPT ![t] = @ + 1]
    /\ asker' = [asker EXCEPT ![t] = "sent"]
    /\ UNCHANGED <<scan, queryVars, find_flag>>

SetFlag(t) ==
    /\ asker[t] = "sent"
    /\ find_flag' = [find_flag EXCEPT ![t] = TRUE]
    /\ asker' = [asker EXCEPT ![t] = "idle"]
    /\ UNCHANGED <<scan, queryVars, signal>>

ScanStep(t) ==
    \/ Top(t) \/ Choose(t) \/ Pop(t) \/ Rest(t)
    \/ \E r \in BagToSet(results[t]) : NextResult(t, r)

ScanNext ==
    \/ \E t \in Tasks : TickScan(t) \/ SignalScan(t) \/ ScanStep(t) \/ Acquire(t)
                        \/ Destroy(t) \/ \E p \in queries[t] : Query(t, p)
    \/ \E t \in Askers : SendSignal(t) \/ SetFlag(t)
    \/ \E p \in orphans : OrphanQuery(p)

ScanSpec == ScanInit /\ [][ScanNext]_scanVars

-----------------------------------------------------------------------------
(* Properties *)

ScanTypeOK ==
    /\ permits \subseteq Permits
    /\ \A t \in Tasks : /\ scan[t].queue \in Nat /\ scan[t].used \in 0 .. Bootstraps
                        /\ signal[t] \in 0 .. 1 /\ find_flag[t] \in BOOLEAN

\* A permit is available or held by one running query: scans that end early or are
\* aborted, and queries that outlive them, give every permit back, and once.
PermitsHeld ==
    /\ permits \cup orphans \cup UNION {queries[t] : t \in Tasks} = Permits
    /\ permits \cap orphans = {}
    /\ \A t \in Tasks : /\ queries[t] \cap (permits \cup orphans) = {}
                        /\ \A u \in Tasks \ {t} : queries[t] \cap queries[u] = {}

\* A scan comes to its end although other tasks use the same permits: it never
\* waits for a result that cannot come.
ScanEnds == \A t \in Tasks : (scan[t].pc # "idle") ~> (scan[t].pc \in {"idle", "gone"})

\* task.rs:68: find_task_finished reports that the query is over.  While the flag
\* is up a scan is under way or asked for.
FlagMeansScan ==
    \A t \in Tasks : find_flag[t] =>
        signal[t] > 0 \/ asker[t] = "sent" \/ scan[t].pc # "idle"
=============================================================================
