----------------------------- MODULE RoutingTable -----------------------------
(***************************************************************************)
(* bt/dht/routing.rs: the Kademlia routing table.  Scans and the refresh   *)
(* task share it behind a mutex: every operation is a step.  A node id is  *)
(* a tuple of bits.                                                        *)
(* The code compares the time since an event with REFRESH_INTERVAL and     *)
(* with nothing else, so a time is kept as an age that stops at            *)
(* RefreshInterval + 1.  Addresses are left out.                           *)
(***************************************************************************)
EXTENDS Integers, SequencesExt

CONSTANTS
    IdBits,           \* bits of a node id, 160 in the source
    K,                \* K_BUCKET_SIZE
    OwnId,            \* own_id
    Known,            \* ids of the nodes that exist
    RefreshInterval   \* REFRESH_INTERVAL

Ids == [1 .. IdBits -> {0, 1}]
ASSUME RoutingAssumption ==
    /\ IdBits \in Nat \ {0} /\ K \in Nat \ {0} /\ RefreshInterval \in Nat
    /\ OwnId \in Ids /\ Known \subseteq Ids

Old == RefreshInterval + 1
Ages == 0 .. Old
Grow(age) == IF age < Old THEN age + 1 ELSE Old
Nodes == [id : Ids, last_seen : Ages, responsed : BOOLEAN]

VARIABLE buckets   \* the buckets in the order of the vector

NewNode(id) == [id |-> id, last_seen |-> 0, responsed |-> TRUE]
NewBucket(prefix, len, can_split) ==
    [prefix |-> prefix, len |-> len, nodes |-> <<>>, lastchange |-> 0, can_split |-> can_split]

RtInit == buckets = <<NewBucket([i \in 1 .. IdBits |-> 0], 0, TRUE)>>

-----------------------------------------------------------------------------
(* Buckets *)

Covers(b, id) == \A i \in 1 .. b.len : b.prefix[i] = id[i]
Positions(b, id) == {p \in DOMAIN b.nodes : b.nodes[p].id = id}
\* pop_stale_node: the first node that failed to answer and was not seen for long.
Stale(n) == ~n.responsed /\ n.last_seen > RefreshInterval
\* Mutant: the oldest node is evicted, whatever it answered.
OldestAt(b) == 1
StaleAt(b) == SelectInSeq(b.nodes, Stale)

MoveToEnd(s, p, n) == Append(RemoveAt(s, p), n)
Touched(b, nodes) == [b EXCEPT !.nodes = nodes, !.lastchange = 0]

\* Bucket::add_node: update, add, replace a stale node, or BucketFull.
BucketAdd(b, n) ==
    CASE Positions(b, n.id) # {} ->
            [ok |-> TRUE, b |-> Touched(b, MoveToEnd(b.nodes, Min(Positions(b, n.id)), n))]
      [] Positions(b, n.id) = {} /\ Len(b.nodes) < K ->
            [ok |-> TRUE, b |-> Touched(b, Append(b.nodes, n))]
      [] Positions(b, n.id) = {} /\ Len(b.nodes) >= K /\ StaleAt(b) # 0 ->
            [ok |-> TRUE, b |-> Touched(b, MoveToEnd(b.nodes, StaleAt(b), n))]
      [] OTHER -> [ok |-> FALSE, b |-> b]

\* Mutant: both halves keep the prefix they come from.
HalfSame(b, bit) == NewBucket(b.prefix, b.len + 1, b.can_split)
\* Bucket::split: the next bit is cleared in one prefix and set in the other.
Half(b, bit) == NewBucket([b.prefix EXCEPT ![b.len + 1] = bit], b.len + 1, b.can_split)

\* Bucket::random_node: the prefix and the bit after it are kept, the rest is drawn.
random_node(b) == {id \in Ids : \A i \in 1 .. b.len + 1 : id[i] = b.prefix[i]}

-----------------------------------------------------------------------------
(* The table *)

\* find_or_create_bucket: the first bucket that contains the id.
FindBucket(bs, id) == SelectInSeq(bs, LAMBDA b : Covers(b, id))

\* split_bucket: the nodes are added to the halves one by one; a half may be split
\* again only if it holds the own id.
split_bucket(bs, i) ==
    LET half(bit) ==
            LET h == Half(bs[i], bit)
                own == SelectSeq(bs[i].nodes, LAMBDA n : Covers(h, n.id))
            IN  [FoldLeft(LAMBDA b, n : BucketAdd(b, n).b, h, own)
                    EXCEPT !.can_split = Covers(h, OwnId)]
    IN  RemoveAt(bs, i) \o <<half(0), half(1)>>

\* RoutingTable::add_node: one split at most, then the node is added or lost.
TableAdd(bs, id) ==
    LET i == FindBucket(bs, id)
        r == BucketAdd(bs[i], NewNode(id))
        split == split_bucket(bs, i)
        j == FindBucket(split, id)
    IN  IF id = OwnId THEN bs
        ELSE IF r.ok THEN [bs EXCEPT ![i] = r.b]
        ELSE IF bs[i].can_split
        THEN [split EXCEPT ![j] = BucketAdd(split[j], NewNode(id)).b]
        ELSE bs

Distance(a, b) == [i \in 1 .. IdBits |-> (a[i] + b[i]) % 2]
\* The order of NodeWithDistance.
Nearer(target, a, b) ==
    LET x == Distance(a, target)  y == Distance(b, target)
    IN  \E i \in 1 .. IdBits : x[i] < y[i] /\ \A j \in 1 .. i - 1 : x[j] = y[j]

AllNodes(bs) == FoldLeft(LAMBDA acc, b : acc \o b.nodes, <<>>, bs)
\* find_closest_nodes: a heap of count nodes from which the farthest is popped,
\* then sorted.  The mutant pops the nearest.
PopNearest(target, heap) ==
    heap \ {x \in heap : \A y \in heap \ {x} : Nearer(target, x, y)}
PopFarthest(target, heap) ==
    heap \ {x \in heap : \A y \in heap \ {x} : Nearer(target, y, x)}
find_closest_nodes(bs, target, count) ==
    LET push(heap, n) ==
            LET h == heap \cup {n.id}
            IN  IF Cardinality(h) > count THEN PopFarthest(target, h) ELSE h
    IN  SetToSortSeq(FoldLeft(push, {}, AllNodes(bs)), LAMBDA a, b : Nearer(target, a, b))

-----------------------------------------------------------------------------
(* Steps: each holds the mutex of the table *)

\* check_add_node after a ping that was answered, and the refresh task for every
\* node of an answer.
AddNode(id) == buckets' = TableAdd(buckets, id)

\* find_bucket_for_node and the position of the node in its bucket.
FoundAt(id, i, p) ==
    /\ i = FindBucket(buckets, id) /\ i # 0
    /\ p \in Positions(buckets[i], id) /\ p = Min(Positions(buckets[i], id))

mark_node_unresponsive(id) ==
    \E i \in DOMAIN buckets : \E p \in DOMAIN buckets[i].nodes :
        /\ FoundAt(id, i, p)
        /\ buckets' = [buckets EXCEPT ![i].nodes[p].responsed = FALSE]
mark_node_responded(id) ==
    \E i \in DOMAIN buckets : \E p \in DOMAIN buckets[i].nodes :
        /\ FoundAt(id, i, p)
        /\ buckets' = [buckets EXCEPT ![i].nodes = MoveToEnd(@, p, NewNode(id))]

\* One turn of the refresh loop: the first old bucket is touched.
next_refresh_bucket == SelectInSeq(buckets, LAMBDA b : b.lastchange > RefreshInterval)
RefreshTurn ==
    /\ next_refresh_bucket # 0
    /\ buckets' = [buckets EXCEPT ![next_refresh_bucket].lastchange = 0]

Tick ==
    buckets' = [i \in DOMAIN buckets |->
        [buckets[i] EXCEPT !.lastchange = Grow(@),
                           !.nodes = [p \in DOMAIN @ |-> [@[p] EXCEPT !.last_seen = Grow(@)]]]]

RtNext ==
    \/ \E id \in Known : AddNode(id) \/ mark_node_unresponsive(id) \/ mark_node_responded(id)
    \/ RefreshTurn \/ Tick

-----------------------------------------------------------------------------
(* Properties *)

RtTypeOK ==
    \A i \in DOMAIN buckets :
        /\ buckets[i].prefix \in Ids /\ buckets[i].len \in 0 .. IdBits
        /\ buckets[i].lastchange \in Ages /\ buckets[i].can_split \in BOOLEAN
        /\ \A p \in DOMAIN buckets[i].nodes : buckets[i].nodes[p] \in Nodes

\* Every id has exactly one bucket, however often buckets were split and the halves
\* pushed to the end: find_or_create_bucket never panics, and no split goes past
\* the last bit of an id.  A node lies in the bucket of its id, once, never the own
\* id, K to a bucket; only the bucket of the own id can be split.
RtPlaced ==
    /\ \A id \in Ids : Cardinality({i \in DOMAIN buckets : Covers(buckets[i], id)}) = 1
    /\ \A i \in DOMAIN buckets :
           /\ buckets[i].len < IdBits /\ Len(buckets[i].nodes) <= K
           /\ buckets[i].can_split <=> Covers(buckets[i], OwnId)
           /\ \A p \in DOMAIN buckets[i].nodes :
                  /\ Covers(buckets[i], buckets[i].nodes[p].id)
                  /\ Positions(buckets[i], buckets[i].nodes[p].id) = {p}
                  /\ buckets[i].nodes[p].id # OwnId

\* No step loses a node that still answers or was seen lately: a full bucket gives
\* up a stale node only, and a split loses none.
LiveNodesKept ==
    [][\A n \in ToSet(AllNodes(buckets)) :
           ~Stale(n) => \E m \in ToSet(AllNodes(buckets)') : m.id = n.id]_buckets

\* What find_closest_nodes returns is the count nodes nearest to the target, the
\* nearest first.
ClosestCorrect ==
    LET known == {n.id : n \in ToSet(AllNodes(buckets))}
    IN  known # {} =>
        \A target \in Ids, count \in 1 .. 2 :
            LET found == find_closest_nodes(buckets, target, count)
            IN  /\ Len(found) = Min({count, Cardinality(known)})
                /\ ToSet(found) \subseteq known
                /\ \A k \in DOMAIN found : \A id \in known :
                       Nearer(target, id, found[k]) => \E l \in 1 .. k - 1 : found[l] = id
=============================================================================
