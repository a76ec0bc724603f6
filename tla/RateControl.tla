----------------------------- MODULE RateControl -----------------------------
(***************************************************************************)
(* bt/base_peer/rate_control/probe.rs with doro-util's win_minmax and      *)
(* FixedQueue: the window of requests a peer may have in flight, and the   *)
(* recent bandwidth that the servant compares peers by.  Bandwidth is in   *)
(* MiB/s, so that the u32 products of the code wrap at U32; times are the  *)
(* ages, in update intervals, of what they stamp.                          *)
(***************************************************************************)
EXTENDS Integers, Sequences, Functions, FiniteSetsExt

CONSTANTS
    Rates,      \* bandwidths a sample can measure; an ack carries bytes
    QueueLimit  \* BW_RATE_THRESH

ASSUME RateAssumption == Rates \subseteq Nat \ {0} /\ QueueLimit \in Nat \ {0}

UNIT == 256
CWND_HIGHT_GAIN == (UNIT * 5) \div 4
CWND_LOW_GAIN == (UNIT * 4) \div 5
STARTUP_GAIN == (UNIT * 3) \div 2
BW_UP_THRESH == (UNIT * 5) \div 4
BW_UP_KEEP_THRESH == (UNIT * 11) \div 10
BW_DOWN_THRESH == (UNIT * 4) \div 5
FULL_BW_THRESH == UNIT \div 2
MAX_GAIN_KEEP_RATE == (UNIT * 2) \div 3
CYCLES == 3    \* MAX_BW_CWND, the gain cycles, FULL_BW_CNT, FULL_BW_KEEP_CYCLE
MIN_CWND == 4
MAX_CWND == 25
U32 == 4096    \* 2^32 bytes

VARIABLES
    s,       \* Minmax: the best three samples, each with its age
    probe,   \* the other fields of Probe
    cwnd,    \* Dashbord::cwnd
    queue,   \* TimeFixeQueue::queue
    sum,     \* TimeFixeQueue::sum
    recent,  \* history: the last samples, newest first
    quiet    \* history: equal samples since the window was last widened

rateVars == <<s, probe, cwnd, queue, sum, recent, quiet>>

AllThree(t, v) == <<[t |-> t, v |-> v], [t |-> t, v |-> v], [t |-> t, v |-> v]>>

NewProbe ==
    [gain |-> UNIT, high_cnt |-> 0, high |-> FALSE, low_cnt |-> 0, normal_cnt |-> 0,
     full |-> 0, full_cnt |-> 0, keep |-> 0, reached |-> FALSE,
     last_high |-> 0, valid |-> 0, startup |-> FALSE]

RateInit ==
    /\ s = AllThree(0, 0)
    /\ probe = NewProbe
    /\ cwnd = MIN_CWND
    /\ queue = <<>>
    /\ sum = 0
    /\ recent = <<>>
    /\ quiet = 0

-----------------------------------------------------------------------------
(* win_minmax.rs, with ages for times *)

subwin_update(w, win, val) ==
    LET dt == w[1].t
    IN  IF dt > win
        THEN IF w[2].t > win THEN <<w[3], val, val>> ELSE <<w[2], w[3], val>>
        ELSE IF w[2].t = dt /\ dt > win \div 4 THEN <<w[1], val, val>>
        ELSE IF w[3].t = w[2].t /\ dt > win \div 2 THEN <<w[1], w[2], val>>
        ELSE w

running_max(w, win, meas) ==
    LET val == [t |-> 0, v |-> meas]
        placed == IF meas >= w[2].v THEN <<w[1], val, val>>
                  ELSE IF meas >= w[3].v THEN <<w[1], w[2], val>> ELSE w
    IN  IF meas >= w[1].v \/ w[3].t > win
        THEN AllThree(0, meas)
        ELSE subwin_update(placed, win, val)

\* The sample counter moves on by one before every update.
Older(w) == [i \in DOMAIN w |-> [w[i] EXCEPT !.t = @ + 1]]

-----------------------------------------------------------------------------
(* Probe *)

\* check_full_bw
FallenBehind(p, bw) ==
    \/ cwnd <= MIN_CWND
    \/ bw * UNIT < (p.full * FULL_BW_THRESH) % U32

FillLink(p, bw) ==
    IF p.keep > 0
    THEN [p EXCEPT !.keep = @ - 1, !.full = Max({@, bw}), !.startup = p.keep = 1]
    ELSE IF bw * UNIT > p.full * BW_UP_THRESH
    THEN [p EXCEPT !.startup = FALSE, !.keep = CYCLES, !.full_cnt = 0, !.full = bw]
    \* full_bw_cnt is only compared with FULL_BW_CNT, and stops there.
    ELSE [p EXCEPT !.startup = FALSE, !.full_cnt = Min({@ + 1, CYCLES}),
                   !.reached = p.full_cnt + 1 >= CYCLES]

check_full_bw(p, bw) ==
    IF ~p.reached THEN FillLink(p, bw)
    ELSE IF FallenBehind(p, bw) THEN FillLink([p EXCEPT !.full = 0, !.reached = FALSE], bw)
    ELSE p

\* update_gain: the exploration under way
Explore(p, bw) ==
    LET hit == bw * UNIT >= p.last_high * BW_UP_KEEP_THRESH
        valid == IF hit THEN p.valid + 1 ELSE p.valid
        kept == valid * UNIT >= CYCLES * MAX_GAIN_KEEP_RATE
    IN  IF p.high_cnt = 0 THEN p
        ELSE [p EXCEPT !.gain = UNIT, !.valid = valid,
                       !.high_cnt = IF kept THEN 0 ELSE @ - 1,
                       !.high = IF kept THEN @ ELSE p.high_cnt = 1]

CountLow(p, bw, origin) ==
    IF bw * UNIT <= origin * BW_DOWN_THRESH
    THEN [p EXCEPT !.low_cnt = @ + 1, !.gain = UNIT] ELSE p

\* Mutant: the quiet samples are not counted.
NeverExplores(p, origin) ==
    IF p.high \/ p.low_cnt >= CYCLES
    THEN [p EXCEPT !.low_cnt = 0, !.normal_cnt = 0, !.high = FALSE, !.gain = CWND_LOW_GAIN]
    ELSE p

Decide(p, origin) ==
    IF p.normal_cnt >= CYCLES
    THEN [p EXCEPT !.low_cnt = 0, !.normal_cnt = 0, !.valid = 0, !.gain = CWND_HIGHT_GAIN,
                   !.high_cnt = CYCLES, !.last_high = origin]
    ELSE IF p.high \/ p.low_cnt >= CYCLES
    THEN [p EXCEPT !.low_cnt = 0, !.normal_cnt = 0, !.high = FALSE, !.gain = CWND_LOW_GAIN]
    ELSE IF p.high_cnt = 0
    THEN [p EXCEPT !.normal_cnt = @ + 1, !.gain = UNIT]
    ELSE p

update_gain(p, bw, origin) ==
    IF ~p.reached
    THEN [p EXCEPT !.gain = IF p.startup THEN STARTUP_GAIN ELSE UNIT]
    ELSE Decide(CountLow(Explore(p, bw), bw, origin), origin)

\* Mutant: nothing bounds the window from above.
UnboundedCwnd(gain) ==
    LET w == IF gain \in {CWND_HIGHT_GAIN, STARTUP_GAIN} THEN cwnd + 2
             ELSE IF gain = CWND_LOW_GAIN THEN cwnd - 1 ELSE cwnd
    IN  Max({MIN_CWND, (w * gain) \div UNIT})

update_cwnd(gain) ==
    LET w == IF gain \in {CWND_HIGHT_GAIN, STARTUP_GAIN} THEN cwnd + 2
             ELSE IF gain = CWND_LOW_GAIN THEN cwnd - 1 ELSE cwnd
    IN  Max({MIN_CWND, Min({MAX_CWND, (w * gain) \div UNIT})})

-----------------------------------------------------------------------------
(* TimeFixeQueue *)

SumOf(q) == FoldFunction(LAMBDA x, acc : x.bw + acc, 0, q)
\* expires: what is older than as many intervals as the queue has places
Fresh(q) == SelectSeq(q, LAMBDA x : x.age <= QueueLimit)
Dropped(q) == SelectSeq(q, LAMBDA x : x.age > QueueLimit)

Expire ==
    /\ Dropped(queue) # <<>>
    /\ queue' = Fresh(queue)
    /\ sum' = sum - SumOf(Dropped(queue))

\* FixedQueue::push gives back the sample it pushed out; in the mutant it does not.
PushKeeps(q) == 0
PushOut(q) == IF Len(q) = QueueLimit THEN Head(q).bw ELSE 0
Push(q, x) == Append(IF Len(q) = QueueLimit THEN Tail(q) ELSE q, [bw |-> x, age |-> 0])

-----------------------------------------------------------------------------
(* Actions *)

\* Probe::ack once an update interval has passed, get_rate_sample to update_cwnd.
Sample(bw) ==
    LET origin == s[1].v
        w == running_max(Older(s), CYCLES, bw)
        p == update_gain(check_full_bw(probe, w[1].v), bw, origin)
        q == Fresh(queue)
    IN  /\ s' = w
        /\ probe' = p
        /\ cwnd' = update_cwnd(p.gain)
        /\ queue' = Push(q, bw)
        /\ sum' = sum - SumOf(Dropped(queue)) + bw - PushOut(q)
        /\ recent' = SubSeq(<<bw>> \o recent, 1, Min({Len(recent) + 1, CYCLES + 1}))
        /\ quiet' = IF p.gain > UNIT \/ Range(recent) # {bw} THEN 0 ELSE quiet + 1

\* Dashbord::bw, called by the servant at any time.
ReadBw == Expire /\ UNCHANGED <<s, probe, cwnd, recent, quiet>>

\* An interval without a sample.
Interval ==
    /\ \E i \in DOMAIN queue : queue[i].age <= QueueLimit
    /\ queue' = [i \in DOMAIN queue |-> [queue[i] EXCEPT !.age = Min({@ + 1, QueueLimit + 1})]]
    /\ UNCHANGED <<s, probe, cwnd, sum, recent, quiet>>

\* A waiting peer is connected again: clear_ing, and start_listener makes a new
\* Probe on the Dashbord that its PeerInfo has kept.
Reconnect ==
    /\ cwnd' = MIN_CWND /\ s' = AllThree(0, 0) /\ probe' = NewProbe
    /\ recent' = <<>> /\ quiet' = 0
    /\ UNCHANGED <<queue, sum>>

RateNext == (\E bw \in Rates : Sample(bw)) \/ ReadBw \/ Interval \/ Reconnect

-----------------------------------------------------------------------------
(* Properties *)

RateTypeOK ==
    /\ cwnd \in MIN_CWND .. MAX_CWND
    /\ probe.high_cnt \in 0 .. CYCLES /\ probe.low_cnt \in 0 .. CYCLES
    /\ probe.normal_cnt \in 0 .. CYCLES /\ probe.valid \in 0 .. CYCLES
    /\ Len(queue) <= QueueLimit

\* The bandwidth that sets the window was measured by one of the last CYCLES + 1
\* samples and is not below any of the last CYCLES.  The largest sample of the window
\* itself may be lost: the three places of win_minmax have forgotten it by the time
\* the samples before it expire (5, 4, 3, 2, 1, 1, 1 ends with 1, and 2 is no older
\* than the window).
MaxInWindow ==
    recent # <<>> =>
        /\ s[1].v \in Range(recent)
        /\ \A i \in DOMAIN recent : i <= CYCLES => recent[i] <= s[1].v

\* The two bandwidths are true of the samples: the one that sets the window, whatever
\* its three places went through, and the one peers are compared by, which is the sum
\* of the samples in the queue through every order of push, pushing out and expiring.
SamplesTrue == MaxInWindow /\ sum = SumOf(queue)

\* While the bandwidth stays what it is, the window is widened again within a
\* bounded number of samples, whatever the counters of update_gain and check_full_bw
\* held when it settled.
KeepsExploring == quiet < 3 * CYCLES
=============================================================================
