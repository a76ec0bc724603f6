----------------------------- MODULE TrackerScan -----------------------------
(***************************************************************************)
(* bt/tracker.rs with tracker/udp_tracker.rs and tracker/http_tracker.rs:  *)
(* the announce loop of one task.  A scan asks every tracker that is due   *)
(* in a task of its own, then sleeps for the shortest interval returned.   *)
(* scan_time is taken when the Tracker is made and never again.  Times are *)
(* kept up to the largest value the code tells apart.                      *)
(***************************************************************************)
EXTENDS Integers, FiniteSetsExt

CONSTANTS
    UdpTrackers, HttpTrackers,
    Intervals,    \* seconds a tracker may ask for
    MaxRetryNum,  \* MAX_RETRY_NUM
    IdTimeout     \* CONNECTION_ID_TIMEOUT

Trackers == UdpTrackers \cup HttpTrackers
ASSUME TrackerAssumption == UdpTrackers \cap HttpTrackers = {} /\ MaxRetryNum \in Nat
                            /\ Intervals \subseteq Nat /\ IdTimeout \in Nat
\* The wait of inc_retry_count, 15000 and more, is the longest of all but never.
RetryWait == Max(Intervals \cup {0}) + 1
Never == RetryWait + 1   \* u64::MAX
\* A request time after scan_time; the code does not tell later ones apart.
Later == 1

VARIABLES
    tracker,   \* the trackers
    loop,      \* control state of Tracker::run, with the shortest interval so far
    pending,   \* trackers whose task of this scan has not ended
    moved      \* 1 once the clock has left the second of scan_time

trkVars == <<tracker, loop, pending, moved>>

TrkInit ==
    /\ tracker = [t \in Trackers |->
            [next |-> 0, event |-> "started", retry |-> 0, id_age |-> IdTimeout + 1, failed |-> FALSE]]
    /\ loop = [pc |-> "top", interval |-> Never]
    /\ pending = {}
    /\ moved = 0

\* next_request_time <= scan_time
Due(t) == tracker[t].next = 0
\* now + interval, seen from scan_time.
Time(interval) == IF moved = 0 /\ interval = 0 THEN 0 ELSE Later

-----------------------------------------------------------------------------
ScanTrackers ==
    /\ loop.pc = "top"
    /\ loop' = [pc |-> "scan", interval |-> Never]
    /\ pending' = Trackers
    /\ UNCHANGED <<tracker, moved>>

\* The task of t ends with record r and interval i.
Ends(t, r, i) ==
    /\ tracker' = [tracker EXCEPT ![t] = r]
    /\ pending' = pending \ {t}
    /\ loop' = [loop EXCEPT !.interval = Min({@, i})]
    /\ UNCHANGED moved

NotDue(t) ==
    /\ t \in pending /\ ~Due(t)
    /\ Ends(t, tracker[t], Never)

\* announcing of a UDP tracker: a connection id older than IdTimeout is renewed,
\* then the announce is answered with an interval.
UdpOk(t, i) ==
    /\ t \in pending \cap UdpTrackers /\ Due(t)
    /\ tracker[t].retry <= MaxRetryNum
    /\ Ends(t, [tracker[t] EXCEPT !.next = Time(i), !.event = "none", !.retry = 0,
                                  !.id_age = IF @ <= IdTimeout THEN @ ELSE 0], i)

\* inc_retry_count: past the limit it answers u64::MAX and changes nothing.
IncRetry(r) ==
    IF r.retry > MaxRetryNum THEN [r |-> r, wait |-> Never]
    ELSE [r |-> [r EXCEPT !.retry = @ + 1, !.next = Later], wait |-> RetryWait]

\* The connect fails, or the connect succeeds and the announce is lost or refused;
\* every answer received resets the number of retries, and past the limit
\* nothing is sent any more.
UdpFail(t) ==
    /\ t \in pending \cap UdpTrackers /\ Due(t)
    /\ \E r \in {tracker[t],
                 [tracker[t] EXCEPT !.retry = 0, !.id_age = IF @ <= IdTimeout THEN @ ELSE 0]} :
          /\ r # tracker[t] => tracker[t].retry <= MaxRetryNum
          /\ Ends(t, IncRetry(r).r, IncRetry(r).wait)

\* An HTTP tracker's next_request_time is left alone: it stays due.  HttpOkNext sets
\* it as the UDP tracker does.
HttpOkNext(t, i) ==
    /\ t \in pending \cap HttpTrackers /\ Due(t)
    /\ Ends(t, [tracker[t] EXCEPT !.next = Time(i), !.event = "none"], i)
HttpOk(t, i) ==
    /\ t \in pending \cap HttpTrackers /\ Due(t)
    /\ Ends(t, [tracker[t] EXCEPT !.event = "none"], i)

\* unusable
HttpFail(t) ==
    /\ t \in pending \cap HttpTrackers /\ Due(t)
    /\ Ends(t, [tracker[t] EXCEPT !.next = Later, !.failed = TRUE], Never)

Sleep ==
    /\ loop.pc = "scan" /\ pending = {}
    /\ loop' = [loop EXCEPT !.pc = "sleep"]
    /\ UNCHANGED <<tracker, pending, moved>>

\* A sleep of u64::MAX seconds never ends.  The ids of the trackers grow old.
WakeScan ==
    /\ loop.pc = "sleep" /\ loop.interval # Never
    /\ loop' = [loop EXCEPT !.pc = "top"]
    /\ moved' = IF loop.interval > 0 THEN 1 ELSE moved
    /\ tracker' = [t \in Trackers |->
            [tracker[t] EXCEPT !.id_age = Min({IdTimeout + 1, @ + loop.interval})]]
    /\ UNCHANGED pending

\* The second of scan_time passes.
Second == moved = 0 /\ moved' = 1 /\ UNCHANGED <<tracker, loop, pending>>

TrkStep(t) ==
    \/ NotDue(t) \/ UdpFail(t) \/ HttpFail(t)
    \/ \E i \in Intervals : UdpOk(t, i) \/ HttpOk(t, i)
TrkNext == ScanTrackers \/ (\E t \in Trackers : TrkStep(t)) \/ Sleep \/ WakeScan \/ Second

-----------------------------------------------------------------------------
(* Properties *)

TrkTypeOK ==
    /\ loop.interval \in Intervals \cup {RetryWait, Never} /\ pending \subseteq Trackers
    /\ \A t \in Trackers :
        /\ tracker[t].retry \in 0 .. MaxRetryNum + 1
        /\ tracker[t].id_age \in 0 .. IdTimeout + 1
        /\ tracker[t].event \in {"none", "started"}

\* An HTTP tracker that never failed is announced to for ever: one tracker's
\* interval or failure cannot put the loop to sleep for good.
HttpAgain ==
    \A t \in HttpTrackers : []<>(t \in pending /\ Due(t)) \/ <>tracker[t].failed

\* tracker.rs:347: run scans periodically; a UDP tracker that named an interval is
\* announced to again.
UdpAgain == \A t \in UdpTrackers : []<>(t \in pending /\ Due(t))
=============================================================================
