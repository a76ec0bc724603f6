---------------------------- MODULE AnswerService ----------------------------
(***************************************************************************)
(* What UdpServer promises its callers, without saying how: a call is      *)
(* opened with a transaction id, a datagram may be accepted into the box   *)
(* (also one whose call has been closed), and it leaves the box by being   *)
(* handed to one open call with its id or by being thrown away.  A call    *)
(* gets at most one datagram and none after it is closed.                  *)
(***************************************************************************)
CONSTANTS
    Calls,      \* the calls made of the service
    Datagrams,  \* what may arrive: records with a field tid
    NoTid

VARIABLES
    open,    \* calls that wait for an answer
    tid_of,  \* transaction id of each call, NoTid before it is opened
    box,     \* datagrams accepted and not yet handed over
    given    \* datagrams handed to each call

absVars == <<open, tid_of, box, given>>

AbsInit ==
    /\ open = {}
    /\ tid_of = [c \in Calls |-> NoTid]
    /\ box = {}
    /\ given = [c \in Calls |-> {}]

Open(c) ==
    /\ tid_of[c] # NoTid
    /\ c \notin open
    /\ given[c] = {}
    /\ open' = open \cup {c}
    /\ UNCHANGED <<tid_of, box, given>>

Name(c) ==
    /\ tid_of[c] = NoTid
    /\ \E t \in {d.tid : d \in Datagrams} : tid_of' = [tid_of EXCEPT ![c] = t]
    /\ UNCHANGED <<open, box, given>>

\* A datagram that replaces one of the same id makes the older one unreachable.
Accept(d) ==
    /\ d \notin box
    /\ box' = {e \in box : e.tid # d.tid} \cup {d}
    /\ UNCHANGED <<open, tid_of, given>>

Hand(c, d) ==
    /\ c \in open
    /\ d \in box
    /\ d.tid = tid_of[c]
    /\ given[c] = {}
    /\ given' = [given EXCEPT ![c] = {d}]
    /\ open' = open \ {c}
    /\ box' = box \ {d}
    /\ UNCHANGED tid_of

\* Given up, failed or dropped; an answer that waits under its id goes with it.
Close(c) ==
    /\ open' = open \ {c}
    /\ box' \in {box, {e \in box : e.tid # tid_of[c]}}
    /\ UNCHANGED <<tid_of, given>>

AbsNext ==
    \/ \E c \in Calls : Close(c) \/ Open(c) \/ Name(c)
    \/ \E d \in Datagrams : Accept(d)
    \/ \E c \in Calls, d \in Datagrams : Hand(c, d)

AbsSpec == AbsInit /\ [][AbsNext]_absVars
=============================================================================
