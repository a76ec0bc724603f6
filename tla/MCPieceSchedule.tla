-------------------------- MODULE MCPieceSchedule --------------------------
(* PieceSchedule for TLC. *)
EXTENDS PieceSchedule, FiniteSetsExt, TLC

Symmetric == Permutations(Task)

\* Bound of a run with faults: one fault at most, no choke of a peer that may leave, and
\* a third handler only where there was no fault.
Faults == failures + MapThenSumSet(LAMBDA r : chokes[r], Peer)
          + Cardinality({r \in Leaving : life[r] = "gone"})
Busy == {t \in Task : task[t].pc # "free"}
FaultsApart ==
    \/ Faults = 0
    \/ Faults = 1 /\ Cardinality(Busy) <= 2 /\ \A r \in Leaving : chokes[r] = 0
=============================================================================
