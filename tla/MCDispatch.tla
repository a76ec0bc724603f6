----------------------------- MODULE MCDispatch -----------------------------
(* The two owners of a launcher, explored side by side: a download (module    *)
(* ContentDispatch) and a magnet link (module MagnetDispatch).  A behaviour   *)
(* is of one owner; the variables of the other one keep their initial value.  *)
EXTENDS ContentDispatch, TLC

VARIABLES
    owner,     \* "download" or "magnet"
    refused    \* of module MagnetDispatch

Magnet == INSTANCE MagnetDispatch

OwnerInit ==
    /\ owner \in {"download", "magnet"}
    /\ Init
    /\ refused = {}

OwnerNext ==
    /\ IF owner = "download"
       THEN Next /\ UNCHANGED refused
       ELSE Magnet!Next /\ UNCHANGED <<coord, guard>>
    /\ UNCHANGED owner

\* Fairness of ContentDispatch and of MagnetDispatch, each for its owner.
Download == owner = "download"
Link == owner = "magnet"
linkVars == Magnet!vars
OwnerFairness ==
    /\ SF_vars(Download /\ \E pool \in BOOLEAN : Recv(pool))
    /\ SF_linkVars(Link /\ \E pool \in BOOLEAN : Magnet!Recv(pool))
    /\ \A id \in Id :
          /\ SF_vars(Download /\ Result(id)) /\ WF_vars(Download /\ AsyncRun(id))
          /\ SF_vars(Download /\ SendDone(id))
          /\ SF_linkVars(Link /\ Magnet!Result(id)) /\ WF_linkVars(Link /\ Magnet!AsyncRun(id))
          /\ SF_linkVars(Link /\ Magnet!SendDone(id))
    /\ WF_vars(Download /\ Wake) /\ WF_vars(Download /\ StartTempPeer)
    /\ WF_linkVars(Link /\ Magnet!Wake)

OwnerSpec == OwnerInit /\ [][OwnerNext]_<<vars, owner, refused>> /\ OwnerFairness

Symmetric == Permutations(Id) \cup Permutations(Addr)
=============================================================================
