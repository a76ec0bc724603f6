-------------------------- MODULE MCContentDispatch --------------------------
(* Small instances of ContentDispatch for TLC. *)
EXTENDS ContentDispatch, TLC

\* Ids and addresses are only compared.
Symmetric == Permutations(Id) \cup Permutations(Addr)
=============================================================================
