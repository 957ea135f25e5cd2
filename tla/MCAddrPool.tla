----------------------------- MODULE MCAddrPool -----------------------------
(* Model values of AddrPool for TLC. *)
EXTENDS AddrPool, TLC

Symmetry == Permutations(Clients)
=============================================================================
