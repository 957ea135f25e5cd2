---------------------------- MODULE MCTcBinding ----------------------------
(* Model values of TcBinding for TLC. *)
EXTENDS TcBinding, TLC

\* Clients and workers are interchangeable.  Blocks are not: the timer visits
\* them in the order of their keys.
Symmetry == Permutations(Clients) \cup Permutations(Workers)
=============================================================================
