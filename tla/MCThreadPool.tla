----------------------------- MODULE MCThreadPool -----------------------------
(* Model values of ThreadPool for TLC. *)
EXTENDS ThreadPool, TLC

\* Thread identities are interchangeable.
Symmetry == Permutations(Threads)
=============================================================================
