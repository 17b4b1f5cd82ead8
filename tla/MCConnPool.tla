----------------------------- MODULE MCConnPool -----------------------------
(* Small instances of ConnPool for TLC. *)
EXTENDS ConnPool, TLC

Symm == Permutations(Requests) \cup Permutations(Conns) \cup Permutations(Drivers)
=============================================================================
