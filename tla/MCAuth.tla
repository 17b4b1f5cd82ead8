------------------------------- MODULE MCAuth -------------------------------
(* Small instances of Auth for TLC. *)
EXTENDS Auth, TLC

Symm == Permutations(Procs) \cup Permutations(Names) \cup Permutations(Sids)
=============================================================================
