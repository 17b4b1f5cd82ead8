------------------------- MODULE MCLoginRateLimiter -------------------------
(* Small instances of LoginRateLimiter for TLC. *)
EXTENDS LoginRateLimiter
=============================================================================
