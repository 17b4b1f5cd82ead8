----------------------------- MODULE MCQueryRun -----------------------------
(* Scripts for TLC: one of each shape that the properties tell apart. *)
EXTENDS QueryRun

MCScripts == { <<"bad", "write">>,
               <<"begin", "query", "write">>,
               <<"begin", "write", "bad", "commit">> }
=============================================================================
