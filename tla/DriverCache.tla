---------------------------- MODULE DriverCache ----------------------------
(***************************************************************************)
(* What the pool promises, without requests, locks, rows or time: a cache  *)
(* with at most one current driver per connection.  A driver is opened     *)
(* once; it may become current only while it is open and its connection    *)
(* has no current driver; it stops being current and is closed in one      *)
(* step; and a closed driver never comes back.                             *)
(***************************************************************************)
EXTENDS Integers

CONSTANTS Conns, Drivers, NoDriver

VARIABLES
    current,  \* the current driver of each connection, or NoDriver
    live,     \* the drivers that are open
    closed    \* the drivers that have been closed

cacheVars == <<current, live, closed>>

Init ==
    /\ current = [c \in Conns |-> NoDriver]
    /\ live = {}
    /\ closed = {}

Open(d) ==
    /\ d \notin live \cup closed
    /\ live' = live \cup {d}
    /\ UNCHANGED <<current, closed>>

Install(c, d) ==
    /\ d \in live
    /\ current[c] = NoDriver
    /\ \A b \in Conns : current[b] # d
    /\ current' = [current EXCEPT ![c] = d]
    /\ UNCHANGED <<live, closed>>

(* A driver that never became current is closed. *)
Drop(d) ==
    /\ d \in live
    /\ \A c \in Conns : current[c] # d
    /\ live' = live \ {d}
    /\ closed' = closed \cup {d}
    /\ UNCHANGED current

(* The current drivers of the connections in C are closed and removed. *)
Expel(C) ==
    LET gone == {d \in live : \E c \in C : current[c] = d}
    IN  /\ current' = [c \in Conns |-> IF c \in C THEN NoDriver ELSE current[c]]
        /\ live' = live \ gone
        /\ closed' = closed \cup gone

Next ==
    \/ \E d \in Drivers : Open(d) \/ Drop(d)
    \/ \E c \in Conns, d \in Drivers : Install(c, d)
    \/ \E C \in SUBSET Conns : Expel(C)

Spec == Init /\ [][Next]_cacheVars
=============================================================================
