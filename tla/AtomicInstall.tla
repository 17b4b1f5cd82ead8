----------------------------- MODULE AtomicInstall -----------------------------
(***************************************************************************)
(* What debeasy update promises, without temporary files, downloads,       *)
(* digests or processes: the installed binary is always one whole build    *)
(* that has been released; it is replaced in one step; a power failure can *)
(* take a replacement back and do no more; and the service runs a build    *)
(* that was in place when it was started.                                  *)
(***************************************************************************)
CONSTANTS Builds, First   \* First: the build that was installed by hand

VARIABLES
    released,   \* builds a user may get
    installed,  \* the build in place
    held,       \* builds that have been in place since power last failed
    running     \* the build the service was last started from

installVars == <<released, installed, held, running>>

Init ==
    /\ released = {First}
    /\ installed = First
    /\ held = {First}
    /\ running = First

Release(b) ==
    /\ released' = released \cup {b}
    /\ UNCHANGED <<installed, held, running>>

Swap(b) ==
    /\ b \in released
    /\ installed' = b
    /\ held' = held \cup {b}
    /\ UNCHANGED <<released, running>>

StartService ==
    /\ running' = installed
    /\ UNCHANGED <<released, installed, held>>

(* The power comes back, and with it the service. *)
PowerCycle ==
    /\ \E b \in held : installed' = b /\ running' = b /\ held' = {b}
    /\ UNCHANGED released

Next ==
    \/ \E b \in Builds : Release(b) \/ Swap(b)
    \/ StartService
    \/ PowerCycle

Spec == Init /\ [][Next]_installVars
=============================================================================
