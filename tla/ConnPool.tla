------------------------------ MODULE ConnPool ------------------------------
(***************************************************************************)
(* The driver pool of internal/dbx/pool.go together with everything that   *)
(* reads or changes it: resolveConn, which every connection-scoped handler *)
(* calls first, the handlers that create, update, delete and test a saved  *)
(* connection, the idle collector goroutine and Server.shutdown.           *)
(*                                                                         *)
(* A request is one HTTP handler goroutine.  Its steps are the maximal     *)
(* pieces of code between two points where another goroutine can run: a    *)
(* critical section of Pool.mu is one step, and so is one SQL statement    *)
(* against the application's own database.  The settings of a saved        *)
(* connection are abstracted to a version number that every Update raises. *)
(***************************************************************************)
EXTENDS Integers

CONSTANTS
    Requests,    \* handler goroutines
    Conns,       \* ids of saved connections (AUTOINCREMENT: never reused)
    Drivers,     \* driver objects; one is used up by every openDriver
    NoDriver,    \* a key that is absent from Pool.drivers
    NoConn,      \* the connection of a driver opened by Pool.Test
    IdleTTL,     \* Pool.idleTTL, in ticks
    MaxVersion,  \* bound: versions a row can go through
    MaxTime      \* bound: the last tick of the clock

ASSUME NoDriverAssumption == NoDriver \notin Drivers
ASSUME NoConnAssumption == NoConn \notin Conns
ASSUME BoundsAssumption ==
    IdleTTL \in Nat /\ MaxVersion \in Nat \ {0} /\ MaxTime \in Nat

VARIABLES
    rows,      \* the connections table: Unborn, Deleted or a version
    pool,      \* Pool.drivers: the pooled driver of each id
    lastUsed,  \* entry.lastUsed of each pooled driver
    server,    \* how far Server.shutdown has come
    dstate,    \* "unused", "open", or why the driver was closed
    dconn,     \* the connection a driver was opened for
    dver,      \* the version of the settings it was opened with
    pc,        \* where each request is
    conn,      \* the id in the request's URL
    ver,       \* the version read by Pool.Get
    drv,       \* the driver the request has opened or was given
    since,     \* when the request was given its driver
    gc,        \* the idle collector: "waiting" or "locking"
    cutoff,    \* evictIdle's cutoff, computed before it takes the lock
    now,       \* time.Now()
    raced      \* history: ids whose last Evict met a Get that had already
               \* read settings that are out of date

poolVars == <<pool, lastUsed>>
drvVars == <<dstate, dconn, dver>>
reqVars == <<pc, conn, ver, drv, since>>
gcVars == <<gc, cutoff>>
vars == <<rows, pool, lastUsed, server, dstate, dconn, dver, pc, conn, ver,
          drv, since, gc, cutoff, now, raced>>

Unborn == 0
Deleted == -1
Live(c) == rows[c] > 0

ServerStates == {"serving", "draining", "stopped", "closed"}
DriverStates == {"unused", "open", "idle", "evicted", "stopped", "discarded"}
Places == {"none", "get", "load", "open", "ping", "publish", "use",
           "evict", "delete", "test"}

Stopped == server \in {"stopped", "closed"}   \* Pool.drivers is nil

(***************************************************************************)
(* Helpers.                                                                *)
(***************************************************************************)
Goto(r, p) == pc' = [pc EXCEPT ![r] = p]

(* The handler returns; its locals are gone. *)
Return(r) ==
    /\ Goto(r, "none")
    /\ conn' = [conn EXCEPT ![r] = NoConn]
    /\ ver' = [ver EXCEPT ![r] = Unborn]
    /\ drv' = [drv EXCEPT ![r] = NoDriver]
    /\ since' = [since EXCEPT ![r] = 0]

(* A request that has read a row and not yet published its driver. *)
Loaded(r) == pc[r] \in {"open", "ping", "publish"}

(* The driver is reachable only from its own request. *)
Private(r) == pc[r] \in {"ping", "publish", "test"}

UpdatePending(c) == \E r \in Requests : pc[r] = "evict" /\ conn[r] = c
DeletePending(c) == \E r \in Requests : pc[r] = "delete" /\ conn[r] = c

(* Mutant: the entry is deleted, its driver is not closed. *)
RetireWithoutClose(C, why) ==
    /\ pool' = [c \in Conns |-> IF c \in C THEN NoDriver ELSE pool[c]]
    /\ lastUsed' = [c \in Conns |-> IF c \in C THEN 0 ELSE lastUsed[c]]
    /\ dstate' = dstate

(* Mutant: the driver is closed, its entry stays. *)
RetireWithoutDelete(C, why) ==
    /\ UNCHANGED poolVars
    /\ dstate' = [d \in Drivers |->
                    IF \E c \in C : pool[c] = d THEN why ELSE dstate[d]]

(* Close and remove the entries of the ids in C, as Evict, evictIdle and   *)
(* Stop do inside their critical section.                                  *)
Retire(C, why) ==
    /\ pool' = [c \in Conns |-> IF c \in C THEN NoDriver ELSE pool[c]]
    /\ lastUsed' = [c \in Conns |-> IF c \in C THEN 0 ELSE lastUsed[c]]
    /\ dstate' = [d \in Drivers |->
                    IF \E c \in C : pool[c] = d THEN why ELSE dstate[d]]

Discard(d) == dstate' = [dstate EXCEPT ![d] = "discarded"]

(* Hand driver d to request r, stamping the entry's lastUsed. *)
Grant(r, d) ==
    /\ Goto(r, "use")
    /\ drv' = [drv EXCEPT ![r] = d]
    /\ since' = [since EXCEPT ![r] = now]
    /\ lastUsed' = [lastUsed EXCEPT ![conn[r]] = now]

(* openDriver: a fresh driver object for connection c at version v. *)
Fresh(r, d, c, v) ==
    /\ dstate[d] = "unused"
    /\ dstate' = [dstate EXCEPT ![d] = "open"]
    /\ dconn' = [dconn EXCEPT ![d] = c]
    /\ dver' = [dver EXCEPT ![d] = v]
    /\ drv' = [drv EXCEPT ![r] = d]

-----------------------------------------------------------------------------
Init ==
    /\ rows = [c \in Conns |-> Unborn]
    /\ pool = [c \in Conns |-> NoDriver]
    /\ lastUsed = [c \in Conns |-> 0]
    /\ server = "serving"
    /\ dstate = [d \in Drivers |-> "unused"]
    /\ dconn = [d \in Drivers |-> NoConn]
    /\ dver = [d \in Drivers |-> Unborn]
    /\ pc = [r \in Requests |-> "none"]
    /\ conn = [r \in Requests |-> NoConn]
    /\ ver = [r \in Requests |-> Unborn]
    /\ drv = [r \in Requests |-> NoDriver]
    /\ since = [r \in Requests |-> 0]
    /\ gc = "waiting"
    /\ cutoff = 0
    /\ now = 0
    /\ raced = {}

(***************************************************************************)
(* resolveConn: the first store.Get answers 404 for an id that is not      *)
(* saved; otherwise the handler goes on to Pool.Get.                       *)
(***************************************************************************)
ResolveConn(r, c) ==
    /\ server = "serving"
    /\ pc[r] = "none"
    /\ Live(c)
    /\ Goto(r, "get")
    /\ conn' = [conn EXCEPT ![r] = c]
    /\ UNCHANGED <<rows, poolVars, server, drvVars, ver, drv, since, gcVars,
                   now, raced>>

(* Pool.Get, first critical section. *)
GetHit(r) ==
    /\ pc[r] = "get"
    /\ pool[conn[r]] # NoDriver
    /\ Grant(r, pool[conn[r]])
    /\ UNCHANGED <<rows, pool, server, drvVars, conn, ver, gcVars, now, raced>>

GetMiss(r) ==
    /\ pc[r] = "get"
    /\ pool[conn[r]] = NoDriver
    /\ Goto(r, "load")
    /\ UNCHANGED <<rows, poolVars, server, drvVars, conn, ver, drv, since,
                   gcVars, now, raced>>

(* Pool.Get, outside the lock: read the row again, open, ping. *)
LoadRow(r) ==
    /\ pc[r] = "load"
    /\ server # "closed"
    /\ Live(conn[r])
    /\ Goto(r, "open")
    /\ ver' = [ver EXCEPT ![r] = rows[conn[r]]]
    /\ UNCHANGED <<rows, poolVars, server, drvVars, conn, drv, since, gcVars,
                   now, raced>>

(* The row is gone, the store is closed, the request's context is done, or *)
(* the settings do not parse: Get returns the error and keeps nothing.     *)
GetFail(r) ==
    /\ pc[r] \in {"load", "open"}
    /\ Return(r)
    /\ UNCHANGED <<rows, poolVars, server, drvVars, gcVars, now, raced>>

OpenDriver(r, d) ==
    /\ pc[r] = "open"
    /\ Fresh(r, d, conn[r], ver[r])
    /\ Goto(r, "ping")
    /\ UNCHANGED <<rows, poolVars, server, conn, ver, since, gcVars, now,
                   raced>>

PingOk(r) ==
    /\ pc[r] = "ping"
    /\ Goto(r, "publish")
    /\ UNCHANGED <<rows, poolVars, server, drvVars, conn, ver, drv, since,
                   gcVars, now, raced>>

(* Mutant: the error path returns without closing the driver. *)
PingFailLeaks(r) ==
    /\ pc[r] = "ping"
    /\ Return(r)
    /\ UNCHANGED <<rows, poolVars, server, drvVars, gcVars, now, raced>>

PingFail(r) ==
    /\ pc[r] = "ping"
    /\ Discard(drv[r])
    /\ Return(r)
    /\ UNCHANGED <<rows, poolVars, server, dconn, dver, gcVars, now, raced>>

(* Mutant: the loser of the race is handed its own driver. *)
PublishRacedKeepsOwn(r) ==
    /\ pc[r] = "publish"
    /\ pool[conn[r]] # NoDriver
    /\ Grant(r, drv[r])
    /\ UNCHANGED <<rows, pool, server, drvVars, conn, ver, gcVars, now, raced>>

(* Pool.Get, second critical section: someone raced, ... *)
PublishRaced(r) ==
    /\ pc[r] = "publish"
    /\ pool[conn[r]] # NoDriver
    /\ Discard(drv[r])
    /\ Grant(r, pool[conn[r]])
    /\ UNCHANGED <<rows, pool, server, dconn, dver, conn, ver, gcVars, now,
                   raced>>

(* Mutant: the map is made again instead of panicking after Stop. *)
PublishAlsoAfterStop(r) ==
    /\ pc[r] = "publish"
    /\ pool[conn[r]] = NoDriver
    /\ pool' = [pool EXCEPT ![conn[r]] = drv[r]]
    /\ Grant(r, drv[r])
    /\ UNCHANGED <<rows, server, drvVars, conn, ver, gcVars, now, raced>>

(* ... or the driver becomes the pooled one, ... *)
Publish(r) ==
    /\ pc[r] = "publish"
    /\ ~Stopped
    /\ pool[conn[r]] = NoDriver
    /\ pool' = [pool EXCEPT ![conn[r]] = drv[r]]
    /\ Grant(r, drv[r])
    /\ UNCHANGED <<rows, server, drvVars, conn, ver, gcVars, now, raced>>

(* ... or the map is nil: the write panics, the deferred Unlock runs,      *)
(* recoverMiddleware answers 500 and nobody closes the driver.             *)
PublishPanic(r) ==
    /\ pc[r] = "publish"
    /\ Stopped
    /\ Return(r)
    /\ UNCHANGED <<rows, poolVars, server, drvVars, gcVars, now, raced>>

(* The handler's calls on the driver are over. *)
FinishUse(r) ==
    /\ pc[r] = "use"
    /\ Return(r)
    /\ UNCHANGED <<rows, poolVars, server, drvVars, gcVars, now, raced>>

(***************************************************************************)
(* The handlers that change saved connections.                             *)
(***************************************************************************)
ConnectionCreate(c) ==
    /\ server = "serving"
    /\ rows[c] = Unborn
    /\ rows' = [rows EXCEPT ![c] = 1]
    /\ UNCHANGED <<poolVars, server, drvVars, reqVars, gcVars, now, raced>>

(* Pool.Evict under the lock; raced is history, not program state. *)
Evict(c) ==
    /\ Retire({c}, "evicted")
    /\ raced' = IF \E q \in Requests :
                     Loaded(q) /\ conn[q] = c /\ ver[q] # rows[c]
                THEN raced \cup {c} ELSE raced \ {c}

(* Mutant: the handler answers without evicting. *)
ConnectionUpdateOnly(r, c) ==
    /\ server = "serving"
    /\ pc[r] = "none"
    /\ rows[c] < MaxVersion
    /\ rows' = [rows EXCEPT ![c] = IF Live(c) THEN @ + 1 ELSE @]
    /\ conn' = [conn EXCEPT ![r] = c]
    /\ UNCHANGED <<poolVars, server, drvVars, pc, ver, drv, since, gcVars,
                   now, raced>>

(* handleConnectionUpdate: UPDATE ... WHERE id=? succeeds for an id that   *)
(* is not there as well; a failing UPDATE changes nothing and does not     *)
(* evict, which is a step that changes nothing here.                       *)
ConnectionUpdate(r, c) ==
    /\ server = "serving"
    /\ pc[r] = "none"
    /\ rows[c] < MaxVersion
    /\ rows' = [rows EXCEPT ![c] = IF Live(c) THEN @ + 1 ELSE @]
    /\ Goto(r, "evict")
    /\ conn' = [conn EXCEPT ![r] = c]
    /\ UNCHANGED <<poolVars, server, drvVars, ver, drv, since, gcVars, now,
                   raced>>

UpdateEvict(r) ==
    /\ pc[r] = "evict"
    /\ Evict(conn[r])
    /\ Return(r)
    /\ UNCHANGED <<rows, server, dconn, dver, gcVars, now>>

(* handleConnectionDelete: evict first, then delete the row. *)
ConnectionDelete(r, c) ==
    /\ server = "serving"
    /\ pc[r] = "none"
    /\ Evict(c)
    /\ Goto(r, "delete")
    /\ conn' = [conn EXCEPT ![r] = c]
    /\ UNCHANGED <<rows, server, dconn, dver, ver, drv, since,
                   gcVars, now>>

DeleteRow(r) ==
    /\ pc[r] = "delete"
    /\ server # "closed"
    /\ rows' = [rows EXCEPT ![conn[r]] = IF Live(conn[r]) THEN Deleted ELSE @]
    /\ Return(r)
    /\ UNCHANGED <<poolVars, server, drvVars, gcVars, now, raced>>

(* The DELETE fails: the context is done or the store is closed. *)
DeleteRowFail(r) ==
    /\ pc[r] = "delete"
    /\ Return(r)
    /\ UNCHANGED <<rows, poolVars, server, drvVars, gcVars, now, raced>>

(* Pool.Test: a driver of its own, closed whatever the ping says. *)
TestOpen(r, d) ==
    /\ server = "serving"
    /\ pc[r] = "none"
    /\ Fresh(r, d, NoConn, Unborn)
    /\ Goto(r, "test")
    /\ UNCHANGED <<rows, poolVars, server, conn, ver, since, gcVars, now,
                   raced>>

TestPing(r) ==
    /\ pc[r] = "test"
    /\ Discard(drv[r])
    /\ Return(r)
    /\ UNCHANGED <<rows, poolVars, server, dconn, dver, gcVars, now, raced>>

(***************************************************************************)
(* The idle collector.  The cutoff is taken before the lock.               *)
(***************************************************************************)
GcTick ==
    /\ gc = "waiting"
    /\ ~Stopped
    /\ gc' = "locking"
    /\ cutoff' = now - IdleTTL
    /\ UNCHANGED <<rows, poolVars, server, drvVars, reqVars, now, raced>>

(* Mutant: entries exactly as old as the cutoff go as well. *)
IdleInclusive == {c \in Conns : pool[c] # NoDriver /\ lastUsed[c] <= cutoff}

(* Mutant: the comparison is the wrong way round. *)
IdleReversed == {c \in Conns : pool[c] # NoDriver /\ cutoff < lastUsed[c]}

Idle == {c \in Conns : pool[c] # NoDriver /\ lastUsed[c] < cutoff}

EvictIdle ==
    /\ gc = "locking"
    /\ Retire(Idle, "idle")
    /\ gc' = "waiting"
    /\ cutoff' = 0
    /\ UNCHANGED <<rows, server, dconn, dver, reqVars, now, raced>>

(***************************************************************************)
(* Server.shutdown: no new requests; after the drain, or after its ten     *)
(* seconds, Pool.Stop; then store.Close.                                   *)
(***************************************************************************)
BeginShutdown ==
    /\ server = "serving"
    /\ server' = "draining"
    /\ UNCHANGED <<rows, poolVars, drvVars, reqVars, gcVars, now, raced>>

Stop ==
    /\ server = "draining"
    /\ Retire(Conns, "stopped")
    /\ server' = "stopped"
    /\ UNCHANGED <<rows, dconn, dver, reqVars, gcVars, now, raced>>

StoreClose ==
    /\ server = "stopped"
    /\ server' = "closed"
    /\ UNCHANGED <<rows, poolVars, drvVars, reqVars, gcVars, now, raced>>

(* main returns: nothing happens any more. *)
Exited ==
    /\ server = "closed"
    /\ UNCHANGED vars

Tick ==
    /\ now < MaxTime
    /\ now' = now + 1
    /\ UNCHANGED <<rows, poolVars, server, drvVars, reqVars, gcVars, raced>>

-----------------------------------------------------------------------------
Get(r) ==
    \/ GetHit(r) \/ GetMiss(r) \/ LoadRow(r) \/ GetFail(r)
    \/ \E d \in Drivers : OpenDriver(r, d)
    \/ PingOk(r) \/ PingFail(r)
    \/ PublishRaced(r) \/ Publish(r) \/ PublishPanic(r)

Next ==
    \/ \E r \in Requests :
         \/ \E c \in Conns : \/ ResolveConn(r, c)
                             \/ ConnectionUpdate(r, c)
                             \/ ConnectionDelete(r, c)
         \/ Get(r)
         \/ FinishUse(r)
         \/ UpdateEvict(r) \/ DeleteRow(r) \/ DeleteRowFail(r)
         \/ \E d \in Drivers : TestOpen(r, d)
         \/ TestPing(r)
    \/ \E c \in Conns : ConnectionCreate(c)
    \/ GcTick \/ EvictIdle
    \/ BeginShutdown \/ Stop \/ StoreClose \/ Exited
    \/ Tick

Spec == Init /\ [][Next]_vars

(* The collector's ticker fires every minute and the critical sections of  *)
(* Pool.mu do nothing but look up, insert, delete and Close, so the        *)
(* collector gets the lock.  Nothing is assumed of requests or the clock.  *)
FairSpec == Spec /\ WF_vars(GcTick) /\ WF_vars(EvictIdle)

-----------------------------------------------------------------------------
(* Every variable has the type its Go counterpart has. *)
TypeOK ==
    /\ rows \in [Conns -> -1 .. MaxVersion]
    /\ pool \in [Conns -> Drivers \cup {NoDriver}]
    /\ lastUsed \in [Conns -> 0 .. MaxTime]
    /\ server \in ServerStates
    /\ dstate \in [Drivers -> DriverStates]
    /\ dconn \in [Drivers -> Conns \cup {NoConn}]
    /\ dver \in [Drivers -> 0 .. MaxVersion]
    /\ pc \in [Requests -> Places]
    /\ conn \in [Requests -> Conns \cup {NoConn}]
    /\ ver \in [Requests -> 0 .. MaxVersion]
    /\ drv \in [Requests -> Drivers \cup {NoDriver}]
    /\ since \in [Requests -> 0 .. MaxTime]
    /\ gc \in {"waiting", "locking"}
    /\ cutoff \in Int
    /\ now \in 0 .. MaxTime
    /\ raced \subseteq Conns

(* No driver is leaked while the pool is up: every open driver is the      *)
(* pooled one of its connection or is in the hands of one request that is  *)
(* still between openDriver and its own Close or publish.  (After Stop the *)
(* nil-map panic does leak the driver of a Get that was under way.)        *)
NoDriverLeaked ==
    \A d \in Drivers :
        dstate[d] = "open" =>
            \/ \E c \in Conns : pool[c] = d
            \/ \E r \in Requests : Private(r) /\ drv[r] = d
            \/ Stopped

(* What is in the map can be handed out: a pooled driver is open, was      *)
(* opened for that very id, and nothing is pooled once Stop has run, even  *)
(* by a Get that was under way.                                            *)
PooledDriversUsable ==
    \A c \in Conns :
        pool[c] # NoDriver =>
            ~Stopped /\ dstate[pool[c]] = "open" /\ dconn[pool[c]] = c

(* Requests on one connection share one driver: whatever Get handed out is *)
(* either the pooled driver of that id or already closed, so two handlers  *)
(* never hold two different open drivers for the same id, however their    *)
(* Gets, Evicts and the collector interleave.                              *)
OneOpenDriverPerConn ==
    \A r \in Requests :
        pc[r] = "use" /\ dstate[drv[r]] = "open" => pool[conn[r]] = drv[r]

(* Update followed by Evict does its job unless it is overtaken: a pooled  *)
(* driver with out-of-date settings is there only while an update handler  *)
(* has yet to evict, or because the last Evict of that id met a Get which  *)
(* had already read the old row.  A later update without such a Get heals. *)
StaleOnlyIfRaced ==
    \A c \in Conns :
        pool[c] # NoDriver /\ Live(c) /\ dver[pool[c]] # rows[c] =>
            UpdatePending(c) \/ c \in raced

(* The collector never takes a driver from a request that was given it no  *)
(* more than IdleTTL ago, although its cutoff is computed before it holds  *)
(* the lock and Get may stamp the entry in between.                        *)
GrantOutlivesTTL ==
    \A r \in Requests :
        pc[r] = "use" /\ dstate[drv[r]] = "idle" => now - since[r] > IdleTTL

(* Once Stop has run nobody is handed a driver, even a Get that had opened *)
(* and pinged one before Stop.                                             *)
NoGrantAfterStop ==
    [][Stopped => \A r \in Requests : pc[r] # "use" => pc'[r] # "use"]_vars

(* A driver that has been idle for longer than the TTL does not stay: it   *)
(* is closed and removed, or some Get stamps the entry again.              *)
IdleDriverGoes ==
    \A c \in Conns :
        (pool[c] # NoDriver /\ now - lastUsed[c] > IdleTTL)
            ~> (pool[c] = NoDriver \/ now - lastUsed[c] <= IdleTTL)

-----------------------------------------------------------------------------
(***************************************************************************)
(* What the invariants above rest on.                                      *)
(***************************************************************************)

(* A handler past its first step knows its connection, and its driver once *)
(* it has opened or been given one.                                        *)
Bound ==
    \A r \in Requests :
        /\ pc[r] \notin {"none", "test"} => conn[r] \in Conns
        /\ Private(r) \/ pc[r] = "use" => drv[r] \in Drivers

(* A driver that is private to a request is open, is not pooled, is in     *)
(* nobody else's hands, and is what openDriver made of the row Get read.   *)
PrivateDrivers ==
    \A r \in Requests :
        Private(r) =>
            /\ dstate[drv[r]] = "open"
            /\ \A c \in Conns : pool[c] # drv[r]
            /\ \A q \in Requests :
                  (Private(q) \/ pc[q] = "use") /\ q # r => drv[q] # drv[r]
            /\ pc[r] # "test" =>
                  dconn[drv[r]] = conn[r] /\ dver[drv[r]] = ver[r]

(* A driver in use was opened for the connection it is used for. *)
UsedDrivers ==
    \A r \in Requests :
        pc[r] = "use" =>
            dstate[drv[r]] # "unused" /\ dconn[drv[r]] = conn[r]

(* Settings that were read are those of a row that was created, and a Get  *)
(* that holds out-of-date ones is known to have raced, or will be when the *)
(* update evicts.                                                          *)
LoadedSettings ==
    /\ \A c \in Conns : pool[c] # NoDriver => rows[c] # Unborn
    /\ \A r \in Requests :
        Loaded(r) =>
            /\ rows[conn[r]] # Unborn
            /\ Live(conn[r]) /\ ver[r] # rows[conn[r]] =>
                  UpdatePending(conn[r]) \/ conn[r] \in raced

(* Clocks: the cutoff lies a TTL back, and the entry of a driver that is   *)
(* in use was stamped when it was handed out or later.                     *)
Stamps ==
    /\ gc = "locking" => cutoff <= now - IdleTTL
    /\ \A r \in Requests :
        /\ since[r] <= now
        /\ pc[r] = "use" /\ pool[conn[r]] = drv[r] =>
              since[r] <= lastUsed[conn[r]]

IndInv ==
    /\ TypeOK /\ Bound
    /\ PooledDriversUsable /\ PrivateDrivers /\ UsedDrivers
    /\ NoDriverLeaked /\ OneOpenDriverPerConn
    /\ LoadedSettings /\ StaleOnlyIfRaced
    /\ Stamps /\ GrantOutlivesTTL

-----------------------------------------------------------------------------
LiveDrivers == {d \in Drivers : dstate[d] = "open"}
ClosedDrivers == {d \in Drivers : dstate[d] \notin {"unused", "open"}}

Cache == INSTANCE DriverCache
            WITH current <- pool, live <- LiveDrivers, closed <- ClosedDrivers

(* The pool implements DriverCache: whatever requests, handlers, collector *)
(* and shutdown do, a step of theirs opens a driver, makes an open one     *)
(* current where there is none, closes one that is not current, expels     *)
(* current ones, or changes none of this.                                  *)
ImplementsCache == Cache!Spec

-----------------------------------------------------------------------------
(* What the comments of pool.go say and the code does not do.              *)

(* "auto-closed after IdleTimeout of inactivity" (pool.go:13): a driver    *)
(* that a handler is still using is not closed for being idle.             *)
NotClosedWhileUsed ==
    \A r \in Requests : pc[r] = "use" => dstate[drv[r]] # "idle"

(* "Evict closes and removes an entry - call when a connection is          *)
(* updated/deleted" (pool.go:84): once no handler has still to evict or to *)
(* delete, a pooled driver is that of a saved connection and has the saved *)
(* settings.                                                               *)
PoolFollowsRows ==
    \A c \in Conns :
        pool[c] # NoDriver /\ ~UpdatePending(c) /\ ~DeletePending(c) =>
            Live(c) /\ dver[pool[c]] = rows[c]
=============================================================================
