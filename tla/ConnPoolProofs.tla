--------------------------- MODULE ConnPoolProofs ---------------------------
(***************************************************************************)
(* Proofs about ConnPool, for every set of requests, connections and       *)
(* drivers and every bound.                                                *)
(*                                                                         *)
(* IndInv is inductive: there is one lemma per conjunct, with one step per *)
(* action.  The safety invariants are conjuncts of it.  That the pool      *)
(* implements DriverCache follows from it step by step: an action that     *)
(* touches drivers is matched with the one DriverCache action it performs. *)
(***************************************************************************)
EXTENDS ConnPool, TLAPS

(* Each step keeps the types, given that handlers know their connection.   *)
LEMMA TypeStep == TypeOK /\ Bound /\ [Next]_vars => TypeOK'
<1> SUFFICES ASSUME TypeOK /\ Bound, [Next]_vars PROVE TypeOK'
  OBVIOUS
<1> USE NoDriverAssumption, NoConnAssumption, BoundsAssumption
    DEF TypeOK, Bound, Private, ServerStates, DriverStates, Places, Live,
        Stopped, Unborn, Deleted, poolVars, drvVars, reqVars, gcVars
<1>1. ASSUME NEW r \in Requests, NEW c \in Conns, ResolveConn(r, c)
      PROVE  TypeOK'
  BY <1>1 DEF ResolveConn, Goto
<1>2. ASSUME NEW r \in Requests, GetHit(r) PROVE TypeOK'
  BY <1>2 DEF GetHit, Goto, Grant
<1>3. ASSUME NEW r \in Requests, GetMiss(r) PROVE TypeOK'
  BY <1>3 DEF GetMiss, Goto
<1>4. ASSUME NEW r \in Requests, LoadRow(r) PROVE TypeOK'
  BY <1>4 DEF LoadRow, Goto
<1>5. ASSUME NEW r \in Requests, GetFail(r) PROVE TypeOK'
  BY <1>5 DEF GetFail, Goto, Return
<1>6. ASSUME NEW r \in Requests, NEW d \in Drivers, OpenDriver(r, d)
      PROVE  TypeOK'
  BY <1>6 DEF OpenDriver, Goto, Fresh
<1>7. ASSUME NEW r \in Requests, PingOk(r) PROVE TypeOK'
  BY <1>7 DEF PingOk, Goto
<1>8. ASSUME NEW r \in Requests, PingFail(r) PROVE TypeOK'
  BY <1>8 DEF PingFail, Goto, Return, Discard
<1>9. ASSUME NEW r \in Requests, PublishRaced(r) PROVE TypeOK'
  BY <1>9 DEF PublishRaced, Goto, Grant, Discard
<1>10. ASSUME NEW r \in Requests, Publish(r) PROVE TypeOK'
  BY <1>10 DEF Publish, Goto, Grant
<1>11. ASSUME NEW r \in Requests, PublishPanic(r) PROVE TypeOK'
  BY <1>11 DEF PublishPanic, Goto, Return
<1>12. ASSUME NEW r \in Requests, FinishUse(r) PROVE TypeOK'
  BY <1>12 DEF FinishUse, Goto, Return
<1>13. ASSUME NEW r \in Requests, NEW c \in Conns, ConnectionUpdate(r, c)
      PROVE  TypeOK'
  BY <1>13 DEF ConnectionUpdate, Goto
<1>14. ASSUME NEW r \in Requests, UpdateEvict(r) PROVE TypeOK'
  BY <1>14 DEF UpdateEvict, Goto, Return, Evict, Retire
<1>15. ASSUME NEW r \in Requests, NEW c \in Conns, ConnectionDelete(r, c)
      PROVE  TypeOK'
  BY <1>15 DEF ConnectionDelete, Goto, Evict, Retire
<1>16. ASSUME NEW r \in Requests, DeleteRow(r) PROVE TypeOK'
  BY <1>16 DEF DeleteRow, Goto, Return
<1>17. ASSUME NEW r \in Requests, DeleteRowFail(r) PROVE TypeOK'
  BY <1>17 DEF DeleteRowFail, Goto, Return
<1>18. ASSUME NEW r \in Requests, NEW d \in Drivers, TestOpen(r, d)
      PROVE  TypeOK'
  BY <1>18 DEF TestOpen, Goto, Fresh
<1>19. ASSUME NEW r \in Requests, TestPing(r) PROVE TypeOK'
  BY <1>19 DEF TestPing, Goto, Return, Discard
<1>20. ASSUME NEW c \in Conns, ConnectionCreate(c) PROVE TypeOK'
  BY <1>20 DEF ConnectionCreate
<1>21. CASE GcTick
  BY <1>21 DEF GcTick
<1>22. CASE EvictIdle
  BY <1>22 DEF EvictIdle, Retire
<1>23. CASE BeginShutdown
  BY <1>23 DEF BeginShutdown
<1>24. CASE Stop
  BY <1>24 DEF Stop, Retire
<1>25. CASE StoreClose
  BY <1>25 DEF StoreClose
<1>26. CASE Exited
  BY <1>26 DEF Exited, vars
<1>27. CASE Tick
  BY <1>27 DEF Tick
<1>28. CASE UNCHANGED vars
  BY <1>28 DEF vars
<1> QED BY <1>1, <1>2, <1>3, <1>4, <1>5, <1>6, <1>7, <1>8, <1>9, <1>10,
    <1>11, <1>12, <1>13, <1>14, <1>15, <1>16, <1>17, <1>18, <1>19, <1>20,
    <1>21, <1>22, <1>23, <1>24, <1>25, <1>26, <1>27, <1>28 DEF Next, Get

(* A handler past its first step keeps its connection and driver.          *)
LEMMA BoundStep == TypeOK /\ Bound /\ [Next]_vars => Bound'
<1> SUFFICES ASSUME TypeOK /\ Bound, [Next]_vars PROVE Bound'
  OBVIOUS
<1> USE NoDriverAssumption, NoConnAssumption
    DEF TypeOK, Bound, Private, Places, poolVars, drvVars, reqVars, gcVars
<1>1. ASSUME NEW r \in Requests, NEW c \in Conns, ResolveConn(r, c)
      PROVE  Bound'
  BY <1>1 DEF ResolveConn, Goto
<1>2. ASSUME NEW r \in Requests, GetHit(r) PROVE Bound'
  BY <1>2 DEF GetHit, Goto, Grant
<1>3. ASSUME NEW r \in Requests, GetMiss(r) PROVE Bound'
  BY <1>3 DEF GetMiss, Goto
<1>4. ASSUME NEW r \in Requests, LoadRow(r) PROVE Bound'
  BY <1>4 DEF LoadRow, Goto
<1>5. ASSUME NEW r \in Requests, GetFail(r) PROVE Bound'
  BY <1>5 DEF GetFail, Goto, Return
<1>6. ASSUME NEW r \in Requests, NEW d \in Drivers, OpenDriver(r, d)
      PROVE  Bound'
  BY <1>6 DEF OpenDriver, Goto, Fresh
<1>7. ASSUME NEW r \in Requests, PingOk(r) PROVE Bound'
  BY <1>7 DEF PingOk, Goto
<1>8. ASSUME NEW r \in Requests, PingFail(r) PROVE Bound'
  BY <1>8 DEF PingFail, Goto, Return, Discard
<1>9. ASSUME NEW r \in Requests, PublishRaced(r) PROVE Bound'
  BY <1>9 DEF PublishRaced, Goto, Grant, Discard
<1>10. ASSUME NEW r \in Requests, Publish(r) PROVE Bound'
  BY <1>10 DEF Publish, Goto, Grant
<1>11. ASSUME NEW r \in Requests, PublishPanic(r) PROVE Bound'
  BY <1>11 DEF PublishPanic, Goto, Return
<1>12. ASSUME NEW r \in Requests, FinishUse(r) PROVE Bound'
  BY <1>12 DEF FinishUse, Goto, Return
<1>13. ASSUME NEW r \in Requests, NEW c \in Conns, ConnectionUpdate(r, c)
      PROVE  Bound'
  BY <1>13 DEF ConnectionUpdate, Goto
<1>14. ASSUME NEW r \in Requests, UpdateEvict(r) PROVE Bound'
  BY <1>14 DEF UpdateEvict, Goto, Return, Evict, Retire
<1>15. ASSUME NEW r \in Requests, NEW c \in Conns, ConnectionDelete(r, c)
      PROVE  Bound'
  BY <1>15 DEF ConnectionDelete, Goto, Evict, Retire
<1>16. ASSUME NEW r \in Requests, DeleteRow(r) PROVE Bound'
  BY <1>16 DEF DeleteRow, Goto, Return
<1>17. ASSUME NEW r \in Requests, DeleteRowFail(r) PROVE Bound'
  BY <1>17 DEF DeleteRowFail, Goto, Return
<1>18. ASSUME NEW r \in Requests, NEW d \in Drivers, TestOpen(r, d)
      PROVE  Bound'
  BY <1>18 DEF TestOpen, Goto, Fresh
<1>19. ASSUME NEW r \in Requests, TestPing(r) PROVE Bound'
  BY <1>19 DEF TestPing, Goto, Return, Discard
<1>20. ASSUME NEW c \in Conns, ConnectionCreate(c) PROVE Bound'
  BY <1>20 DEF ConnectionCreate
<1>21. CASE GcTick
  BY <1>21 DEF GcTick
<1>22. CASE EvictIdle
  BY <1>22 DEF EvictIdle, Retire
<1>23. CASE BeginShutdown
  BY <1>23 DEF BeginShutdown
<1>24. CASE Stop
  BY <1>24 DEF Stop, Retire
<1>25. CASE StoreClose
  BY <1>25 DEF StoreClose
<1>26. CASE Exited
  BY <1>26 DEF Exited, vars
<1>27. CASE Tick
  BY <1>27 DEF Tick
<1>28. CASE UNCHANGED vars
  BY <1>28 DEF vars
<1> QED BY <1>1, <1>2, <1>3, <1>4, <1>5, <1>6, <1>7, <1>8, <1>9, <1>10,
    <1>11, <1>12, <1>13, <1>14, <1>15, <1>16, <1>17, <1>18, <1>19, <1>20,
    <1>21, <1>22, <1>23, <1>24, <1>25, <1>26, <1>27, <1>28 DEF Next, Get

(* A driver is pooled only by Publish, which found it private and open; it *)
(* is closed only together with its entry, or while it is still private.   *)
LEMMA PooledStep == IndInv /\ [Next]_vars => PooledDriversUsable'
<1> SUFFICES ASSUME IndInv, [Next]_vars PROVE PooledDriversUsable'
  OBVIOUS
<1> USE NoDriverAssumption, NoConnAssumption
    DEF IndInv, TypeOK, Bound, Private, PooledDriversUsable, PrivateDrivers,
        Places, DriverStates, Stopped, Idle, poolVars, drvVars, reqVars,
        gcVars
<1>1. ASSUME NEW r \in Requests, NEW c \in Conns, ResolveConn(r, c)
      PROVE  PooledDriversUsable'
  BY <1>1 DEF ResolveConn, Goto
<1>2. ASSUME NEW r \in Requests, GetHit(r) PROVE PooledDriversUsable'
  BY <1>2 DEF GetHit, Goto, Grant
<1>3. ASSUME NEW r \in Requests, GetMiss(r) PROVE PooledDriversUsable'
  BY <1>3 DEF GetMiss, Goto
<1>4. ASSUME NEW r \in Requests, LoadRow(r) PROVE PooledDriversUsable'
  BY <1>4 DEF LoadRow, Goto
<1>5. ASSUME NEW r \in Requests, GetFail(r) PROVE PooledDriversUsable'
  BY <1>5 DEF GetFail, Goto, Return
<1>6. ASSUME NEW r \in Requests, NEW d \in Drivers, OpenDriver(r, d)
      PROVE  PooledDriversUsable'
  BY <1>6 DEF OpenDriver, Goto, Fresh
<1>7. ASSUME NEW r \in Requests, PingOk(r) PROVE PooledDriversUsable'
  BY <1>7 DEF PingOk, Goto
<1>8. ASSUME NEW r \in Requests, PingFail(r) PROVE PooledDriversUsable'
  BY <1>8 DEF PingFail, Goto, Return, Discard
<1>9. ASSUME NEW r \in Requests, PublishRaced(r) PROVE PooledDriversUsable'
  BY <1>9 DEF PublishRaced, Goto, Grant, Discard
<1>10. ASSUME NEW r \in Requests, Publish(r) PROVE PooledDriversUsable'
  BY <1>10 DEF Publish, Goto, Grant
<1>11. ASSUME NEW r \in Requests, PublishPanic(r) PROVE PooledDriversUsable'
  BY <1>11 DEF PublishPanic, Goto, Return
<1>12. ASSUME NEW r \in Requests, FinishUse(r) PROVE PooledDriversUsable'
  BY <1>12 DEF FinishUse, Goto, Return
<1>13. ASSUME NEW r \in Requests, NEW c \in Conns, ConnectionUpdate(r, c)
      PROVE  PooledDriversUsable'
  BY <1>13 DEF ConnectionUpdate, Goto
<1>14. ASSUME NEW r \in Requests, UpdateEvict(r) PROVE PooledDriversUsable'
  BY <1>14 DEF UpdateEvict, Goto, Return, Evict, Retire
<1>15. ASSUME NEW r \in Requests, NEW c \in Conns, ConnectionDelete(r, c)
      PROVE  PooledDriversUsable'
  BY <1>15 DEF ConnectionDelete, Goto, Evict, Retire
<1>16. ASSUME NEW r \in Requests, DeleteRow(r) PROVE PooledDriversUsable'
  BY <1>16 DEF DeleteRow, Goto, Return
<1>17. ASSUME NEW r \in Requests, DeleteRowFail(r) PROVE PooledDriversUsable'
  BY <1>17 DEF DeleteRowFail, Goto, Return
<1>18. ASSUME NEW r \in Requests, NEW d \in Drivers, TestOpen(r, d)
      PROVE  PooledDriversUsable'
  BY <1>18 DEF TestOpen, Goto, Fresh
<1>19. ASSUME NEW r \in Requests, TestPing(r) PROVE PooledDriversUsable'
  BY <1>19 DEF TestPing, Goto, Return, Discard
<1>20. ASSUME NEW c \in Conns, ConnectionCreate(c) PROVE PooledDriversUsable'
  BY <1>20 DEF ConnectionCreate
<1>21. CASE GcTick
  BY <1>21 DEF GcTick
<1>22. CASE EvictIdle
  BY <1>22 DEF EvictIdle, Retire
<1>23. CASE BeginShutdown
  BY <1>23 DEF BeginShutdown
<1>24. CASE Stop
  BY <1>24 DEF Stop, Retire
<1>25. CASE StoreClose
  BY <1>25 DEF StoreClose
<1>26. CASE Exited
  BY <1>26 DEF Exited, vars
<1>27. CASE Tick
  BY <1>27 DEF Tick
<1>28. CASE UNCHANGED vars
  BY <1>28 DEF vars
<1> QED BY <1>1, <1>2, <1>3, <1>4, <1>5, <1>6, <1>7, <1>8, <1>9, <1>10,
    <1>11, <1>12, <1>13, <1>14, <1>15, <1>16, <1>17, <1>18, <1>19, <1>20,
    <1>21, <1>22, <1>23, <1>24, <1>25, <1>26, <1>27, <1>28 DEF Next, Get

(* A private driver stays out of the pool and out of other hands: opens    *)
(* use fresh drivers, and nobody closes a driver that is not pooled or its *)
(* own.                                                                    *)
LEMMA PrivateStep == IndInv /\ [Next]_vars => PrivateDrivers'
<1> SUFFICES ASSUME IndInv, [Next]_vars PROVE PrivateDrivers'
  OBVIOUS
<1> USE NoDriverAssumption, NoConnAssumption
    DEF IndInv, TypeOK, Bound, Private, PooledDriversUsable, PrivateDrivers,
        UsedDrivers, Places, DriverStates, Stopped, Idle, poolVars, drvVars,
        reqVars, gcVars
<1>1. ASSUME NEW r \in Requests, NEW c \in Conns, ResolveConn(r, c)
      PROVE  PrivateDrivers'
  BY <1>1 DEF ResolveConn, Goto
<1>2. ASSUME NEW r \in Requests, GetHit(r) PROVE PrivateDrivers'
  BY <1>2 DEF GetHit, Goto, Grant
<1>3. ASSUME NEW r \in Requests, GetMiss(r) PROVE PrivateDrivers'
  BY <1>3 DEF GetMiss, Goto
<1>4. ASSUME NEW r \in Requests, LoadRow(r) PROVE PrivateDrivers'
  BY <1>4 DEF LoadRow, Goto
<1>5. ASSUME NEW r \in Requests, GetFail(r) PROVE PrivateDrivers'
  BY <1>5 DEF GetFail, Goto, Return
<1>6. ASSUME NEW r \in Requests, NEW d \in Drivers, OpenDriver(r, d)
      PROVE  PrivateDrivers'
  BY <1>6 DEF OpenDriver, Goto, Fresh
<1>7. ASSUME NEW r \in Requests, PingOk(r) PROVE PrivateDrivers'
  BY <1>7 DEF PingOk, Goto
<1>8. ASSUME NEW r \in Requests, PingFail(r) PROVE PrivateDrivers'
  BY <1>8 DEF PingFail, Goto, Return, Discard
<1>9. ASSUME NEW r \in Requests, PublishRaced(r) PROVE PrivateDrivers'
  BY <1>9 DEF PublishRaced, Goto, Grant, Discard
<1>10. ASSUME NEW r \in Requests, Publish(r) PROVE PrivateDrivers'
  BY <1>10 DEF Publish, Goto, Grant
<1>11. ASSUME NEW r \in Requests, PublishPanic(r) PROVE PrivateDrivers'
  BY <1>11 DEF PublishPanic, Goto, Return
<1>12. ASSUME NEW r \in Requests, FinishUse(r) PROVE PrivateDrivers'
  BY <1>12 DEF FinishUse, Goto, Return
<1>13. ASSUME NEW r \in Requests, NEW c \in Conns, ConnectionUpdate(r, c)
      PROVE  PrivateDrivers'
  BY <1>13 DEF ConnectionUpdate, Goto
<1>14. ASSUME NEW r \in Requests, UpdateEvict(r) PROVE PrivateDrivers'
  BY <1>14 DEF UpdateEvict, Goto, Return, Evict, Retire
<1>15. ASSUME NEW r \in Requests, NEW c \in Conns, ConnectionDelete(r, c)
      PROVE  PrivateDrivers'
  BY <1>15 DEF ConnectionDelete, Goto, Evict, Retire
<1>16. ASSUME NEW r \in Requests, DeleteRow(r) PROVE PrivateDrivers'
  BY <1>16 DEF DeleteRow, Goto, Return
<1>17. ASSUME NEW r \in Requests, DeleteRowFail(r) PROVE PrivateDrivers'
  BY <1>17 DEF DeleteRowFail, Goto, Return
<1>18. ASSUME NEW r \in Requests, NEW d \in Drivers, TestOpen(r, d)
      PROVE  PrivateDrivers'
  BY <1>18 DEF TestOpen, Goto, Fresh
<1>19. ASSUME NEW r \in Requests, TestPing(r) PROVE PrivateDrivers'
  BY <1>19 DEF TestPing, Goto, Return, Discard
<1>20. ASSUME NEW c \in Conns, ConnectionCreate(c) PROVE PrivateDrivers'
  BY <1>20 DEF ConnectionCreate
<1>21. CASE GcTick
  BY <1>21 DEF GcTick
<1>22. CASE EvictIdle
  BY <1>22 DEF EvictIdle, Retire
<1>23. CASE BeginShutdown
  BY <1>23 DEF BeginShutdown
<1>24. CASE Stop
  BY <1>24 DEF Stop, Retire
<1>25. CASE StoreClose
  BY <1>25 DEF StoreClose
<1>26. CASE Exited
  BY <1>26 DEF Exited, vars
<1>27. CASE Tick
  BY <1>27 DEF Tick
<1>28. CASE UNCHANGED vars
  BY <1>28 DEF vars
<1> QED BY <1>1, <1>2, <1>3, <1>4, <1>5, <1>6, <1>7, <1>8, <1>9, <1>10,
    <1>11, <1>12, <1>13, <1>14, <1>15, <1>16, <1>17, <1>18, <1>19, <1>20,
    <1>21, <1>22, <1>23, <1>24, <1>25, <1>26, <1>27, <1>28 DEF Next, Get

(* What Get hands out was opened for the connection asked for.             *)
LEMMA UsedStep == IndInv /\ [Next]_vars => UsedDrivers'
<1> SUFFICES ASSUME IndInv, [Next]_vars PROVE UsedDrivers'
  OBVIOUS
<1> USE NoDriverAssumption, NoConnAssumption
    DEF IndInv, TypeOK, Bound, Private, PooledDriversUsable, PrivateDrivers,
        UsedDrivers, Places, DriverStates, Stopped, poolVars, drvVars,
        reqVars, gcVars
<1>1. ASSUME NEW r \in Requests, NEW c \in Conns, ResolveConn(r, c)
      PROVE  UsedDrivers'
  BY <1>1 DEF ResolveConn, Goto
<1>2. ASSUME NEW r \in Requests, GetHit(r) PROVE UsedDrivers'
  BY <1>2 DEF GetHit, Goto, Grant
<1>3. ASSUME NEW r \in Requests, GetMiss(r) PROVE UsedDrivers'
  BY <1>3 DEF GetMiss, Goto
<1>4. ASSUME NEW r \in Requests, LoadRow(r) PROVE UsedDrivers'
  BY <1>4 DEF LoadRow, Goto
<1>5. ASSUME NEW r \in Requests, GetFail(r) PROVE UsedDrivers'
  BY <1>5 DEF GetFail, Goto, Return
<1>6. ASSUME NEW r \in Requests, NEW d \in Drivers, OpenDriver(r, d)
      PROVE  UsedDrivers'
  BY <1>6 DEF OpenDriver, Goto, Fresh
<1>7. ASSUME NEW r \in Requests, PingOk(r) PROVE UsedDrivers'
  BY <1>7 DEF PingOk, Goto
<1>8. ASSUME NEW r \in Requests, PingFail(r) PROVE UsedDrivers'
  BY <1>8 DEF PingFail, Goto, Return, Discard
<1>9. ASSUME NEW r \in Requests, PublishRaced(r) PROVE UsedDrivers'
  BY <1>9 DEF PublishRaced, Goto, Grant, Discard
<1>10. ASSUME NEW r \in Requests, Publish(r) PROVE UsedDrivers'
  BY <1>10 DEF Publish, Goto, Grant
<1>11. ASSUME NEW r \in Requests, PublishPanic(r) PROVE UsedDrivers'
  BY <1>11 DEF PublishPanic, Goto, Return
<1>12. ASSUME NEW r \in Requests, FinishUse(r) PROVE UsedDrivers'
  BY <1>12 DEF FinishUse, Goto, Return
<1>13. ASSUME NEW r \in Requests, NEW c \in Conns, ConnectionUpdate(r, c)
      PROVE  UsedDrivers'
  BY <1>13 DEF ConnectionUpdate, Goto
<1>14. ASSUME NEW r \in Requests, UpdateEvict(r) PROVE UsedDrivers'
  BY <1>14 DEF UpdateEvict, Goto, Return, Evict, Retire
<1>15. ASSUME NEW r \in Requests, NEW c \in Conns, ConnectionDelete(r, c)
      PROVE  UsedDrivers'
  BY <1>15 DEF ConnectionDelete, Goto, Evict, Retire
<1>16. ASSUME NEW r \in Requests, DeleteRow(r) PROVE UsedDrivers'
  BY <1>16 DEF DeleteRow, Goto, Return
<1>17. ASSUME NEW r \in Requests, DeleteRowFail(r) PROVE UsedDrivers'
  BY <1>17 DEF DeleteRowFail, Goto, Return
<1>18. ASSUME NEW r \in Requests, NEW d \in Drivers, TestOpen(r, d)
      PROVE  UsedDrivers'
  BY <1>18 DEF TestOpen, Goto, Fresh
<1>19. ASSUME NEW r \in Requests, TestPing(r) PROVE UsedDrivers'
  BY <1>19 DEF TestPing, Goto, Return, Discard
<1>20. ASSUME NEW c \in Conns, ConnectionCreate(c) PROVE UsedDrivers'
  BY <1>20 DEF ConnectionCreate
<1>21. CASE GcTick
  BY <1>21 DEF GcTick
<1>22. CASE EvictIdle
  BY <1>22 DEF EvictIdle, Retire
<1>23. CASE BeginShutdown
  BY <1>23 DEF BeginShutdown
<1>24. CASE Stop
  BY <1>24 DEF Stop, Retire
<1>25. CASE StoreClose
  BY <1>25 DEF StoreClose
<1>26. CASE Exited
  BY <1>26 DEF Exited, vars
<1>27. CASE Tick
  BY <1>27 DEF Tick
<1>28. CASE UNCHANGED vars
  BY <1>28 DEF vars
<1> QED BY <1>1, <1>2, <1>3, <1>4, <1>5, <1>6, <1>7, <1>8, <1>9, <1>10,
    <1>11, <1>12, <1>13, <1>14, <1>15, <1>16, <1>17, <1>18, <1>19, <1>20,
    <1>21, <1>22, <1>23, <1>24, <1>25, <1>26, <1>27, <1>28 DEF Next, Get

(* Every way out of Get and Test closes the driver or pools it, but for    *)
(* the panic after Stop.                                                   *)
LEMMA LeakStep == IndInv /\ [Next]_vars => NoDriverLeaked'
<1> SUFFICES ASSUME IndInv, [Next]_vars PROVE NoDriverLeaked'
  OBVIOUS
<1> USE NoDriverAssumption, NoConnAssumption
    DEF IndInv, TypeOK, Bound, Private, PooledDriversUsable, PrivateDrivers,
        NoDriverLeaked, Places, DriverStates, Stopped, poolVars, drvVars,
        reqVars, gcVars
<1>1. ASSUME NEW r \in Requests, NEW c \in Conns, ResolveConn(r, c)
      PROVE  NoDriverLeaked'
  BY <1>1 DEF ResolveConn, Goto
<1>2. ASSUME NEW r \in Requests, GetHit(r) PROVE NoDriverLeaked'
  BY <1>2 DEF GetHit, Goto, Grant
<1>3. ASSUME NEW r \in Requests, GetMiss(r) PROVE NoDriverLeaked'
  BY <1>3 DEF GetMiss, Goto
<1>4. ASSUME NEW r \in Requests, LoadRow(r) PROVE NoDriverLeaked'
  BY <1>4 DEF LoadRow, Goto
<1>5. ASSUME NEW r \in Requests, GetFail(r) PROVE NoDriverLeaked'
  BY <1>5 DEF GetFail, Goto, Return
<1>6. ASSUME NEW r \in Requests, NEW d \in Drivers, OpenDriver(r, d)
      PROVE  NoDriverLeaked'
  BY <1>6 DEF OpenDriver, Goto, Fresh
<1>7. ASSUME NEW r \in Requests, PingOk(r) PROVE NoDriverLeaked'
  BY <1>7 DEF PingOk, Goto
<1>8. ASSUME NEW r \in Requests, PingFail(r) PROVE NoDriverLeaked'
  BY <1>8 DEF PingFail, Goto, Return, Discard
<1>9. ASSUME NEW r \in Requests, PublishRaced(r) PROVE NoDriverLeaked'
  BY <1>9 DEF PublishRaced, Goto, Grant, Discard
<1>10. ASSUME NEW r \in Requests, Publish(r) PROVE NoDriverLeaked'
  BY <1>10 DEF Publish, Goto, Grant
<1>11. ASSUME NEW r \in Requests, PublishPanic(r) PROVE NoDriverLeaked'
  BY <1>11 DEF PublishPanic, Goto, Return
<1>12. ASSUME NEW r \in Requests, FinishUse(r) PROVE NoDriverLeaked'
  BY <1>12 DEF FinishUse, Goto, Return
<1>13. ASSUME NEW r \in Requests, NEW c \in Conns, ConnectionUpdate(r, c)
      PROVE  NoDriverLeaked'
  BY <1>13 DEF ConnectionUpdate, Goto
<1>14. ASSUME NEW r \in Requests, UpdateEvict(r) PROVE NoDriverLeaked'
  BY <1>14 DEF UpdateEvict, Goto, Return, Evict, Retire
<1>15. ASSUME NEW r \in Requests, NEW c \in Conns, ConnectionDelete(r, c)
      PROVE  NoDriverLeaked'
  BY <1>15 DEF ConnectionDelete, Goto, Evict, Retire
<1>16. ASSUME NEW r \in Requests, DeleteRow(r) PROVE NoDriverLeaked'
  BY <1>16 DEF DeleteRow, Goto, Return
<1>17. ASSUME NEW r \in Requests, DeleteRowFail(r) PROVE NoDriverLeaked'
  BY <1>17 DEF DeleteRowFail, Goto, Return
<1>18. ASSUME NEW r \in Requests, NEW d \in Drivers, TestOpen(r, d)
      PROVE  NoDriverLeaked'
  BY <1>18 DEF TestOpen, Goto, Fresh
<1>19. ASSUME NEW r \in Requests, TestPing(r) PROVE NoDriverLeaked'
  BY <1>19 DEF TestPing, Goto, Return, Discard
<1>20. ASSUME NEW c \in Conns, ConnectionCreate(c) PROVE NoDriverLeaked'
  BY <1>20 DEF ConnectionCreate
<1>21. CASE GcTick
  BY <1>21 DEF GcTick
<1>22. CASE EvictIdle
  BY <1>22 DEF EvictIdle, Retire
<1>23. CASE BeginShutdown
  BY <1>23 DEF BeginShutdown
<1>24. CASE Stop
  BY <1>24 DEF Stop, Retire
<1>25. CASE StoreClose
  BY <1>25 DEF StoreClose
<1>26. CASE Exited
  BY <1>26 DEF Exited, vars
<1>27. CASE Tick
  BY <1>27 DEF Tick
<1>28. CASE UNCHANGED vars
  BY <1>28 DEF vars
<1> QED BY <1>1, <1>2, <1>3, <1>4, <1>5, <1>6, <1>7, <1>8, <1>9, <1>10,
    <1>11, <1>12, <1>13, <1>14, <1>15, <1>16, <1>17, <1>18, <1>19, <1>20,
    <1>21, <1>22, <1>23, <1>24, <1>25, <1>26, <1>27, <1>28 DEF Next, Get

(* A driver leaves the pool only by being closed, so one that is in use    *)
(* and open is still the pooled one.                                       *)
LEMMA OneOpenStep == IndInv /\ [Next]_vars => OneOpenDriverPerConn'
<1> SUFFICES ASSUME IndInv, [Next]_vars PROVE OneOpenDriverPerConn'
  OBVIOUS
<1> USE NoDriverAssumption, NoConnAssumption
    DEF IndInv, TypeOK, Bound, Private, PooledDriversUsable, PrivateDrivers,
        UsedDrivers, OneOpenDriverPerConn, Places, DriverStates, Stopped,
        poolVars, drvVars, reqVars, gcVars
<1>1. ASSUME NEW r \in Requests, NEW c \in Conns, ResolveConn(r, c)
      PROVE  OneOpenDriverPerConn'
  BY <1>1 DEF ResolveConn, Goto
<1>2. ASSUME NEW r \in Requests, GetHit(r) PROVE OneOpenDriverPerConn'
  BY <1>2 DEF GetHit, Goto, Grant
<1>3. ASSUME NEW r \in Requests, GetMiss(r) PROVE OneOpenDriverPerConn'
  BY <1>3 DEF GetMiss, Goto
<1>4. ASSUME NEW r \in Requests, LoadRow(r) PROVE OneOpenDriverPerConn'
  BY <1>4 DEF LoadRow, Goto
<1>5. ASSUME NEW r \in Requests, GetFail(r) PROVE OneOpenDriverPerConn'
  BY <1>5 DEF GetFail, Goto, Return
<1>6. ASSUME NEW r \in Requests, NEW d \in Drivers, OpenDriver(r, d)
      PROVE  OneOpenDriverPerConn'
  BY <1>6 DEF OpenDriver, Goto, Fresh
<1>7. ASSUME NEW r \in Requests, PingOk(r) PROVE OneOpenDriverPerConn'
  BY <1>7 DEF PingOk, Goto
<1>8. ASSUME NEW r \in Requests, PingFail(r) PROVE OneOpenDriverPerConn'
  BY <1>8 DEF PingFail, Goto, Return, Discard
<1>9. ASSUME NEW r \in Requests, PublishRaced(r) PROVE OneOpenDriverPerConn'
  BY <1>9 DEF PublishRaced, Goto, Grant, Discard
<1>10. ASSUME NEW r \in Requests, Publish(r) PROVE OneOpenDriverPerConn'
  BY <1>10 DEF Publish, Goto, Grant
<1>11. ASSUME NEW r \in Requests, PublishPanic(r) PROVE OneOpenDriverPerConn'
  BY <1>11 DEF PublishPanic, Goto, Return
<1>12. ASSUME NEW r \in Requests, FinishUse(r) PROVE OneOpenDriverPerConn'
  BY <1>12 DEF FinishUse, Goto, Return
<1>13. ASSUME NEW r \in Requests, NEW c \in Conns, ConnectionUpdate(r, c)
      PROVE  OneOpenDriverPerConn'
  BY <1>13 DEF ConnectionUpdate, Goto
<1>14. ASSUME NEW r \in Requests, UpdateEvict(r) PROVE OneOpenDriverPerConn'
  BY <1>14 DEF UpdateEvict, Goto, Return, Evict, Retire
<1>15. ASSUME NEW r \in Requests, NEW c \in Conns, ConnectionDelete(r, c)
      PROVE  OneOpenDriverPerConn'
  BY <1>15 DEF ConnectionDelete, Goto, Evict, Retire
<1>16. ASSUME NEW r \in Requests, DeleteRow(r) PROVE OneOpenDriverPerConn'
  BY <1>16 DEF DeleteRow, Goto, Return
<1>17. ASSUME NEW r \in Requests, DeleteRowFail(r) PROVE OneOpenDriverPerConn'
  BY <1>17 DEF DeleteRowFail, Goto, Return
<1>18. ASSUME NEW r \in Requests, NEW d \in Drivers, TestOpen(r, d)
      PROVE  OneOpenDriverPerConn'
  BY <1>18 DEF TestOpen, Goto, Fresh
<1>19. ASSUME NEW r \in Requests, TestPing(r) PROVE OneOpenDriverPerConn'
  BY <1>19 DEF TestPing, Goto, Return, Discard
<1>20. ASSUME NEW c \in Conns, ConnectionCreate(c) PROVE OneOpenDriverPerConn'
  BY <1>20 DEF ConnectionCreate
<1>21. CASE GcTick
  BY <1>21 DEF GcTick
<1>22. CASE EvictIdle
  BY <1>22 DEF EvictIdle, Retire
<1>23. CASE BeginShutdown
  BY <1>23 DEF BeginShutdown
<1>24. CASE Stop
  BY <1>24 DEF Stop, Retire
<1>25. CASE StoreClose
  BY <1>25 DEF StoreClose
<1>26. CASE Exited
  BY <1>26 DEF Exited, vars
<1>27. CASE Tick
  BY <1>27 DEF Tick
<1>28. CASE UNCHANGED vars
  BY <1>28 DEF vars
<1> QED BY <1>1, <1>2, <1>3, <1>4, <1>5, <1>6, <1>7, <1>8, <1>9, <1>10,
    <1>11, <1>12, <1>13, <1>14, <1>15, <1>16, <1>17, <1>18, <1>19, <1>20,
    <1>21, <1>22, <1>23, <1>24, <1>25, <1>26, <1>27, <1>28 DEF Next, Get

(* The clock does not go back and entries are stamped with the time.       *)
LEMMA StampsStep == IndInv /\ [Next]_vars => Stamps'
<1> SUFFICES ASSUME IndInv, [Next]_vars PROVE Stamps'
  OBVIOUS
<1> USE NoDriverAssumption, NoConnAssumption, BoundsAssumption
    DEF IndInv, TypeOK, Bound, Private, PooledDriversUsable, PrivateDrivers,
        UsedDrivers, OneOpenDriverPerConn, Stamps, Places, DriverStates,
        Stopped, poolVars, drvVars, reqVars, gcVars
<1>1. ASSUME NEW r \in Requests, NEW c \in Conns, ResolveConn(r, c)
      PROVE  Stamps'
  BY <1>1 DEF ResolveConn, Goto
<1>2. ASSUME NEW r \in Requests, GetHit(r) PROVE Stamps'
  BY <1>2 DEF GetHit, Goto, Grant
<1>3. ASSUME NEW r \in Requests, GetMiss(r) PROVE Stamps'
  BY <1>3 DEF GetMiss, Goto
<1>4. ASSUME NEW r \in Requests, LoadRow(r) PROVE Stamps'
  BY <1>4 DEF LoadRow, Goto
<1>5. ASSUME NEW r \in Requests, GetFail(r) PROVE Stamps'
  BY <1>5 DEF GetFail, Goto, Return
<1>6. ASSUME NEW r \in Requests, NEW d \in Drivers, OpenDriver(r, d)
      PROVE  Stamps'
  BY <1>6 DEF OpenDriver, Goto, Fresh
<1>7. ASSUME NEW r \in Requests, PingOk(r) PROVE Stamps'
  BY <1>7 DEF PingOk, Goto
<1>8. ASSUME NEW r \in Requests, PingFail(r) PROVE Stamps'
  BY <1>8 DEF PingFail, Goto, Return, Discard
<1>9. ASSUME NEW r \in Requests, PublishRaced(r) PROVE Stamps'
  BY <1>9 DEF PublishRaced, Goto, Grant, Discard
<1>10. ASSUME NEW r \in Requests, Publish(r) PROVE Stamps'
  BY <1>10 DEF Publish, Goto, Grant
<1>11. ASSUME NEW r \in Requests, PublishPanic(r) PROVE Stamps'
  BY <1>11 DEF PublishPanic, Goto, Return
<1>12. ASSUME NEW r \in Requests, FinishUse(r) PROVE Stamps'
  BY <1>12 DEF FinishUse, Goto, Return
<1>13. ASSUME NEW r \in Requests, NEW c \in Conns, ConnectionUpdate(r, c)
      PROVE  Stamps'
  BY <1>13 DEF ConnectionUpdate, Goto
<1>14. ASSUME NEW r \in Requests, UpdateEvict(r) PROVE Stamps'
  BY <1>14 DEF UpdateEvict, Goto, Return, Evict, Retire
<1>15. ASSUME NEW r \in Requests, NEW c \in Conns, ConnectionDelete(r, c)
      PROVE  Stamps'
  BY <1>15 DEF ConnectionDelete, Goto, Evict, Retire
<1>16. ASSUME NEW r \in Requests, DeleteRow(r) PROVE Stamps'
  BY <1>16 DEF DeleteRow, Goto, Return
<1>17. ASSUME NEW r \in Requests, DeleteRowFail(r) PROVE Stamps'
  BY <1>17 DEF DeleteRowFail, Goto, Return
<1>18. ASSUME NEW r \in Requests, NEW d \in Drivers, TestOpen(r, d)
      PROVE  Stamps'
  BY <1>18 DEF TestOpen, Goto, Fresh
<1>19. ASSUME NEW r \in Requests, TestPing(r) PROVE Stamps'
  BY <1>19 DEF TestPing, Goto, Return, Discard
<1>20. ASSUME NEW c \in Conns, ConnectionCreate(c) PROVE Stamps'
  BY <1>20 DEF ConnectionCreate
<1>21. CASE GcTick
  BY <1>21 DEF GcTick
<1>22. CASE EvictIdle
  BY <1>22 DEF EvictIdle, Retire
<1>23. CASE BeginShutdown
  BY <1>23 DEF BeginShutdown
<1>24. CASE Stop
  BY <1>24 DEF Stop, Retire
<1>25. CASE StoreClose
  BY <1>25 DEF StoreClose
<1>26. CASE Exited
  BY <1>26 DEF Exited, vars
<1>27. CASE Tick
  BY <1>27 DEF Tick
<1>28. CASE UNCHANGED vars
  BY <1>28 DEF vars
<1> QED BY <1>1, <1>2, <1>3, <1>4, <1>5, <1>6, <1>7, <1>8, <1>9, <1>10,
    <1>11, <1>12, <1>13, <1>14, <1>15, <1>16, <1>17, <1>18, <1>19, <1>20,
    <1>21, <1>22, <1>23, <1>24, <1>25, <1>26, <1>27, <1>28 DEF Next, Get

(* The collector closes an entry only when its stamp is older than the     *)
(* cutoff, and the stamp is no older than any grant of its driver.         *)
LEMMA GrantStep == IndInv /\ [Next]_vars => GrantOutlivesTTL'
<1> SUFFICES ASSUME IndInv, [Next]_vars PROVE GrantOutlivesTTL'
  OBVIOUS
<1> USE NoDriverAssumption, NoConnAssumption, BoundsAssumption
    DEF IndInv, TypeOK, Bound, Private, PooledDriversUsable, PrivateDrivers,
        UsedDrivers, OneOpenDriverPerConn, Stamps, GrantOutlivesTTL, Idle,
        Places, DriverStates, Stopped, poolVars, drvVars, reqVars, gcVars
<1>1. ASSUME NEW r \in Requests, NEW c \in Conns, ResolveConn(r, c)
      PROVE  GrantOutlivesTTL'
  BY <1>1 DEF ResolveConn, Goto
<1>2. ASSUME NEW r \in Requests, GetHit(r) PROVE GrantOutlivesTTL'
  BY <1>2 DEF GetHit, Goto, Grant
<1>3. ASSUME NEW r \in Requests, GetMiss(r) PROVE GrantOutlivesTTL'
  BY <1>3 DEF GetMiss, Goto
<1>4. ASSUME NEW r \in Requests, LoadRow(r) PROVE GrantOutlivesTTL'
  BY <1>4 DEF LoadRow, Goto
<1>5. ASSUME NEW r \in Requests, GetFail(r) PROVE GrantOutlivesTTL'
  BY <1>5 DEF GetFail, Goto, Return
<1>6. ASSUME NEW r \in Requests, NEW d \in Drivers, OpenDriver(r, d)
      PROVE  GrantOutlivesTTL'
  BY <1>6 DEF OpenDriver, Goto, Fresh
<1>7. ASSUME NEW r \in Requests, PingOk(r) PROVE GrantOutlivesTTL'
  BY <1>7 DEF PingOk, Goto
<1>8. ASSUME NEW r \in Requests, PingFail(r) PROVE GrantOutlivesTTL'
  BY <1>8 DEF PingFail, Goto, Return, Discard
<1>9. ASSUME NEW r \in Requests, PublishRaced(r) PROVE GrantOutlivesTTL'
  BY <1>9 DEF PublishRaced, Goto, Grant, Discard
<1>10. ASSUME NEW r \in Requests, Publish(r) PROVE GrantOutlivesTTL'
  BY <1>10 DEF Publish, Goto, Grant
<1>11. ASSUME NEW r \in Requests, PublishPanic(r) PROVE GrantOutlivesTTL'
  BY <1>11 DEF PublishPanic, Goto, Return
<1>12. ASSUME NEW r \in Requests, FinishUse(r) PROVE GrantOutlivesTTL'
  BY <1>12 DEF FinishUse, Goto, Return
<1>13. ASSUME NEW r \in Requests, NEW c \in Conns, ConnectionUpdate(r, c)
      PROVE  GrantOutlivesTTL'
  BY <1>13 DEF ConnectionUpdate, Goto
<1>14. ASSUME NEW r \in Requests, UpdateEvict(r) PROVE GrantOutlivesTTL'
  BY <1>14 DEF UpdateEvict, Goto, Return, Evict, Retire
<1>15. ASSUME NEW r \in Requests, NEW c \in Conns, ConnectionDelete(r, c)
      PROVE  GrantOutlivesTTL'
  BY <1>15 DEF ConnectionDelete, Goto, Evict, Retire
<1>16. ASSUME NEW r \in Requests, DeleteRow(r) PROVE GrantOutlivesTTL'
  BY <1>16 DEF DeleteRow, Goto, Return
<1>17. ASSUME NEW r \in Requests, DeleteRowFail(r) PROVE GrantOutlivesTTL'
  BY <1>17 DEF DeleteRowFail, Goto, Return
<1>18. ASSUME NEW r \in Requests, NEW d \in Drivers, TestOpen(r, d)
      PROVE  GrantOutlivesTTL'
  BY <1>18 DEF TestOpen, Goto, Fresh
<1>19. ASSUME NEW r \in Requests, TestPing(r) PROVE GrantOutlivesTTL'
  BY <1>19 DEF TestPing, Goto, Return, Discard
<1>20. ASSUME NEW c \in Conns, ConnectionCreate(c) PROVE GrantOutlivesTTL'
  BY <1>20 DEF ConnectionCreate
<1>21. CASE GcTick
  BY <1>21 DEF GcTick
<1>22. CASE EvictIdle
  BY <1>22 DEF EvictIdle, Retire
<1>23. CASE BeginShutdown
  BY <1>23 DEF BeginShutdown
<1>24. CASE Stop
  BY <1>24 DEF Stop, Retire
<1>25. CASE StoreClose
  BY <1>25 DEF StoreClose
<1>26. CASE Exited
  BY <1>26 DEF Exited, vars
<1>27. CASE Tick
  BY <1>27 DEF Tick
<1>28. CASE UNCHANGED vars
  BY <1>28 DEF vars
<1> QED BY <1>1, <1>2, <1>3, <1>4, <1>5, <1>6, <1>7, <1>8, <1>9, <1>10,
    <1>11, <1>12, <1>13, <1>14, <1>15, <1>16, <1>17, <1>18, <1>19, <1>20,
    <1>21, <1>22, <1>23, <1>24, <1>25, <1>26, <1>27, <1>28 DEF Next, Get

(* An update makes settings already read out of date, and is pending until *)
(* its Evict, which looks for just these Gets.                             *)
LEMMA LoadedStep == IndInv /\ [Next]_vars => LoadedSettings'
<1> SUFFICES ASSUME IndInv, [Next]_vars PROVE LoadedSettings'
  OBVIOUS
<1> USE NoDriverAssumption, NoConnAssumption, BoundsAssumption
    DEF IndInv, TypeOK, Bound, Private, Loaded, Live, Unborn, Deleted,
        UpdatePending, PooledDriversUsable, PrivateDrivers, LoadedSettings,
        StaleOnlyIfRaced, Places, poolVars, drvVars, reqVars, gcVars
<1>1. ASSUME NEW r \in Requests, NEW c \in Conns, ResolveConn(r, c)
      PROVE  LoadedSettings'
  BY <1>1 DEF ResolveConn, Goto
<1>2. ASSUME NEW r \in Requests, GetHit(r) PROVE LoadedSettings'
  BY <1>2 DEF GetHit, Goto, Grant
<1>3. ASSUME NEW r \in Requests, GetMiss(r) PROVE LoadedSettings'
  BY <1>3 DEF GetMiss, Goto
<1>4. ASSUME NEW r \in Requests, LoadRow(r) PROVE LoadedSettings'
  BY <1>4 DEF LoadRow, Goto
<1>5. ASSUME NEW r \in Requests, GetFail(r) PROVE LoadedSettings'
  BY <1>5 DEF GetFail, Goto, Return
<1>6. ASSUME NEW r \in Requests, NEW d \in Drivers, OpenDriver(r, d)
      PROVE  LoadedSettings'
  BY <1>6 DEF OpenDriver, Goto, Fresh
<1>7. ASSUME NEW r \in Requests, PingOk(r) PROVE LoadedSettings'
  BY <1>7 DEF PingOk, Goto
<1>8. ASSUME NEW r \in Requests, PingFail(r) PROVE LoadedSettings'
  BY <1>8 DEF PingFail, Goto, Return, Discard
<1>9. ASSUME NEW r \in Requests, PublishRaced(r) PROVE LoadedSettings'
  BY <1>9 DEF PublishRaced, Goto, Grant, Discard
<1>10. ASSUME NEW r \in Requests, Publish(r) PROVE LoadedSettings'
  BY <1>10 DEF Publish, Goto, Grant
<1>11. ASSUME NEW r \in Requests, PublishPanic(r) PROVE LoadedSettings'
  BY <1>11 DEF PublishPanic, Goto, Return
<1>12. ASSUME NEW r \in Requests, FinishUse(r) PROVE LoadedSettings'
  BY <1>12 DEF FinishUse, Goto, Return
<1>13. ASSUME NEW r \in Requests, NEW c \in Conns, ConnectionUpdate(r, c)
      PROVE  LoadedSettings'
  BY <1>13 DEF ConnectionUpdate, Goto
<1>14. ASSUME NEW r \in Requests, UpdateEvict(r) PROVE LoadedSettings'
  BY <1>14 DEF UpdateEvict, Goto, Return, Evict, Retire
<1>15. ASSUME NEW r \in Requests, NEW c \in Conns, ConnectionDelete(r, c)
      PROVE  LoadedSettings'
  BY <1>15 DEF ConnectionDelete, Goto, Evict, Retire
<1>16. ASSUME NEW r \in Requests, DeleteRow(r) PROVE LoadedSettings'
  BY <1>16 DEF DeleteRow, Goto, Return
<1>17. ASSUME NEW r \in Requests, DeleteRowFail(r) PROVE LoadedSettings'
  BY <1>17 DEF DeleteRowFail, Goto, Return
<1>18. ASSUME NEW r \in Requests, NEW d \in Drivers, TestOpen(r, d)
      PROVE  LoadedSettings'
  BY <1>18 DEF TestOpen, Goto, Fresh
<1>19. ASSUME NEW r \in Requests, TestPing(r) PROVE LoadedSettings'
  BY <1>19 DEF TestPing, Goto, Return, Discard
<1>20. ASSUME NEW c \in Conns, ConnectionCreate(c) PROVE LoadedSettings'
  BY <1>20 DEF ConnectionCreate
<1>21. CASE GcTick
  BY <1>21 DEF GcTick
<1>22. CASE EvictIdle
  BY <1>22 DEF EvictIdle, Retire
<1>23. CASE BeginShutdown
  BY <1>23 DEF BeginShutdown
<1>24. CASE Stop
  BY <1>24 DEF Stop, Retire
<1>25. CASE StoreClose
  BY <1>25 DEF StoreClose
<1>26. CASE Exited
  BY <1>26 DEF Exited, vars
<1>27. CASE Tick
  BY <1>27 DEF Tick
<1>28. CASE UNCHANGED vars
  BY <1>28 DEF vars
<1> QED BY <1>1, <1>2, <1>3, <1>4, <1>5, <1>6, <1>7, <1>8, <1>9, <1>10,
    <1>11, <1>12, <1>13, <1>14, <1>15, <1>16, <1>17, <1>18, <1>19, <1>20,
    <1>21, <1>22, <1>23, <1>24, <1>25, <1>26, <1>27, <1>28 DEF Next, Get

(* A stale driver was pooled before the update, which then is still        *)
(* pending, or published by a Get that LoadedSettings knows about.         *)
LEMMA StaleStep == IndInv /\ [Next]_vars => StaleOnlyIfRaced'
<1> SUFFICES ASSUME IndInv, [Next]_vars PROVE StaleOnlyIfRaced'
  OBVIOUS
<1> USE NoDriverAssumption, NoConnAssumption, BoundsAssumption
    DEF IndInv, TypeOK, Bound, Private, Loaded, Live, Unborn, Deleted,
        UpdatePending, PooledDriversUsable, PrivateDrivers, LoadedSettings,
        StaleOnlyIfRaced, Places, poolVars, drvVars, reqVars, gcVars
<1>1. ASSUME NEW r \in Requests, NEW c \in Conns, ResolveConn(r, c)
      PROVE  StaleOnlyIfRaced'
  BY <1>1 DEF ResolveConn, Goto
<1>2. ASSUME NEW r \in Requests, GetHit(r) PROVE StaleOnlyIfRaced'
  BY <1>2 DEF GetHit, Goto, Grant
<1>3. ASSUME NEW r \in Requests, GetMiss(r) PROVE StaleOnlyIfRaced'
  BY <1>3 DEF GetMiss, Goto
<1>4. ASSUME NEW r \in Requests, LoadRow(r) PROVE StaleOnlyIfRaced'
  BY <1>4 DEF LoadRow, Goto
<1>5. ASSUME NEW r \in Requests, GetFail(r) PROVE StaleOnlyIfRaced'
  BY <1>5 DEF GetFail, Goto, Return
<1>6. ASSUME NEW r \in Requests, NEW d \in Drivers, OpenDriver(r, d)
      PROVE  StaleOnlyIfRaced'
  BY <1>6 DEF OpenDriver, Goto, Fresh
<1>7. ASSUME NEW r \in Requests, PingOk(r) PROVE StaleOnlyIfRaced'
  BY <1>7 DEF PingOk, Goto
<1>8. ASSUME NEW r \in Requests, PingFail(r) PROVE StaleOnlyIfRaced'
  BY <1>8 DEF PingFail, Goto, Return, Discard
<1>9. ASSUME NEW r \in Requests, PublishRaced(r) PROVE StaleOnlyIfRaced'
  BY <1>9 DEF PublishRaced, Goto, Grant, Discard
<1>10. ASSUME NEW r \in Requests, Publish(r) PROVE StaleOnlyIfRaced'
  BY <1>10 DEF Publish, Goto, Grant
<1>11. ASSUME NEW r \in Requests, PublishPanic(r) PROVE StaleOnlyIfRaced'
  BY <1>11 DEF PublishPanic, Goto, Return
<1>12. ASSUME NEW r \in Requests, FinishUse(r) PROVE StaleOnlyIfRaced'
  BY <1>12 DEF FinishUse, Goto, Return
<1>13. ASSUME NEW r \in Requests, NEW c \in Conns, ConnectionUpdate(r, c)
      PROVE  StaleOnlyIfRaced'
  BY <1>13 DEF ConnectionUpdate, Goto
<1>14. ASSUME NEW r \in Requests, UpdateEvict(r) PROVE StaleOnlyIfRaced'
  BY <1>14 DEF UpdateEvict, Goto, Return, Evict, Retire
<1>15. ASSUME NEW r \in Requests, NEW c \in Conns, ConnectionDelete(r, c)
      PROVE  StaleOnlyIfRaced'
  BY <1>15 DEF ConnectionDelete, Goto, Evict, Retire
<1>16. ASSUME NEW r \in Requests, DeleteRow(r) PROVE StaleOnlyIfRaced'
  BY <1>16 DEF DeleteRow, Goto, Return
<1>17. ASSUME NEW r \in Requests, DeleteRowFail(r) PROVE StaleOnlyIfRaced'
  BY <1>17 DEF DeleteRowFail, Goto, Return
<1>18. ASSUME NEW r \in Requests, NEW d \in Drivers, TestOpen(r, d)
      PROVE  StaleOnlyIfRaced'
  BY <1>18 DEF TestOpen, Goto, Fresh
<1>19. ASSUME NEW r \in Requests, TestPing(r) PROVE StaleOnlyIfRaced'
  BY <1>19 DEF TestPing, Goto, Return, Discard
<1>20. ASSUME NEW c \in Conns, ConnectionCreate(c) PROVE StaleOnlyIfRaced'
  BY <1>20 DEF ConnectionCreate
<1>21. CASE GcTick
  BY <1>21 DEF GcTick
<1>22. CASE EvictIdle
  BY <1>22 DEF EvictIdle, Retire
<1>23. CASE BeginShutdown
  BY <1>23 DEF BeginShutdown
<1>24. CASE Stop
  BY <1>24 DEF Stop, Retire
<1>25. CASE StoreClose
  BY <1>25 DEF StoreClose
<1>26. CASE Exited
  BY <1>26 DEF Exited, vars
<1>27. CASE Tick
  BY <1>27 DEF Tick
<1>28. CASE UNCHANGED vars
  BY <1>28 DEF vars
<1> QED BY <1>1, <1>2, <1>3, <1>4, <1>5, <1>6, <1>7, <1>8, <1>9, <1>10,
    <1>11, <1>12, <1>13, <1>14, <1>15, <1>16, <1>17, <1>18, <1>19, <1>20,
    <1>21, <1>22, <1>23, <1>24, <1>25, <1>26, <1>27, <1>28 DEF Next, Get

(* The inductive invariant holds initially.                                *)
LEMMA InitInd == Init => IndInv
  BY NoDriverAssumption, NoConnAssumption, BoundsAssumption
  DEF Init, IndInv, TypeOK, Bound, Private, Loaded, Live, Unborn,
      PooledDriversUsable, PrivateDrivers, UsedDrivers, NoDriverLeaked,
      OneOpenDriverPerConn, LoadedSettings, StaleOnlyIfRaced, Stamps,
      GrantOutlivesTTL, ServerStates, DriverStates, Places

(* Every step preserves the inductive invariant.                           *)
LEMMA IndStep == IndInv /\ [Next]_vars => IndInv'
  BY TypeStep, BoundStep, PooledStep, PrivateStep, UsedStep, LeakStep,
     OneOpenStep, LoadedStep, StaleStep, StampsStep, GrantStep
  DEF IndInv

(* The inductive invariant of the pool, for any number of requests,        *)
(* connections and drivers.                                                *)
THEOREM Inductive == Spec => []IndInv
<1>1. Init => IndInv
  BY InitInd
<1>2. IndInv /\ [Next]_vars => IndInv'
  BY IndStep
<1> QED
  BY <1>1, <1>2, PTL DEF Spec

(* Type correctness of the pool model.                                     *)
THEOREM TypeCorrect == Spec => []TypeOK
<1>1. IndInv => TypeOK
  BY DEF IndInv
<1> QED
  BY <1>1, Inductive, PTL

(* While the pool is up no open driver is lost by Get, Test or the         *)
(* handlers (pool.go, Get and Test).                                       *)
THEOREM NoLeak == Spec => []NoDriverLeaked
<1>1. IndInv => NoDriverLeaked
  BY DEF IndInv
<1> QED
  BY <1>1, Inductive, PTL

(* A pooled driver is open and belongs to its id; none is pooled after     *)
(* Stop (pool.go, Get, Evict, evictIdle and Stop).                         *)
THEOREM PoolUsable == Spec => []PooledDriversUsable
<1>1. IndInv => PooledDriversUsable
  BY DEF IndInv
<1> QED
  BY <1>1, Inductive, PTL

(* Two handlers never hold different open drivers for one connection       *)
(* (pool.go, the second critical section of Get).                          *)
THEOREM OneDriver == Spec => []OneOpenDriverPerConn
<1>1. IndInv => OneOpenDriverPerConn
  BY DEF IndInv
<1> QED
  BY <1>1, Inductive, PTL

(* Out-of-date settings in the pool come from a pending update or a Get    *)
(* that raced with the last Evict (handleConnectionUpdate and Evict).      *)
THEOREM StaleOnlyByRace == Spec => []StaleOnlyIfRaced
<1>1. IndInv => StaleOnlyIfRaced
  BY DEF IndInv
<1> QED
  BY <1>1, Inductive, PTL

(* evictIdle leaves a driver alone for the TTL after it was handed out.    *)
THEOREM TTLHonoured == Spec => []GrantOutlivesTTL
<1>1. IndInv => GrantOutlivesTTL
  BY DEF IndInv
<1> QED
  BY <1>1, Inductive, PTL

(* Once the map is nil, a lookup misses and an insertion panics.           *)
LEMMA StoppedStep == IndInv /\ [Next]_vars =>
    (Stopped => \A q \in Requests : pc[q] # "use" => pc'[q] # "use")
<1> SUFFICES ASSUME IndInv, [Next]_vars, Stopped,
                    NEW q \in Requests, pc[q] # "use"
             PROVE  pc'[q] # "use"
  OBVIOUS
<1> USE DEF IndInv, TypeOK, Bound, PooledDriversUsable, poolVars, drvVars,
    reqVars, gcVars
<1>1. ASSUME NEW r \in Requests, NEW c \in Conns, ResolveConn(r, c)
      PROVE  pc'[q] # "use"
  BY <1>1 DEF ResolveConn, Goto
<1>2. ASSUME NEW r \in Requests, GetHit(r) PROVE pc'[q] # "use"
  BY <1>2 DEF GetHit, Goto, Grant
<1>3. ASSUME NEW r \in Requests, GetMiss(r) PROVE pc'[q] # "use"
  BY <1>3 DEF GetMiss, Goto
<1>4. ASSUME NEW r \in Requests, LoadRow(r) PROVE pc'[q] # "use"
  BY <1>4 DEF LoadRow, Goto
<1>5. ASSUME NEW r \in Requests, GetFail(r) PROVE pc'[q] # "use"
  BY <1>5 DEF GetFail, Goto, Return
<1>6. ASSUME NEW r \in Requests, NEW d \in Drivers, OpenDriver(r, d)
      PROVE  pc'[q] # "use"
  BY <1>6 DEF OpenDriver, Goto, Fresh
<1>7. ASSUME NEW r \in Requests, PingOk(r) PROVE pc'[q] # "use"
  BY <1>7 DEF PingOk, Goto
<1>8. ASSUME NEW r \in Requests, PingFail(r) PROVE pc'[q] # "use"
  BY <1>8 DEF PingFail, Goto, Return, Discard
<1>9. ASSUME NEW r \in Requests, PublishRaced(r) PROVE pc'[q] # "use"
  BY <1>9 DEF PublishRaced, Goto, Grant, Discard
<1>10. ASSUME NEW r \in Requests, Publish(r) PROVE pc'[q] # "use"
  BY <1>10 DEF Publish, Goto, Grant, Stopped
<1>11. ASSUME NEW r \in Requests, PublishPanic(r) PROVE pc'[q] # "use"
  BY <1>11 DEF PublishPanic, Goto, Return
<1>12. ASSUME NEW r \in Requests, FinishUse(r) PROVE pc'[q] # "use"
  BY <1>12 DEF FinishUse, Goto, Return
<1>13. ASSUME NEW r \in Requests, NEW c \in Conns, ConnectionUpdate(r, c)
      PROVE  pc'[q] # "use"
  BY <1>13 DEF ConnectionUpdate, Goto
<1>14. ASSUME NEW r \in Requests, UpdateEvict(r) PROVE pc'[q] # "use"
  BY <1>14 DEF UpdateEvict, Goto, Return, Evict, Retire
<1>15. ASSUME NEW r \in Requests, NEW c \in Conns, ConnectionDelete(r, c)
      PROVE  pc'[q] # "use"
  BY <1>15 DEF ConnectionDelete, Goto, Evict, Retire
<1>16. ASSUME NEW r \in Requests, DeleteRow(r) PROVE pc'[q] # "use"
  BY <1>16 DEF DeleteRow, Goto, Return
<1>17. ASSUME NEW r \in Requests, DeleteRowFail(r) PROVE pc'[q] # "use"
  BY <1>17 DEF DeleteRowFail, Goto, Return
<1>18. ASSUME NEW r \in Requests, NEW d \in Drivers, TestOpen(r, d)
      PROVE  pc'[q] # "use"
  BY <1>18 DEF TestOpen, Goto, Fresh
<1>19. ASSUME NEW r \in Requests, TestPing(r) PROVE pc'[q] # "use"
  BY <1>19 DEF TestPing, Goto, Return, Discard
<1>20. ASSUME NEW c \in Conns, ConnectionCreate(c) PROVE pc'[q] # "use"
  BY <1>20 DEF ConnectionCreate
<1>21. CASE GcTick
  BY <1>21 DEF GcTick
<1>22. CASE EvictIdle
  BY <1>22 DEF EvictIdle, Retire
<1>23. CASE BeginShutdown
  BY <1>23 DEF BeginShutdown
<1>24. CASE Stop
  BY <1>24 DEF Stop, Retire
<1>25. CASE StoreClose
  BY <1>25 DEF StoreClose
<1>26. CASE Exited
  BY <1>26 DEF Exited, vars
<1>27. CASE Tick
  BY <1>27 DEF Tick
<1>28. CASE UNCHANGED vars
  BY <1>28 DEF vars
<1> QED BY <1>1, <1>2, <1>3, <1>4, <1>5, <1>6, <1>7, <1>8, <1>9, <1>10,
    <1>11, <1>12, <1>13, <1>14, <1>15, <1>16, <1>17, <1>18, <1>19, <1>20,
    <1>21, <1>22, <1>23, <1>24, <1>25, <1>26, <1>27, <1>28 DEF Next, Get

(* After Stop nobody is given a driver (pool.go, Stop and Get).            *)
THEOREM StopIsFinal == Spec => NoGrantAfterStop
<1>1. IndInv /\ [Next]_vars =>
        [Stopped => \A r \in Requests : pc[r] # "use" => pc'[r] # "use"]_vars
  BY StoppedStep
<1> QED
  BY <1>1, Inductive, PTL DEF Spec, NoGrantAfterStop

(* The initial states map to initial states.                               *)
LEMMA CacheInit == Init => Cache!Init
  BY DEF Init, Cache!Init, LiveDrivers, ClosedDrivers

(* Every step of the pool is a step of DriverCache or leaves it alone.     *)
LEMMA CacheStep == IndInv /\ [Next]_vars => [Cache!Next]_(Cache!cacheVars)
<1> SUFFICES ASSUME IndInv, [Next]_vars
             PROVE  Cache!Next \/ UNCHANGED Cache!cacheVars
  OBVIOUS
<1> USE NoDriverAssumption
    DEF IndInv, TypeOK, Bound, PrivateDrivers, Private, PooledDriversUsable,
        DriverStates, LiveDrivers, ClosedDrivers, poolVars, drvVars
<1>1. ASSUME NEW r \in Requests, NEW c \in Conns, ResolveConn(r, c)
      PROVE  UNCHANGED Cache!cacheVars
  BY <1>1 DEF ResolveConn, Goto, Cache!cacheVars
<1>2. ASSUME NEW r \in Requests, GetHit(r)
      PROVE  UNCHANGED Cache!cacheVars
  BY <1>2 DEF GetHit, Goto, Grant, Cache!cacheVars
<1>3. ASSUME NEW r \in Requests, GetMiss(r)
      PROVE  UNCHANGED Cache!cacheVars
  BY <1>3 DEF GetMiss, Goto, Cache!cacheVars
<1>4. ASSUME NEW r \in Requests, LoadRow(r)
      PROVE  UNCHANGED Cache!cacheVars
  BY <1>4 DEF LoadRow, Goto, Cache!cacheVars
<1>5. ASSUME NEW r \in Requests, GetFail(r)
      PROVE  UNCHANGED Cache!cacheVars
  BY <1>5 DEF GetFail, Goto, Return, Cache!cacheVars
<1>6. ASSUME NEW r \in Requests, NEW d \in Drivers, OpenDriver(r, d)
      PROVE  Cache!Next
  <2>1. Cache!Open(d)
    BY <1>6 DEF OpenDriver, Goto, Fresh, Cache!Open
  <2> QED
    BY <2>1 DEF Cache!Next
<1>7. ASSUME NEW r \in Requests, PingOk(r)
      PROVE  UNCHANGED Cache!cacheVars
  BY <1>7 DEF PingOk, Goto, Cache!cacheVars
<1>8. ASSUME NEW r \in Requests, PingFail(r)
      PROVE  Cache!Next
  <2>1. PICK d \in Drivers : d = drv[r]
    BY <1>8 DEF PingFail
  <2>2. Cache!Drop(d)
    BY <1>8, <2>1 DEF PingFail, Goto, Return, Discard, Cache!Drop
  <2> QED
    BY <2>2 DEF Cache!Next
<1>9. ASSUME NEW r \in Requests, PublishRaced(r)
      PROVE  Cache!Next
  <2>1. PICK d \in Drivers : d = drv[r]
    BY <1>9 DEF PublishRaced
  <2>2. Cache!Drop(d)
    BY <1>9, <2>1 DEF PublishRaced, Goto, Grant, Discard, Cache!Drop
  <2> QED
    BY <2>2 DEF Cache!Next
<1>10. ASSUME NEW r \in Requests, Publish(r)
      PROVE  Cache!Next
  <2>1. PICK d \in Drivers : d = drv[r]
    BY <1>10 DEF Publish
  <2>2. PICK c \in Conns : c = conn[r]
    BY <1>10 DEF Publish
  <2>3. Cache!Install(c, d)
    BY <1>10, <2>1, <2>2 DEF Publish, Goto, Grant, Cache!Install, Stopped
  <2> QED
    BY <2>3 DEF Cache!Next
<1>11. ASSUME NEW r \in Requests, PublishPanic(r)
      PROVE  UNCHANGED Cache!cacheVars
  BY <1>11 DEF PublishPanic, Goto, Return, Cache!cacheVars
<1>12. ASSUME NEW r \in Requests, FinishUse(r)
      PROVE  UNCHANGED Cache!cacheVars
  BY <1>12 DEF FinishUse, Goto, Return, Cache!cacheVars
<1>13. ASSUME NEW r \in Requests, NEW c \in Conns, ConnectionUpdate(r, c)
      PROVE  UNCHANGED Cache!cacheVars
  BY <1>13 DEF ConnectionUpdate, Goto, Cache!cacheVars
<1>14. ASSUME NEW r \in Requests, UpdateEvict(r)
      PROVE  Cache!Next
  <2>1. PICK C \in SUBSET Conns : C = {conn[r]}
    BY <1>14 DEF UpdateEvict
  <2>2. Cache!Expel(C)
    BY <1>14, <2>1 DEF UpdateEvict, Goto, Return, Evict, Retire, Cache!Expel
  <2> QED
    BY <2>2 DEF Cache!Next
<1>15. ASSUME NEW r \in Requests, NEW c \in Conns, ConnectionDelete(r, c)
      PROVE  Cache!Next
  <2>1. PICK C \in SUBSET Conns : C = {c}
    BY <1>15 DEF ConnectionDelete
  <2>2. Cache!Expel(C)
    BY <1>15, <2>1 DEF ConnectionDelete, Goto, Evict, Retire, Cache!Expel
  <2> QED
    BY <2>2 DEF Cache!Next
<1>16. ASSUME NEW r \in Requests, DeleteRow(r)
      PROVE  UNCHANGED Cache!cacheVars
  BY <1>16 DEF DeleteRow, Goto, Return, Cache!cacheVars
<1>17. ASSUME NEW r \in Requests, DeleteRowFail(r)
      PROVE  UNCHANGED Cache!cacheVars
  BY <1>17 DEF DeleteRowFail, Goto, Return, Cache!cacheVars
<1>18. ASSUME NEW r \in Requests, NEW d \in Drivers, TestOpen(r, d)
      PROVE  Cache!Next
  <2>1. Cache!Open(d)
    BY <1>18 DEF TestOpen, Goto, Fresh, Cache!Open
  <2> QED
    BY <2>1 DEF Cache!Next
<1>19. ASSUME NEW r \in Requests, TestPing(r)
      PROVE  Cache!Next
  <2>1. PICK d \in Drivers : d = drv[r]
    BY <1>19 DEF TestPing
  <2>2. Cache!Drop(d)
    BY <1>19, <2>1 DEF TestPing, Goto, Return, Discard, Cache!Drop
  <2> QED
    BY <2>2 DEF Cache!Next
<1>20. ASSUME NEW c \in Conns, ConnectionCreate(c)
      PROVE  UNCHANGED Cache!cacheVars
  BY <1>20 DEF ConnectionCreate, Cache!cacheVars
<1>21. ASSUME GcTick PROVE UNCHANGED Cache!cacheVars
  BY <1>21 DEF GcTick, Cache!cacheVars
<1>22. ASSUME EvictIdle PROVE Cache!Next
  <2>1. PICK C \in SUBSET Conns : C = Idle
    BY <1>22 DEF Idle
  <2>2. Cache!Expel(C)
    BY <1>22, <2>1 DEF EvictIdle, Retire, Cache!Expel, Idle
  <2> QED
    BY <2>2 DEF Cache!Next
<1>23. ASSUME BeginShutdown PROVE UNCHANGED Cache!cacheVars
  BY <1>23 DEF BeginShutdown, Cache!cacheVars
<1>24. ASSUME Stop PROVE Cache!Next
  <2>1. PICK C \in SUBSET Conns : C = Conns
    BY <1>24 DEF Stop
  <2>2. Cache!Expel(C)
    BY <1>24, <2>1 DEF Stop, Retire, Cache!Expel
  <2> QED
    BY <2>2 DEF Cache!Next
<1>25. ASSUME StoreClose PROVE UNCHANGED Cache!cacheVars
  BY <1>25 DEF StoreClose, Cache!cacheVars
<1>26. ASSUME Exited PROVE UNCHANGED Cache!cacheVars
  BY <1>26 DEF Exited, vars, Cache!cacheVars
<1>27. ASSUME Tick PROVE UNCHANGED Cache!cacheVars
  BY <1>27 DEF Tick, Cache!cacheVars
<1>28. ASSUME UNCHANGED vars PROVE UNCHANGED Cache!cacheVars
  BY <1>28 DEF vars, Cache!cacheVars
<1> QED BY <1>1, <1>2, <1>3, <1>4, <1>5, <1>6, <1>7, <1>8, <1>9, <1>10,
    <1>11, <1>12, <1>13, <1>14, <1>15, <1>16, <1>17, <1>18, <1>19, <1>20,
    <1>21, <1>22, <1>23, <1>24, <1>25, <1>26, <1>27, <1>28 DEF Next, Get

(* The pool, with its handlers, collector and shutdown, implements         *)
(* DriverCache.                                                            *)
THEOREM Refinement == Spec => ImplementsCache
<1>1. Init => Cache!Init
  BY CacheInit
<1>2. IndInv /\ [Next]_vars => [Cache!Next]_(Cache!cacheVars)
  BY CacheStep
<1> QED
  BY <1>1, <1>2, Inductive, PTL DEF Spec, Cache!Spec, ImplementsCache

=============================================================================
