------------------------------ MODULE QueryRun ------------------------------
(***************************************************************************)
(* Requests on one driver: the SQL editor (handlers_query.go, dbx/exec.go, *)
(* store/history.go) and the handlers that read the catalogue and the rows *)
(* of a table (handlers_app.go, handlers_object.go and the drivers).       *)
(*                                                                         *)
(* A driver is a database/sql DB: a limited number of connections (slots), *)
(* one for SQLite, handed to a statement, or to a cursor for as long as it *)
(* is open, and given back to the list of idle ones.  Nothing ties a slot  *)
(* to a request, and a transaction belongs to a slot.  Statements are kept *)
(* as what they do to a transaction; a write is named after the request    *)
(* and the position it comes from.                                         *)
(***************************************************************************)
EXTENDS Integers, Sequences, FiniteSets, SequencesExt

CONSTANTS
    N,          \* handler goroutines, one request each
    Slots,      \* connections a driver may open: maxOpen of pool.go
    MaxIdle,    \* connections it keeps idle: 2
    Kinds,      \* the kinds of driver
    Scripts,    \* what users submit to the SQL editor
    MaxFaults,  \* bound: clients that leave, evictions of the driver
    NoRequest   \* who has begun a transaction that is not open

ASSUME SlotsAssumption == IsFiniteSet(Slots) /\ Slots # {} /\ MaxIdle \in Nat \ {0}
Requests == 1..N   \* in the order in which they arrive
ASSUME NAssumption == N \in Nat /\ NoRequest \notin Requests
ASSUME KindsAssumption == Kinds \subseteq {"sqlite", "postgres", "mysql"}

Statements == {"query", "write", "bad", "begin", "commit", "rollback"}
ASSUME ScriptsAssumption == Scripts \subseteq Seq(Statements) \ {<<>>}

VARIABLES
    kind,      \* the driver's Kind
    driver,    \* "open", or "closed" once the pool has evicted it
    saved,     \* the connections row is there
    db,        \* committed writes
    opened,    \* slots that are connected
    idle,      \* DB.freeConn, the last one returned at the end
    tx,        \* the transaction of each slot
    pc,        \* "new", "run", "exec" (a statement has its slot), "done"
    job,       \* calls the handler makes, in order
    at,        \* the next operation of the job
    held,      \* slots of the open cursors and of the running statement
    out,       \* results of a script: "ok" or "error"
    gone,      \* requests whose context is cancelled: the client has left
    history,   \* query_history, the rows each request has added
    recorded,  \* results a script has passed to History.Append
    alone      \* history variable: requests that nothing has interfered with

slotVars == <<db, opened, idle, tx>>
vars == <<kind, driver, saved, slotVars, pc, job, at, held, out, gone,
          history, recorded, alone>>

-----------------------------------------------------------------------------
(* What the handlers run, call by call.  Rows is a query that is read to   *)
(* its end, or closed by the deferred Close when the function returns.     *)
Rows == <<"open", "close">>

(* Mutant: columns of an index are queried while index_list is being read. *)
SqliteDescribeNested ==
    Rows \o <<"open">> \o Rows \o <<"close">> \o Rows \o Rows \o Rows

(* table_info; index_list, closed before index_info is queried for each    *)
(* index (here: one); foreign_key_list; the statement's text; the count.   *)
SqliteDescribe == Rows \o Rows \o Rows \o Rows \o Rows \o Rows
(* columns, indexes, foreign keys, estimated count *)
PgDescribe == Rows \o Rows \o Rows \o Rows
(* columns, indexes, foreign keys, SHOW CREATE TABLE, estimated count *)
MySQLDescribe == Rows \o Rows \o Rows \o Rows \o Rows

DescribeTable(k) ==
    CASE k = "sqlite" -> SqliteDescribe
      [] k = "postgres" -> PgDescribe
      [] k = "mysql" -> MySQLDescribe

(* MySQL lists the indexes of a schema in a second query. *)
ListObjects(k) == IF k = "mysql" THEN Rows \o Rows ELSE Rows

(* The only schema of SQLite is main. *)
ListSchemas(k) == IF k = "sqlite" THEN <<>> ELSE Rows

SampleRows == Rows

HandleTree(k) == ListSchemas(k) \o ListObjects(k)
HandleObjectData(k) == DescribeTable(k) \o SampleRows
Pages == {<<"tree">>, <<"data">>}
Jobs == Scripts \cup Pages

(* execOne runs a statement that looks like a query with QueryContext, and *)
(* closes its rows, and any other with ExecContext, after which there is   *)
(* nothing to close.                                                       *)
ExecOne(stmt) == IF stmt = "query" THEN Rows ELSE <<stmt, "none">>

(* Every call has two places in a program. *)
RunStatements(j) ==
    [i \in 1..2 * Len(j) |-> ExecOne(j[(i + 1) \div 2])[IF i % 2 = 1 THEN 1 ELSE 2]]

Programs == [k \in Kinds |-> [j \in Jobs |->
                IF j \in Scripts THEN RunStatements(j)
                ELSE IF j = <<"tree">> THEN HandleTree(k) ELSE HandleObjectData(k)]]
Ops(r) == Programs[kind][job[r]]
More(r) == at[r] <= Len(Ops(r))
Op(r) == Ops(r)[at[r]]
IsScript(r) == job[r] \in Scripts
Active(r) == pc[r] \in {"run", "exec"}

NoTx == [by |-> NoRequest, writes |-> {}]
InTx(t) == t.by # NoRequest

(* SQLite has one connection, a server has maxOpen of them. *)
MaxOpen == IF kind = "sqlite" THEN 1 ELSE Cardinality(Slots)

Init ==
    /\ kind \in Kinds
    /\ driver = "open"
    /\ saved = TRUE
    /\ db = {}
    /\ opened = {}
    /\ idle = <<>>
    /\ tx = [s \in Slots |-> NoTx]
    /\ pc = [r \in Requests |-> "new"]
    /\ job = [r \in Requests |-> <<>>]
    /\ at = [r \in Requests |-> 1]
    /\ held = [r \in Requests |-> <<>>]
    /\ out = [r \in Requests |-> <<>>]
    /\ gone = {}
    /\ history = [r \in Requests |-> <<>>]
    /\ recorded = [r \in Requests |-> 0]
    /\ alone = {}

-----------------------------------------------------------------------------
(***************************************************************************)
(* database/sql and the database.                                          *)
(***************************************************************************)
(* ResetSession of pgx does not let a connection be used again while it is *)
(* in a transaction; those of the other two drivers do not look.           *)
Unusable(s) == kind = "postgres" /\ InTx(tx[s])

(* DB.conn: the idle connection returned last, or a new one; a statement   *)
(* for which there is neither waits.                                       *)
Acquire(r, s) ==
    /\ IF idle # <<>>
       THEN /\ ~Unusable(Last(idle))
            /\ s = Last(idle) /\ idle' = Front(idle) /\ UNCHANGED opened
       ELSE /\ Cardinality(opened) < MaxOpen
            /\ s = CHOOSE new \in Slots : new \notin opened
            /\ opened' = opened \cup {s}
            /\ UNCHANGED idle
    /\ held' = [held EXCEPT ![r] = Append(@, s)]

(* Closing a connection rolls its transaction back. *)
Disconnect(S, t) == [s \in Slots |-> IF s \in S THEN NoTx ELSE t[s]]

(* Mutant: the connection of a closed cursor is not released. *)
ForgetLast(r, t) ==
    /\ held' = [held EXCEPT ![r] = Front(@)]
    /\ tx' = t
    /\ UNCHANGED <<opened, idle>>

(* Mutant: the driver keeps no idle connection, SetMaxIdleConns(0). *)
KeepNone(r, t) ==
    LET s == Last(held[r]) IN
    /\ held' = [held EXCEPT ![r] = Front(@)]
    /\ opened' = opened \ {s}
    /\ tx' = Disconnect({s}, t)
    /\ UNCHANGED idle

(* DB.putConn of the connection taken last, with sessions t: idle again,   *)
(* or closed if enough are or the driver has been closed meanwhile.        *)
GiveBack(r, t) ==
    LET s == Last(held[r]) IN
    /\ held' = [held EXCEPT ![r] = Front(@)]
    /\ IF driver = "open" /\ Len(idle) < MaxIdle
       THEN idle' = Append(idle, s) /\ tx' = t /\ UNCHANGED opened
       ELSE opened' = opened \ {s} /\ tx' = Disconnect({s}, t) /\ UNCHANGED idle

(* What statement w, of the form op, does on a session in transaction t,   *)
(* for a database of kind k.  Outside a transaction a write commits at     *)
(* once and an error leaves nothing.  A second BEGIN is an error for       *)
(* SQLite, and commits the first one for MySQL.                            *)
Perform(k, op, w, t, D) ==
    LET r == w[1]
        Is(res, t2, D2) == [result |-> res, tx |-> t2, db |-> D2]
        Begun == [NoTx EXCEPT !.by = r]
    IN CASE op \in {"commit", "rollback"} ->
              Is(IF InTx(t) \/ k # "sqlite" THEN "ok" ELSE "error", NoTx,
                 IF op = "commit" THEN D \cup t.writes ELSE D)
         [] op = "begin" ->
              IF ~InTx(t) THEN Is("ok", Begun, D)
              ELSE IF k = "mysql" THEN Is("ok", Begun, D \cup t.writes)
              ELSE Is("error", t, D)
         [] op = "write" ->
              IF InTx(t) THEN Is("ok", [t EXCEPT !.writes = @ \cup {w}], D)
                         ELSE Is("ok", t, D \cup {w})
         [] op = "bad" -> Is("error", t, D)
         [] op = "query" -> Is("ok", t, D)

(* What the next statement of a script finds of the transaction t that the *)
(* one before it has left: for PostgreSQL, nothing (Unusable).             *)
Carried(t) == IF kind = "postgres" THEN NoTx ELSE t

(* The same script with the driver to itself: what its first i statements  *)
(* leave, and the answer of the last of them.                              *)
Fresh == [result |-> "ok", tx |-> NoTx, db |-> {}]
Serial(r) ==
    LET run[i \in 0 .. Len(job[r])] ==
            IF i = 0 THEN Fresh
            ELSE Perform(kind, job[r][i], <<r, i>>, Carried(run[i - 1].tx), run[i - 1].db)
    IN run

-----------------------------------------------------------------------------
(***************************************************************************)
(* The handlers.                                                           *)
(***************************************************************************)
(* resolveConn has found the row and an open driver; requests that start   *)
(* after the driver is closed get another one.                             *)
Start(r) ==
    /\ pc[r] = "new" /\ driver = "open"
    /\ \A q \in 1..(r - 1) : pc[q] # "new"
    /\ \E j \in Jobs : job' = [job EXCEPT ![r] = j]
    /\ pc' = [pc EXCEPT ![r] = "run"]
    /\ alone' = IF /\ \A q \in Requests : ~Active(q)
                   /\ \A s \in Slots : ~InTx(tx[s])
                THEN {r} ELSE {}
    /\ UNCHANGED <<kind, driver, saved, slotVars, at, held, out, gone,
                   history, recorded>>

(* Mutant: a script ends at its first failure. *)
StopAtFailure(r) == Len(Ops(r)) + 1

(* The operation after a failure: a script goes on with its next           *)
(* statement; a page gives up, or does without.                            *)
AfterFailure(r) == at[r] + 2
Leave(r) == Len(Ops(r)) + 1

Report(r, res) ==
    out' = IF IsScript(r) THEN [out EXCEPT ![r] = Append(@, res)] ELSE out

(* QueryContext and ExecContext, unless they fail at once. *)
Asks(r) == /\ pc[r] = "run" /\ More(r) /\ Op(r) # "close"
           /\ r \notin gone /\ driver = "open"

(* DB.conn closes a connection that it cannot use, and tries again. *)
Discard(r) ==
    /\ Asks(r) /\ idle # <<>> /\ Unusable(Last(idle))
    /\ idle' = Front(idle)
    /\ opened' = opened \ {Last(idle)}
    /\ tx' = Disconnect({Last(idle)}, tx)
    /\ UNCHANGED <<kind, driver, saved, db, pc, job, at, held, out, gone,
                   history, recorded, alone>>

(* QueryContext: a cursor keeps the slot until it is closed. *)
Query(r) ==
    /\ Asks(r) /\ Op(r) = "open"
    /\ \E s \in Slots : Acquire(r, s)
    /\ at' = [at EXCEPT ![r] = @ + 1]
    /\ Report(r, "ok")
    /\ UNCHANGED <<kind, driver, saved, db, tx, pc, job, gone, history,
                   recorded, alone>>

(* ExecContext: a slot for the statement. *)
Take(r) ==
    /\ Asks(r) /\ Op(r) # "open"
    /\ \E s \in Slots : Acquire(r, s)
    /\ pc' = [pc EXCEPT ![r] = "exec"]
    /\ UNCHANGED <<kind, driver, saved, db, tx, job, at, out, gone, history,
                   recorded, alone>>

(* sql: database is closed; context canceled, also while waiting.  What a  *)
(* page still asks for would fail as well.                                 *)
Refused(r) ==
    /\ pc[r] = "run" /\ More(r) /\ Op(r) # "close"
    /\ r \in gone \/ driver = "closed"
    /\ at' = [at EXCEPT ![r] = IF IsScript(r) THEN AfterFailure(r) ELSE Leave(r)]
    /\ Report(r, "error")
    /\ UNCHANGED <<kind, driver, saved, slotVars, pc, job, held, gone, history,
                   recorded, alone>>

(* The statement runs on the slot it was given, and gives it back. *)
Execute(r) ==
    LET s == Last(held[r])
        did == Perform(kind, Op(r), <<r, Len(out[r]) + 1>>, tx[s], db)
    IN /\ pc[r] = "exec"
       /\ db' = did.db
       /\ GiveBack(r, [tx EXCEPT ![s] = did.tx])
       /\ at' = [at EXCEPT ![r] = @ + 2]
       /\ Report(r, did.result)
       /\ pc' = [pc EXCEPT ![r] = "run"]
       /\ UNCHANGED <<kind, driver, saved, job, gone, history, recorded, alone>>

(* The connection on which a statement was interrupted: SQLite keeps it,   *)
(* but may roll the transaction back; the server's drivers close it.       *)
Interrupt(r) ==
    LET s == Last(held[r]) IN
    IF kind = "sqlite"
    THEN GiveBack(r, tx) \/ GiveBack(r, Disconnect({s}, tx))
    ELSE /\ held' = [held EXCEPT ![r] = Front(@)]
         /\ opened' = opened \ {s}
         /\ tx' = Disconnect({s}, tx)
         /\ UNCHANGED idle

(* The client leaves while the statement runs: it has no effect. *)
Interrupted(r) ==
    /\ pc[r] = "exec" /\ r \in gone
    /\ Interrupt(r)
    /\ at' = [at EXCEPT ![r] = @ + 2]
    /\ Report(r, "error")
    /\ pc' = [pc EXCEPT ![r] = "run"]
    /\ UNCHANGED <<kind, driver, saved, db, job, gone, history, recorded, alone>>

(* rows.Close, after the last row or the first max_rows of them; reading   *)
(* fails if the client has left.                                           *)
Close(r) ==
    /\ pc[r] = "run" /\ More(r) /\ Op(r) = "close"
    /\ at' = [at EXCEPT ![r] = @ + 1]
    /\ \/ GiveBack(r, tx) /\ UNCHANGED out
       \/ /\ r \in gone /\ Interrupt(r)
          /\ out' = IF IsScript(r) THEN [out EXCEPT ![r][Len(out[r])] = "error"]
                                   ELSE out
    /\ UNCHANGED <<kind, driver, saved, db, pc, job, gone, history, recorded,
                   alone>>

(* A page of the navigator is rendered. *)
Return(r) ==
    /\ pc[r] = "run" /\ ~More(r) /\ ~IsScript(r)
    /\ pc' = [pc EXCEPT ![r] = "done"]
    /\ UNCHANGED <<kind, driver, saved, slotVars, job, at, held, out, gone,
                   history, recorded, alone>>

(* One History.Append per result.  Its error is dropped: the context is    *)
(* the request's, and connection_id must name a row.                       *)
Record(r) ==
    LET i == recorded[r] + 1 IN
    /\ pc[r] = "run" /\ ~More(r) /\ IsScript(r)
    /\ history' = IF r \notin gone /\ saved
                  THEN [history EXCEPT ![r] = Append(@, <<i, out[r][i]>>)]
                  ELSE history
    /\ recorded' = [recorded EXCEPT ![r] = i]
    /\ pc' = [pc EXCEPT ![r] = IF i = Len(out[r]) THEN "done" ELSE @]
    /\ UNCHANGED <<kind, driver, saved, slotVars, job, at, held, out, gone, alone>>

Faults == Cardinality(gone) + (IF driver = "closed" THEN 1 ELSE 0)

(* The browser tab is closed: net/http cancels the request's context. *)
Cancel(r) ==
    /\ Active(r) /\ r \notin gone /\ Faults < MaxFaults
    /\ gone' = gone \cup {r}
    /\ alone' = alone \ {r}
    /\ UNCHANGED <<kind, driver, saved, slotVars, pc, job, at, held, out,
                   history, recorded>>

(* Pool.Evict: DB.Close closes the idle connections. *)
Evict ==
    /\ driver = "open" /\ Faults < MaxFaults
    /\ driver' = "closed"
    /\ opened' = opened \ Range(idle)
    /\ tx' = Disconnect(Range(idle), tx)
    /\ idle' = <<>>
    /\ alone' = {}
    /\ UNCHANGED <<kind, saved, db, pc, job, at, held, out, gone, history,
                   recorded>>

(* SetConnMaxIdleTime of the servers' drivers: the connection that has     *)
(* been idle for longest is closed.                                        *)
Expire ==
    /\ kind # "sqlite" /\ idle # <<>>
    /\ idle' = Tail(idle)
    /\ opened' = opened \ {Head(idle)}
    /\ tx' = Disconnect({Head(idle)}, tx)
    /\ alone' = {}
    /\ UNCHANGED <<kind, driver, saved, db, pc, job, at, held, out, gone,
                   history, recorded>>

(* handleConnectionDelete, after its Evict. *)
DeleteRow ==
    /\ driver = "closed" /\ saved
    /\ saved' = FALSE
    /\ UNCHANGED <<kind, driver, slotVars, pc, job, at, held, out, gone,
                   history, recorded, alone>>

(* Nothing to do until a request arrives. *)
Quiet == /\ \A r \in Requests : pc[r] \in {"new", "done"}
         /\ UNCHANGED vars

Handle(r) == \/ Discard(r) \/ Query(r) \/ Take(r) \/ Refused(r) \/ Execute(r)
             \/ Interrupted(r) \/ Close(r) \/ Return(r) \/ Record(r)

Next == \/ \E r \in Requests : Start(r) \/ Handle(r) \/ Cancel(r)
        \/ Evict \/ Expire \/ DeleteRow \/ Quiet

Spec == Init /\ [][Next]_vars

(* A goroutine that can go on does. *)
FairSpec == Spec /\ \A r \in Requests : WF_vars(Handle(r))

-----------------------------------------------------------------------------
(***************************************************************************)
(* Properties.                                                             *)
(***************************************************************************)
(* Every connection the driver has opened is idle, once, or is held by one *)
(* cursor or statement; a request that is over holds none, and none stays  *)
(* idle in a driver the pool has closed.  Deferred Close of execOne and of *)
(* the drivers' reads.                                                     *)
SlotsAccounted ==
    LET holds == [r \in Requests |-> Range(held[r])] IN
    /\ opened = Range(idle) \cup UNION Range(holds)
    /\ IsInjective(idle)
    /\ \A r \in Requests :
           /\ IsInjective(held[r]) /\ holds[r] \cap Range(idle) = {}
           /\ \A q \in Requests \ {r} : holds[q] \cap holds[r] = {}
           /\ pc[r] \in {"new", "done"} => held[r] = <<>>
    /\ driver = "closed" => idle = <<>>

(* A script that nothing interfered with (no other request on the driver,  *)
(* no transaction left open by an earlier one, no client that left, no     *)
(* eviction, no connection closed for its age) is answered, has done to    *)
(* the database, and has left open what its statements do one after the    *)
(* other, although execOne takes a connection for each: one and the same   *)
(* in SQLite and MySQL, so that a BEGIN is still open for the next         *)
(* statement, and in PostgreSQL another one after a BEGIN.                 *)
UndisturbedIsSerial ==
    \A r \in alone : pc[r] = "done" /\ IsScript(r) =>
        LET run == Serial(r)
            end == run[Len(job[r])]
        IN /\ out[r] = [i \in DOMAIN job[r] |-> run[i].result]
           /\ {w \in db : w[1] = r} = end.db
           /\ {tx[s] : s \in {x \in Slots : tx[x].by = r}} = {end.tx} \ {NoTx}

(* The history holds a script's first results in their order, and, unless  *)
(* the client left or the connection was deleted, one for every statement, *)
(* whether the ones before it failed or not (runStatements, handleQuery).  *)
HistoryFollowsScript ==
    \A r \in Requests : IsScript(r) =>
        /\ history[r] = [i \in 1..Len(history[r]) |-> <<i, out[r][i]>>]
        /\ pc[r] = "done" /\ r \notin gone /\ saved => Len(history[r]) = Len(job[r])

(* Every request is answered: none waits for a connection that is never    *)
(* given back, not even on the single one of SQLite (sqlite.go:103).       *)
EveryRequestEnds == \A r \in Requests : pc[r] = "run" ~> pc[r] = "done"

-----------------------------------------------------------------------------
(***************************************************************************)
(* The inductive invariant of QueryRunProofs.                              *)
(***************************************************************************)
Results == {"ok", "error"}

TypeOK ==
    /\ kind \in Kinds /\ saved \in BOOLEAN /\ gone \subseteq Requests
    /\ pc \in [Requests -> {"new", "run", "exec", "done"}]
    /\ job \in [Requests -> Jobs \cup {<<>>}]
    /\ at \in [Requests -> Nat]
    /\ out \in [Requests -> Seq(Results)]
    /\ history \in [Requests -> Seq(Nat \X Results)]
    /\ recorded \in [Requests -> Nat]

(* SlotsAccounted, slot by slot. *)
ConnsOK ==
    /\ idle \in Seq(Slots) /\ IsInjective(idle)
    /\ opened \subseteq Slots /\ Len(idle) <= MaxIdle
    /\ held \in [Requests -> {<<>>} \cup {<<s>> : s \in Slots}]
    /\ \A s \in Slots : s \in opened <=>
           s \in Range(idle) \/ \E r \in Requests : held[r] = <<s>>
    /\ \A r \in Requests, s \in Slots : held[r] = <<s>> =>
           /\ s \notin Range(idle)
           /\ \A q \in Requests \ {r} : held[q] # <<s>>
    /\ driver \in {"open", "closed"}
    /\ driver = "closed" => idle = <<>>

(* A request has a slot while its cursor is open, which is where it is     *)
(* about to close it, or while its statement runs.                         *)
WhereOK(r) ==
    /\ pc[r] = "new" => at[r] = 1 /\ job[r] = <<>>
    /\ pc[r] # "new" => job[r] \in Jobs
    /\ pc[r] \in {"new", "done"} => held[r] = <<>>
    /\ pc[r] = "exec" =>
           /\ at[r] \in 1 .. Len(Ops(r)) /\ at[r] % 2 = 1 /\ held[r] # <<>>
           /\ Op(r) # "open"
    /\ pc[r] = "run" /\ at[r] % 2 = 1 =>
           at[r] \in 1 .. Len(Ops(r)) + 1 /\ held[r] = <<>>
    /\ pc[r] = "run" /\ at[r] % 2 # 1 =>
           at[r] \in 1 .. Len(Ops(r)) /\ Op(r) = "close" /\ held[r] # <<>>

(* A script has one result per statement it has come to, and records them  *)
(* when it has come to its end.                                            *)
ResultsOK(r) ==
    LET n == Len(out[r]) IN
    /\ ~IsScript(r) => recorded[r] = 0 /\ out[r] = <<>> /\ history[r] = <<>>
    /\ IsScript(r) =>
         /\ pc[r] \in {"run", "exec"} => at[r] = IF at[r] % 2 = 1 THEN 2 * n + 1 ELSE 2 * n
         /\ pc[r] = "run" /\ at[r] <= 2 * Len(job[r]) => recorded[r] = 0
         /\ pc[r] = "run" => recorded[r] < Len(job[r])
         /\ pc[r] = "exec" => recorded[r] = 0
         /\ pc[r] = "done" => recorded[r] = Len(job[r]) /\ Len(out[r]) = Len(job[r])

(* The history holds the results recorded, up to when it stopped to.       *)
HistoryOK(r) ==
    /\ Len(history[r]) <= recorded[r]
    /\ r \notin gone /\ saved => Len(history[r]) = recorded[r]
    /\ \A i \in 1 .. Len(history[r]) : history[r][i] = <<i, out[r][i]>>

RequestOK(r) == WhereOK(r) /\ ResultsOK(r) /\ HistoryOK(r)
IInv == TypeOK /\ ConnsOK /\ \A r \in Requests : RequestOK(r)
=============================================================================
