---------------------------- MODULE RowStatements ----------------------------
(***************************************************************************)
(* The statements with which the drivers insert, update and delete one row *)
(* (dbx/sqlite.go, pg.go, mysql.go), as what the database receives: the    *)
(* table, pairs of a column and a placeholder, and the arguments.  The     *)
(* loops over Go maps visit the columns in any order: so and wo are the    *)
(* orders of the values and of the key.                                    *)
(***************************************************************************)
EXTENDS Integers, Sequences, FiniteSets, SequencesExt

CONSTANT Unquotable   \* Unquotable[k]: names with the quote character of k

Kinds == {"sqlite", "postgres", "mysql"}

(* Placeholder i of the statement: $i for PostgreSQL, ? for the others. *)
Mark(k, i) == IF k = "postgres" THEN i ELSE 0
Assign(k, order, from) ==
    [i \in DOMAIN order |-> [col |-> order[i], mark |-> Mark(k, from + i)]]
Args(m, order) == [i \in DOMAIN order |-> m[order[i]]]

Failure == [error |-> TRUE, verb |-> "none"]   \* ErrNoPrimaryKey, unquotable name
Quotable(k, m) == DOMAIN m \cap Unquotable[k] = {}
Statement(verb, table, set, where, args) ==
    [error |-> FALSE, verb |-> verb, table |-> table, set |-> set,
     where |-> where, args |-> args]

Update(k, table, pk, values, so, wo) ==
    IF DOMAIN pk = {} \/ ~Quotable(k, values) \/ ~Quotable(k, pk) THEN Failure
    ELSE Statement("update", table, Assign(k, so, 0), Assign(k, wo, Len(so)),
                   Args(values, so) \o Args(pk, wo))

(* Mutant: the statement names only one column of the key. *)
DeleteByOne(k, table, pk, wo) ==
    IF DOMAIN pk = {} \/ ~Quotable(k, pk) THEN Failure
    ELSE Statement("delete", table, <<>>, Assign(k, SubSeq(wo, 1, 1), 0), Args(pk, wo))

Delete(k, table, pk, wo) ==
    IF DOMAIN pk = {} \/ ~Quotable(k, pk) THEN Failure
    ELSE Statement("delete", table, <<>>, Assign(k, wo, 0), Args(pk, wo))

Insert(k, table, values, so) ==
    IF ~Quotable(k, values) THEN Failure
    ELSE Statement("insert", table, Assign(k, so, 0), <<>>, Args(values, so))

-----------------------------------------------------------------------------
(* SQLite's only schema is not part of the name. *)
SqliteTable(ref) == <<ref.name>>
PgTable(ref) == <<ref.schema, ref.name>>
MySQLTable(ref) == <<ref.schema, ref.name>>

SqliteUpdateRow(ref, pk, values, so, wo) ==
    Update("sqlite", SqliteTable(ref), pk, values, so, wo)
MySQLUpdateRow(ref, pk, values, so, wo) ==
    Update("mysql", MySQLTable(ref), pk, values, so, wo)

(* Mutant: the numbering starts again with the key. *)
PgUpdateRestarts(ref, pk, values, so, wo) ==
    LET u == Update("postgres", PgTable(ref), pk, values, so, wo)
    IN IF u.error THEN u ELSE [u EXCEPT !.where = Assign("postgres", wo, 0)]

(* One counter goes through both loops. *)
PgUpdateRow(ref, pk, values, so, wo) ==
    Update("postgres", PgTable(ref), pk, values, so, wo)

SqliteDeleteRow(ref, pk, wo) == Delete("sqlite", SqliteTable(ref), pk, wo)
PgDeleteRow(ref, pk, wo) == Delete("postgres", PgTable(ref), pk, wo)
MySQLDeleteRow(ref, pk, wo) == Delete("mysql", MySQLTable(ref), pk, wo)

PrepareSQLiteInsert(ref, values, so) ==
    Insert("sqlite", SqliteTable(ref), values, so)
PreparePGInsert(ref, values, so) ==
    Insert("postgres", PgTable(ref), values, so)
PrepareMySQLInsert(ref, values, so) ==
    Insert("mysql", MySQLTable(ref), values, so)

UpdateRow(k, ref, pk, values, so, wo) ==
    CASE k = "sqlite" -> SqliteUpdateRow(ref, pk, values, so, wo)
      [] k = "postgres" -> PgUpdateRow(ref, pk, values, so, wo)
      [] k = "mysql" -> MySQLUpdateRow(ref, pk, values, so, wo)
DeleteRow(k, ref, pk, wo) ==
    CASE k = "sqlite" -> SqliteDeleteRow(ref, pk, wo)
      [] k = "postgres" -> PgDeleteRow(ref, pk, wo)
      [] k = "mysql" -> MySQLDeleteRow(ref, pk, wo)
InsertRow(k, ref, values, so) ==
    CASE k = "sqlite" -> PrepareSQLiteInsert(ref, values, so)
      [] k = "postgres" -> PreparePGInsert(ref, values, so)
      [] k = "mysql" -> PrepareMySQLInsert(ref, values, so)

-----------------------------------------------------------------------------
(* What the database makes of a statement: a numbered placeholder names    *)
(* its argument, the others take the next one, in the order of the text.   *)
Bound(stmt, pair, place) == stmt.args[IF pair.mark # 0 THEN pair.mark ELSE place]

NewValues(stmt) ==
    LET of(c) == CHOOSE i \in DOMAIN stmt.set : stmt.set[i].col = c
    IN [c \in {stmt.set[i].col : i \in DOMAIN stmt.set} |->
            Bound(stmt, stmt.set[of(c)], of(c))]

(* No argument is NULL, and nothing is equal to NULL. *)
Selects(stmt, contents) ==
    \A i \in DOMAIN stmt.where :
        /\ stmt.where[i].col \in DOMAIN contents
        /\ contents[stmt.where[i].col]
              = Bound(stmt, stmt.where[i], Len(stmt.set) + i)
=============================================================================
