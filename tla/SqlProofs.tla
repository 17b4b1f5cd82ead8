-------------------------------- MODULE SqlProofs --------------------------------
(***************************************************************************)
(* What the code that makes SQL, and takes it apart, promises.  First of   *)
(* RowStatements and RowEdit, for any rows, columns, texts and number of   *)
(* writes by other users, and whatever order Go visits its maps in; then   *)
(* of SqlText, for texts, names, forms and tables of any length.           *)
(***************************************************************************)
EXTENDS RowEdit, SqlText, FiniteSetTheorems, SequenceTheorems, WellFoundedInduction,
        TLAPS

(* An order of a finite set goes through all of its elements. *)
LEMMA OrdersCover ==
  ASSUME NEW S, IsFiniteSet(S), NEW o \in Orders(S)
  PROVE  /\ Cardinality(S) \in Nat
         /\ o \in [1..Cardinality(S) -> S]
         /\ Len(o) = Cardinality(S) /\ DOMAIN o = 1..Cardinality(S)
         /\ \A x \in S : \E i \in 1..Cardinality(S) : o[i] = x
         /\ \A i, j \in 1..Cardinality(S) : o[i] = o[j] => i = j
<1> DEFINE n == Cardinality(S)
<1>1. n \in Nat
  BY FS_CardinalityType
<1>2. o \in [1..n -> S] /\ IsInjective(o)
  BY DEF Orders
<1>3. IsFiniteSet(1..n) /\ Cardinality(1..n) = n
  BY <1>1, FS_Interval
<1>4. o \in Injection(1..n, S)
  BY <1>2 DEF Injection
<1>5. o \in Surjection(1..n, S)
  BY <1>3, <1>4, FS_Injection
<1>6. Len(o) = n
  BY <1>1, <1>2
<1> QED  BY <1>1, <1>2, <1>5, <1>6 DEF Surjection, IsInjective

(* What a row statement binds: each column of the order gets the argument  *)
(* of that column, by number or by position.                               *)
LEMMA AssignBinds ==
  ASSUME NEW k \in Kinds, NEW m, NEW order, NEW n \in Nat, DOMAIN order = 1..n,
         NEW from \in Nat, NEW i \in 1..n
  PROVE  /\ Len(Assign(k, order, from)) = n
         /\ DOMAIN Assign(k, order, from) = 1..n
         /\ Assign(k, order, from)[i].col = order[i]
         /\ Assign(k, order, from)[i].mark \in {0, from + i}
<1> DEFINE A == Assign(k, order, from)
<1>1. A = [j \in 1..n |-> [col |-> order[j], mark |-> Mark(k, from + j)]]
  BY DEF Assign
<1>2. A[i].col = order[i] /\ A[i].mark = Mark(k, from + i)
  BY <1>1
<1>3. Mark(k, from + i) \in {0, from + i}
  BY DEF Mark
<1>4. Len(A) = n
  BY <1>1
<1> QED  BY <1>1, <1>2, <1>3, <1>4

(* The arguments of an order are the values of the map, one by one. *)
LEMMA ArgsOf ==
  ASSUME NEW S, IsFiniteSet(S), NEW order \in Orders(S), NEW v
  PROVE  Args(v, order) = [i \in 1..Cardinality(S) |-> v[order[i]]]
BY OrdersCover DEF Args

(* The arguments of an update: those of the values, then those of the key. *)
LEMMA ArgsAppend ==
  ASSUME NEW V, IsFiniteSet(V), NEW so \in Orders(V),
         NEW K, IsFiniteSet(K), NEW wo \in Orders(K), NEW values, NEW key
  PROVE  Args(values, so) \o Args(key, wo)
            = [i \in 1..(Cardinality(V) + Cardinality(K)) |->
                  IF i <= Cardinality(V) THEN values[so[i]]
                  ELSE key[wo[i - Cardinality(V)]]]
<1> DEFINE a == Args(values, so)
           b == Args(key, wo)
           n == Cardinality(V)
           l == Cardinality(K)
           T == {values[c] : c \in V} \cup {key[c] : c \in K}
<1>1. n \in Nat /\ l \in Nat /\ so \in [1..n -> V] /\ wo \in [1..l -> K]
  BY OrdersCover
<1>2. a = [i \in 1..n |-> values[so[i]]]
  BY ArgsOf
<1>3. b = [i \in 1..l |-> key[wo[i]]]
  BY ArgsOf
<1>4. /\ \A i \in 1..n : values[so[i]] \in T
      /\ \A i \in 1..l : key[wo[i]] \in T
  BY <1>1
<1> HIDE DEF a, b, n, l, T
<1>5. a \in Seq(T) /\ Len(a) = n
  BY <1>1, <1>2, <1>4
<1>6. b \in Seq(T) /\ Len(b) = l
  BY <1>1, <1>3, <1>4
<1>7. a \o b = [i \in 1..(n + l) |-> IF i <= n THEN a[i] ELSE b[i - n]]
  <2>1. /\ a \o b \in Seq(T) /\ Len(a \o b) = n + l
        /\ \A i \in 1..(n + l) : (a \o b)[i] = IF i <= n THEN a[i] ELSE b[i - n]
    BY <1>5, <1>6, ConcatProperties
  <2>2. a \o b = [i \in 1..(n + l) |-> (a \o b)[i]]
    <3>1. \A s \in Seq(T) : s = [i \in 1..Len(s) |-> s[i]]
      OBVIOUS
    <3> QED  BY <2>1, <3>1, Zenon
  <2> QED  BY <2>1, <2>2
<1>8. a \o b = [i \in 1..(n + l) |-> IF i <= n THEN values[so[i]] ELSE key[wo[i - n]]]
  <2>1. ASSUME NEW i \in 1..(n + l)
        PROVE  (IF i <= n THEN a[i] ELSE b[i - n])
                  = IF i <= n THEN values[so[i]] ELSE key[wo[i - n]]
    <3>1. i <= n => i \in 1..n
      BY <1>1
    <3>2. ~(i <= n) => i - n \in 1..l
      BY <1>1
    <3> QED  BY <1>2, <1>3, <3>1, <3>2
  <2> QED  BY <1>7, <2>1
<1> QED  BY <1>8 DEF a, b, n, l

(***************************************************************************)
(* What the database understands is what the driver was told, whichever    *)
(* placeholders it writes.                                                 *)
(***************************************************************************)
SetsTo(k, stmt, V, so, values) ==
    /\ k \in Kinds /\ IsFiniteSet(V) /\ so \in Orders(V)
    /\ stmt.set = Assign(k, so, 0)
    /\ \A i \in 1..Cardinality(V) : stmt.args[i] = values[so[i]]

AsksFor(k, stmt, K, wo, key, from) ==
    /\ k \in Kinds /\ IsFiniteSet(K) /\ wo \in Orders(K)
    /\ from \in Nat /\ Len(stmt.set) = from
    /\ stmt.where = Assign(k, wo, from)
    /\ \A i \in 1..Cardinality(K) : stmt.args[from + i] = key[wo[i]]

LEMMA SetBinds ==
  ASSUME NEW k, NEW stmt, NEW V, NEW so, NEW values, SetsTo(k, stmt, V, so, values)
  PROVE  /\ Len(stmt.set) = Cardinality(V)
         /\ NewValues(stmt) = [c \in V |-> values[c]]
<1> DEFINE n == Cardinality(V)
           set == stmt.set
<1> USE DEF SetsTo
<1>1. /\ n \in Nat /\ DOMAIN so = 1..n
      /\ \A i \in 1..n : so[i] \in V
      /\ \A c \in V : \E i \in 1..n : so[i] = c
  BY OrdersCover
<1> HIDE DEF n
<1>2. DOMAIN set = 1..n /\ Len(set) = n
  BY <1>1 DEF Assign
<1>3. ASSUME NEW i \in 1..n
      PROVE  set[i].col = so[i] /\ Bound(stmt, set[i], i) = values[so[i]]
  <2>1. 0 \in Nat /\ 0 + i = i
    BY <1>1
  <2>2. Assign(k, so, 0) = [j \in 1..n |-> [col |-> so[j], mark |-> Mark(k, 0 + j)]]
    BY <1>1 DEF Assign
  <2>3. Mark(k, i) \in {0, i}
    BY DEF Mark
  <2>4. set[i] = [col |-> so[i], mark |-> Mark(k, i)]
    BY <2>1, <2>2
  <2> QED  BY <2>3, <2>4 DEF Bound, n
<1> DEFINE at(c) == CHOOSE i \in DOMAIN set : set[i].col = c
<1>4. ASSUME NEW c \in V
      PROVE  Bound(stmt, set[at(c)], at(c)) = values[c]
  <2>1. \E i \in DOMAIN set : set[i].col = c
    BY <1>1, <1>2, <1>3
  <2>2. at(c) \in 1..n /\ set[at(c)].col = c
    BY <1>2, <2>1
  <2> HIDE DEF at
  <2> QED  BY <1>3, <2>2
<1>5. {set[i].col : i \in DOMAIN set} = V
  BY <1>1, <1>2, <1>3
<1>6. NewValues(stmt) = [c \in V |-> Bound(stmt, set[at(c)], at(c))]
  BY <1>5 DEF NewValues
<1> HIDE DEF at
<1>7. NewValues(stmt) = [c \in V |-> values[c]]
  BY <1>4, <1>6
<1> QED  BY <1>2, <1>7 DEF n

LEMMA WhereBinds ==
  ASSUME NEW k, NEW stmt, NEW K, NEW wo, NEW key, NEW from,
         AsksFor(k, stmt, K, wo, key, from), NEW contents
  PROVE  Selects(stmt, contents)
            <=> \A c \in K : c \in DOMAIN contents /\ contents[c] = key[c]
<1> DEFINE l == Cardinality(K)
           where == stmt.where
<1> USE DEF AsksFor
<1>1. /\ l \in Nat /\ DOMAIN wo = 1..l
      /\ \A i \in 1..l : wo[i] \in K
      /\ \A c \in K : \E i \in 1..l : wo[i] = c
  BY OrdersCover
<1> HIDE DEF l
<1>2. DOMAIN where = 1..l
  BY <1>1 DEF Assign
<1>3. ASSUME NEW i \in 1..l
      PROVE  /\ where[i].col = wo[i]
             /\ Bound(stmt, where[i], Len(stmt.set) + i) = key[wo[i]]
  <2>1. where[i].col = wo[i] /\ where[i].mark \in {0, from + i}
    BY <1>1, AssignBinds
  <2> QED  BY <2>1 DEF Bound, l
<1>4. Selects(stmt, contents) <=>
         \A i \in 1..l : wo[i] \in DOMAIN contents /\ contents[wo[i]] = key[wo[i]]
  BY <1>2, <1>3 DEF Selects
<1> QED  BY <1>1, <1>4

(* What a statement should say: it writes exactly these values; it reaches *)
(* the rows that have these values of the key in all its columns.          *)
Writes(stmt, values) == NewValues(stmt) = [c \in DOMAIN values |-> values[c]]
Reaches(stmt, key) ==
    \A contents : Selects(stmt, contents)
        <=> \A c \in DOMAIN key : c \in DOMAIN contents /\ contents[c] = key[c]

(* Whether it is SQLite, PostgreSQL or MySQL, an update says what it was   *)
(* told: the columns get the values given, and it reaches the rows that    *)
(* have the values of the key in all its columns.                          *)
THEOREM UpdateFaithful ==
  ASSUME NEW k \in Kinds, NEW ref, NEW values, NEW key,
         IsFiniteSet(DOMAIN values), IsFiniteSet(DOMAIN key),
         NEW so \in Orders(DOMAIN values), NEW wo \in Orders(DOMAIN key),
         ~UpdateRow(k, ref, key, values, so, wo).error
  PROVE  /\ UpdateRow(k, ref, key, values, so, wo).verb = "update"
         /\ Writes(UpdateRow(k, ref, key, values, so, wo), values)
         /\ Reaches(UpdateRow(k, ref, key, values, so, wo), key)
<1> DEFINE stmt == UpdateRow(k, ref, key, values, so, wo)
           V == DOMAIN values
           K == DOMAIN key
           n == Cardinality(V)
           l == Cardinality(K)
<1>1. \E table : stmt = Statement("update", table, Assign(k, so, 0),
                                  Assign(k, wo, Len(so)), Args(values, so) \o Args(key, wo))
  <2>1. \E table : stmt = Update(k, table, key, values, so, wo)
    BY DEF UpdateRow, SqliteUpdateRow, PgUpdateRow, MySQLUpdateRow, Kinds
  <2> QED  BY <2>1 DEF Update, Failure
<1>2. /\ stmt.verb = "update" /\ stmt.set = Assign(k, so, 0)
      /\ stmt.where = Assign(k, wo, Len(so))
      /\ stmt.args = Args(values, so) \o Args(key, wo)
  BY <1>1 DEF Statement
<1> HIDE DEF stmt
<1>3. n \in Nat /\ l \in Nat /\ Len(so) = n
  BY OrdersCover
<1>4. stmt.args = [i \in 1..(n + l) |->
                      IF i <= n THEN values[so[i]] ELSE key[wo[i - n]]]
  BY <1>2, ArgsAppend
<1>5. /\ \A i \in 1..n : stmt.args[i] = values[so[i]]
      /\ \A i \in 1..l : stmt.args[n + i] = key[wo[i]]
  <2> HIDE DEF n, l
  <2>1. ASSUME NEW i \in 1..n PROVE i \in 1..(n + l) /\ i <= n
    BY <1>3
  <2>2. ASSUME NEW i \in 1..l
        PROVE  n + i \in 1..(n + l) /\ ~(n + i <= n) /\ (n + i) - n = i
    BY <1>3
  <2> QED  BY <1>4, <2>1, <2>2
<1>6. Len(stmt.set) = n /\ NewValues(stmt) = [c \in V |-> values[c]]
  <2>1. SetsTo(k, stmt, V, so, values)
    BY <1>2, <1>5 DEF SetsTo
  <2> QED  BY <2>1, SetBinds
<1>7. ASSUME NEW contents
      PROVE  Selects(stmt, contents) <=>
                \A c \in K : c \in DOMAIN contents /\ contents[c] = key[c]
  <2>1. AsksFor(k, stmt, K, wo, key, n)
    BY <1>2, <1>3, <1>5, <1>6 DEF AsksFor
  <2> QED  BY <2>1, WhereBinds
<1> QED  BY <1>2, <1>6, <1>7 DEF stmt, Writes, Reaches

(* A delete reaches the rows that have all the values of the key. *)
THEOREM DeleteFaithful ==
  ASSUME NEW k \in Kinds, NEW ref, NEW key, IsFiniteSet(DOMAIN key),
         NEW wo \in Orders(DOMAIN key),
         ~DeleteRow(k, ref, key, wo).error
  PROVE  /\ DeleteRow(k, ref, key, wo).verb = "delete"
         /\ Reaches(DeleteRow(k, ref, key, wo), key)
<1> DEFINE stmt == DeleteRow(k, ref, key, wo)
           K == DOMAIN key
<1>1. \E table : stmt = Statement("delete", table, <<>>, Assign(k, wo, 0), Args(key, wo))
  <2>1. \E table : stmt = Delete(k, table, key, wo)
    BY DEF DeleteRow, SqliteDeleteRow, PgDeleteRow, MySQLDeleteRow, Kinds
  <2> QED  BY <2>1 DEF Delete, Failure
<1>2. /\ stmt.verb = "delete" /\ stmt.set = <<>> /\ stmt.where = Assign(k, wo, 0)
      /\ stmt.args = Args(key, wo)
  BY <1>1 DEF Statement
<1> HIDE DEF stmt
<1>3. \A i \in 1..Cardinality(K) : stmt.args[0 + i] = key[wo[i]]
  <2>1. Cardinality(K) \in Nat
    BY FS_CardinalityType
  <2>2. stmt.args = [i \in 1..Cardinality(K) |-> key[wo[i]]]
    BY <1>2, ArgsOf
  <2> QED  BY <2>1, <2>2
<1>4. 0 \in Nat /\ Len(stmt.set) = 0
  BY <1>2
<1>5. ASSUME NEW contents
      PROVE  Selects(stmt, contents) <=>
                \A c \in K : c \in DOMAIN contents /\ contents[c] = key[c]
  <2>1. AsksFor(k, stmt, K, wo, key, 0)
    BY <1>2, <1>3, <1>4 DEF AsksFor
  <2> QED  BY <2>1, WhereBinds
<1> QED  BY <1>2, <1>5 DEF stmt, Reaches

(* An insert gives the new row the values. *)
THEOREM InsertFaithful ==
  ASSUME NEW k \in Kinds, NEW ref, NEW values, IsFiniteSet(DOMAIN values),
         NEW so \in Orders(DOMAIN values),
         ~InsertRow(k, ref, values, so).error
  PROVE  /\ InsertRow(k, ref, values, so).verb = "insert"
         /\ Writes(InsertRow(k, ref, values, so), values)
<1> DEFINE stmt == InsertRow(k, ref, values, so)
           V == DOMAIN values
<1>1. \E table : stmt = Statement("insert", table, Assign(k, so, 0), <<>>, Args(values, so))
  <2>1. \E table : stmt = Insert(k, table, values, so)
    BY DEF InsertRow, PrepareSQLiteInsert, PreparePGInsert, PrepareMySQLInsert, Kinds
  <2> QED  BY <2>1 DEF Insert, Failure
<1>2. stmt.verb = "insert" /\ stmt.set = Assign(k, so, 0) /\ stmt.args = Args(values, so)
  BY <1>1 DEF Statement
<1> HIDE DEF stmt
<1>3. \A i \in 1..Cardinality(V) : stmt.args[i] = values[so[i]]
  <2>1. stmt.args = [i \in 1..Cardinality(V) |-> values[so[i]]]
    BY <1>2, ArgsOf
  <2> QED  BY <2>1
<1>4. NewValues(stmt) = [c \in V |-> values[c]]
  <2>1. SetsTo(k, stmt, V, so, values)
    BY <1>2, <1>3 DEF SetsTo
  <2> QED  BY <2>1, SetBinds
<1> QED  BY <1>2, <1>4 DEF stmt, Writes

-----------------------------------------------------------------------------
(***************************************************************************)
(* The invariant.  Columns are only added and the key only grows, so that  *)
(* a description or a page that has grown old names columns that are still *)
(* there.  The table holds cells, and the fields of the tab hold texts.    *)
(***************************************************************************)
AllColumns == {Key} \cup Columns
FieldTexts(m) == \A c \in DOMAIN m : m[c] \in Text

TableOK ==
    /\ cols \subseteq AllColumns /\ pk \subseteq cols
    /\ tbl \in [Rows -> Contents(cols) \cup {Absent}]
    /\ KeyHolds(tbl, pk)

TabOK ==
    /\ view.pk \subseteq pk /\ def.pk \subseteq pk
    /\ pc # "home" => view.pk \subseteq def.pk
    /\ view = [pk |-> view.pk, key |-> view.key]
    /\ DOMAIN view.key \subseteq Rows
    /\ \A r \in DOMAIN view.key : view.key[r] \in Contents(view.pk)
    /\ def.cols \subseteq cols /\ def.pk \subseteq def.cols
    /\ form = [shown |-> form.shown, hidden |-> form.hidden, typed |-> form.typed]
    /\ FieldTexts(form.shown) /\ FieldTexts(form.hidden) /\ FieldTexts(form.typed)
    /\ pc = "opening" => row \in DOMAIN view.key

(* The key of the page travels through the link into the form; and unless  *)
(* the key has been widened, a form that has recognised a row shows it.    *)
FormOK ==
    /\ pc = "saving" => DOMAIN form.typed = DOMAIN form.shown
    /\ pc \in {"form", "saving"} /\ row # Absent =>
          /\ row \in DOMAIN view.key
          /\ \A c \in view.pk : c \in DOMAIN form.hidden /\ form.hidden[c] = Link[c]
          /\ pk = view.pk =>
                \A r \in DOMAIN sample : Recognised(r) =>
                   \A c \in DOMAIN form.shown :
                      form.shown[c] = Stringify(sample[r][c])

IInv == TableOK /\ TabOK /\ FormOK

LEMMA ColumnsFinite == ASSUME NEW C \in SUBSET AllColumns PROVE IsFiniteSet(C)
<1>1. IsFiniteSet(AllColumns)
  BY ColumnsAssumption, FS_EmptySet, FS_AddElement DEF AllColumns
<1> QED  BY <1>1, FS_Subset

(* Rows that are there have contents, and contents are not Absent. *)
LEMMA PresentTyped ==
  ASSUME TableOK
  PROVE  /\ \A r \in Present(tbl) : r \in Rows /\ tbl[r] \in Contents(cols)
         /\ \A C \in SUBSET AllColumns : Absent \notin Contents(C)
<1>1. \A C \in SUBSET AllColumns : Absent \notin Contents(C)
  BY AbsentAssumption DEF AllColumns, Contents
<1> QED  BY <1>1 DEF TableOK, Present

LEMMA KeyTyped ==
  ASSUME TableOK, NEW r \in Present(tbl), NEW k \in SUBSET cols
  PROVE  KeyOf(tbl[r], k) \in Contents(k)
<1>1. tbl[r] \in [cols -> Cells \cup {Null}]
  BY PresentTyped DEF Contents
<1> QED  BY <1>1 DEF KeyOf, Contents

(* What the page and the form print are texts; and a cell that a form      *)
(* gives back is what the database makes of what the form shows.           *)
LEMMA Prints ==
  ASSUME NEW v \in Cells \cup {Null}
  PROVE  LinkKey(v) \in Text /\ Stringify(v) \in Text /\ FieldKey(v) \in Text
BY TextAssumption DEF LinkKey, Stringify, FormatAny, FieldKey

LEMMA FaithfulCell ==
  ASSUME NEW v \in Faithful
  PROVE  v # Null /\ Stored[Stringify(v)] = v
<1>1. v # Null
  BY NullAssumption DEF Faithful
<1>2. CASE GoType[v] = "string"
  BY <1>1, <1>2 DEF Faithful, Stringify
<1>3. CASE GoType[v] # "string"
  BY <1>1, <1>3 DEF Faithful, Stringify, FormatAny
<1> QED  BY <1>1, <1>2, <1>3

LEMMA ReadTyped ==
  ASSUME NEW m, FieldTexts(m)
  PROVE  DOMAIN AsRead(m) = DOMAIN m /\ \A c \in DOMAIN m : AsRead(m)[c] \in Cells
BY TextAssumption DEF AsRead, FieldTexts

LEMMA CellIsText == ASSUME NEW m, FieldTexts(m), NEW c PROVE Cell(m, c) \in Text
BY TextAssumption DEF Cell, FieldTexts

LEMMA InitInv == Init => IInv
<1> SUFFICES ASSUME Init PROVE IInv
  OBVIOUS
<1>1. TableOK
  BY DEF Init, TableOK, AllColumns
<1>2. FieldTexts(<<>>)
  BY DEF FieldTexts
<1>3. TabOK
  BY <1>2 DEF Init, TabOK, NoForm, NoRows
<1>4. FormOK
  BY DEF Init, FormOK
<1> QED  BY <1>1, <1>3, <1>4 DEF IInv

-----------------------------------------------------------------------------
(* The writes of other users. *)
LEMMA TheyWriteInv == IInv /\ TheyWrite => TableOK' /\ TabOK'
<1> SUFFICES ASSUME IInv, TheyWrite PROVE TableOK' /\ TabOK'
  OBVIOUS
<1> USE DEF IInv
<1>1. cols \subseteq cols' /\ pk \subseteq pk' /\ UNCHANGED <<pc, view, row, def, form>>
  BY DEF TheyWrite
<1>2. TabOK'
  BY <1>1 DEF TabOK, FieldTexts
<1>3. CASE \E r \in Rows, v \in [cols -> Theirs] \cup {Absent} :
              /\ tbl' = [tbl EXCEPT ![r] = v]
              /\ KeyHolds(tbl', pk)
              /\ UNCHANGED <<cols, pk>>
  <2>1. [cols -> Theirs] \subseteq Contents(cols)
    BY BoundsAssumption DEF Contents
  <2>2. TableOK'
    BY <1>3, <2>1 DEF TableOK
  <2> QED  BY <1>2, <2>2
<1>4. ASSUME NEW c \in Columns \ cols, NEW v \in Theirs,
             cols' = cols \cup {c},
             tbl' = [r \in Rows |-> IF tbl[r] = Absent THEN Absent ELSE Put([d \in {c} |-> v], tbl[r])],
             UNCHANGED pk
      PROVE  TableOK'
  <2>1. ASSUME NEW r \in Rows, tbl[r] # Absent
        PROVE  /\ tbl'[r] \in Contents(cols')
               /\ \A d \in cols : tbl'[r][d] = tbl[r][d]
    <3>1. tbl[r] \in [cols -> Cells \cup {Null}] /\ v \in Cells \cup {Null}
      BY <2>1, BoundsAssumption DEF TableOK, Contents
    <3>2. tbl'[r] = [d \in cols \cup {c} |-> IF d \in cols THEN tbl[r][d] ELSE v]
      BY <1>4, <2>1, <3>1 DEF Put
    <3> QED  BY <1>4, <3>1, <3>2 DEF Contents
  <2>2. cols' \subseteq AllColumns /\ pk' \subseteq cols /\ pk' \subseteq cols'
    BY <1>4 DEF TableOK, AllColumns
  <2>3. tbl' \in [Rows -> Contents(cols') \cup {Absent}]
    BY <1>4, <2>1
  <2>4. \A r \in Rows : r \in Present(tbl') <=> r \in Present(tbl)
    BY <1>4, <2>1, <2>2, AbsentAssumption DEF Present, Contents, AllColumns
  <2>5. \A r \in Present(tbl) : KeyOf(tbl'[r], pk') = KeyOf(tbl[r], pk)
    BY <1>4, <2>1, <2>2 DEF KeyOf, Present
  <2>6. \A r \in Present(tbl) : \A d \in pk' : tbl'[r][d] = tbl[r][d]
    BY <2>1, <2>2 DEF Present
  <2>7. KeyHolds(tbl', pk')
    BY <1>4, <2>4, <2>5, <2>6 DEF KeyHolds, TableOK, Present
  <2> QED  BY <2>2, <2>3, <2>7 DEF TableOK
<1>5. CASE \E c \in cols \ pk :
              pk' = pk \cup {c} /\ KeyHolds(tbl, pk') /\ UNCHANGED <<tbl, cols>>
  BY <1>2, <1>5 DEF TableOK
<1> QED  BY <1>2, <1>3, <1>4, <1>5 DEF TheyWrite

(* The requests that only read. *)
LEMMA ShowRowsInv == IInv /\ ShowRows => TableOK' /\ TabOK'
<1> SUFFICES ASSUME IInv, ShowRows PROVE TableOK' /\ TabOK'
  OBVIOUS
<1> USE DEF IInv
<1>1. TableOK'
  BY DEF ShowRows, theirs, TableOK, KeyHolds, Present
<1>2. /\ DOMAIN view'.key \subseteq Rows
      /\ \A r \in DOMAIN view'.key : view'.key[r] \in Contents(view'.pk)
  BY KeyTyped DEF ShowRows, Present, TableOK
<1>3. TabOK'
  BY <1>2 DEF ShowRows, theirs, TabOK, TableOK, DescribeTable, FieldTexts
<1> QED  BY <1>1, <1>3

LEMMA OpenInv ==
  ASSUME IInv, OpenNew \/ \E r \in Rows : OpenEdit(r)
  PROVE  TableOK' /\ TabOK'
<1> USE DEF IInv
<1>1. TableOK'
  BY DEF OpenNew, OpenEdit, theirs, TableOK, KeyHolds, Present
<1>2. ASSUME NEW r \in Rows, OpenEdit(r) PROVE TabOK'
  <2>1. view' = [pk |-> view.pk, key |-> [q \in {r} |-> view.key[q]]]
    BY <1>2 DEF OpenEdit, TabOK
  <2>2. r \in DOMAIN view.key
    BY <1>2 DEF OpenEdit
  <2> QED  BY <1>2, <2>1, <2>2 DEF OpenEdit, theirs, TabOK, TableOK, DescribeTable, FieldTexts
<1>3. ASSUME OpenNew PROVE TabOK'
  <2>1. \E C : form' = [NoForm EXCEPT !.shown = [c \in C |-> ""]]
    BY <1>3, Zenon DEF OpenNew
  <2>2. PICK C : form' = [shown |-> [c \in C |-> ""], hidden |-> <<>>, typed |-> <<>>]
    BY <2>1 DEF NoForm
  <2>3. FieldTexts([c \in C |-> ""])
    BY TextAssumption DEF FieldTexts
  <2>4. FieldTexts(<<>>)
    BY DEF FieldTexts
  <2>5. FieldTexts(form'.shown) /\ FieldTexts(form'.hidden) /\ FieldTexts(form'.typed)
    BY <2>2, <2>3, <2>4
  <2>6. /\ view' = [pk |-> {}, key |-> <<>>] /\ def' = [cols |-> cols, pk |-> pk]
        /\ pc' = "form" /\ UNCHANGED <<cols, pk>>
    BY <1>3 DEF OpenNew, theirs, NoRows, DescribeTable
  <2>7. DOMAIN view'.key = {} /\ view'.pk = {} /\ view' = [pk |-> view'.pk, key |-> view'.key]
    BY <2>6
  <2>8. def'.cols = cols /\ def'.pk = pk /\ pk \subseteq cols
    BY <2>6 DEF TableOK
  <2> QED  BY <2>2, <2>5, <2>6, <2>7, <2>8 DEF TabOK
<1> QED  BY <1>1, <1>2, <1>3

LEMMA FetchRowInv == IInv /\ FetchRow => TableOK' /\ TabOK'
<1> SUFFICES ASSUME IInv, FetchRow PROVE TableOK' /\ TabOK'
  OBVIOUS
<1> USE DEF IInv
<1>1. TableOK'
  BY DEF FetchRow, theirs, TableOK, KeyHolds, Present
<1>2. FieldTexts(Link)
  <2>1. view.key[row] \in [view.pk -> Cells \cup {Null}]
    BY DEF TabOK, FetchRow, Contents
  <2>2. \A c \in view.pk : LinkKey(view.key[row][c]) \in Text
    BY <2>1, Prints
  <2> QED  BY <2>2, TextAssumption DEF Link, FieldTexts
<1>3. ASSUME NEW S \in Samples(tbl), NEW current \in FetchRowByPK(S)
      PROVE  FieldTexts(current)
  <2>1. S \subseteq Present(tbl)
    BY DEF Samples, kSubset
  <2>2. ASSUME NEW r \in Present(tbl)
        PROVE  FieldTexts([c \in DOMAIN tbl[r] |-> Stringify(tbl[r][c])])
    <3>1. tbl[r] \in [cols -> Cells \cup {Null}]
      BY PresentTyped DEF Contents
    <3>2. \A c \in cols : Stringify(tbl[r][c]) \in Text
      BY <3>1, Prints
    <3> QED  BY <3>1, <3>2 DEF FieldTexts
  <2>3. FieldTexts([c \in def.cols \cap view.pk |-> Link[c]])
    BY <1>2 DEF FieldTexts, Link
  <2> QED  BY <2>1, <2>2, <2>3 DEF FetchRowByPK
<1>4. PICK current : /\ FieldTexts(current)
                     /\ form' = [shown  |-> [c \in def.cols |-> Cell(current, c)],
                                 hidden |-> [c \in def.pk |-> Cell(Link, c)],
                                 typed  |-> <<>>]
  BY <1>3 DEF FetchRow
<1>5. FieldTexts(form'.shown) /\ FieldTexts(form'.hidden) /\ FieldTexts(form'.typed)
  <2>1. \A c : Cell(current, c) \in Text /\ Cell(Link, c) \in Text
    BY <1>2, <1>4, CellIsText
  <2> QED  BY <1>4, <2>1 DEF FieldTexts
<1>6. TabOK'
  BY <1>4, <1>5 DEF FetchRow, theirs, TabOK
<1> QED  BY <1>1, <1>6

LEMMA SubmitInv == IInv /\ Submit => TableOK' /\ TabOK'
<1> SUFFICES ASSUME IInv, Submit PROVE TableOK' /\ TabOK'
  OBVIOUS
<1> USE DEF IInv
<1>1. TableOK'
  BY DEF Submit, theirs, TableOK, KeyHolds, Present
<1>2. \E t : FieldTexts(t) /\ form' = [form EXCEPT !.typed = t]
  <2>1. ASSUME NEW c \in DOMAIN form.shown, NEW v \in Typed
        PROVE  FieldTexts([form.shown EXCEPT ![c] = v])
    BY BoundsAssumption DEF TabOK, FieldTexts
  <2>2. ASSUME NEW t \in [DOMAIN form.shown -> Typed] PROVE FieldTexts(t)
    BY BoundsAssumption DEF FieldTexts
  <2> QED  BY <2>1, <2>2 DEF Submit
<1>3. PICK t : FieldTexts(t) /\ form' = [shown |-> form.shown, hidden |-> form.hidden, typed |-> t]
  BY <1>2 DEF TabOK
<1>4. FieldTexts(form'.shown) /\ FieldTexts(form'.hidden) /\ FieldTexts(form'.typed)
  BY <1>3 DEF TabOK
<1>5. TabOK'
  BY <1>3, <1>4 DEF Submit, theirs, TabOK, TableOK, DescribeTable
<1> QED  BY <1>1, <1>5
-----------------------------------------------------------------------------
(* The requests that write. *)
LEMMA FormTyped ==
  ASSUME IInv
  PROVE  /\ DOMAIN AsRead(FormValues) = def.cols
         /\ \A c \in def.cols : AsRead(FormValues)[c] \in Cells
         /\ DOMAIN AsRead(FormPK) = def.pk
         /\ \A c \in def.pk : AsRead(FormPK)[c] \in Cells
         /\ IsFiniteSet(def.cols) /\ IsFiniteSet(def.pk) /\ IsFiniteSet(view.pk)
<1>1. FieldTexts(FormValues) /\ FieldTexts(FormPK)
  <2>1. \A c : Cell(form.typed, c) \in Text /\ Cell(form.hidden, c) \in Text
    BY CellIsText DEF IInv, TabOK
  <2> QED  BY <2>1 DEF FormValues, FormPK, FieldTexts
<1>2. DOMAIN FormValues = def.cols /\ DOMAIN FormPK = def.pk
  BY DEF FormValues, FormPK
<1>3. def.cols \subseteq AllColumns /\ def.pk \subseteq AllColumns /\ view.pk \subseteq AllColumns
  BY DEF IInv, TabOK, TableOK
<1> QED  BY <1>1, <1>2, <1>3, ReadTyped, ColumnsFinite

LEMMA DeleteTyped ==
  ASSUME IInv, NEW r \in DOMAIN view.key
  PROVE  /\ DOMAIN AsRead(DeletePK(r)) = view.pk
         /\ \A c \in view.pk : AsRead(DeletePK(r))[c] \in Cells
<1>1. view.key[r] \in [view.pk -> Cells \cup {Null}]
  BY DEF IInv, TabOK, Contents
<1>2. \A c \in view.pk : FieldKey(view.key[r][c]) \in Text
  BY <1>1, Prints
<1>3. DOMAIN DeletePK(r) = view.pk /\ FieldTexts(DeletePK(r))
  BY <1>2 DEF DeletePK, FieldTexts
<1> QED  BY <1>3, ReadTyped

(* A statement that gives cells to columns of the table keeps it well formed. *)
LEMMA ApplyTyped ==
  ASSUME TableOK, NEW stmt, NEW V, V \subseteq cols, NEW values, \A c \in V : values[c] \in Cells,
         stmt.verb \in {"update", "insert"} => NewValues(stmt) = [c \in V |-> values[c]],
         NEW t \in Apply(stmt)
  PROVE  t \in [Rows -> Contents(cols) \cup {Absent}]
<1>1. ASSUME NEW contents \in Contents(cols), stmt.verb \in {"update", "insert"}
      PROVE  Put(NewValues(stmt), contents) \in Contents(cols)
  <2>1. NewValues(stmt) = [c \in V |-> values[c]]
    BY <1>1
  <2>2. contents \in [cols -> Cells \cup {Null}]
    BY DEF Contents
  <2>3. Put(NewValues(stmt), contents)
           = [c \in cols |-> IF c \in V THEN values[c] ELSE contents[c]]
    BY <2>1, <2>2 DEF Put
  <2> QED  BY <2>2, <2>3 DEF Contents
<1>2. CASE stmt.verb = "update"
  <2>1. \A r \in Rows : tbl[r] \in Contents(cols) \cup {Absent}
    BY DEF TableOK
  <2>2. t = [r \in Rows |-> IF r \in Present(tbl) /\ Selects(stmt, tbl[r])
                            THEN Put(NewValues(stmt), tbl[r]) ELSE tbl[r]]
    BY <1>2 DEF Apply
  <2>3. \A r \in Present(tbl) : Put(NewValues(stmt), tbl[r]) \in Contents(cols)
    BY <1>1, <1>2, PresentTyped
  <2> QED  BY <2>1, <2>2, <2>3
<1>3. CASE stmt.verb = "delete"
  <2>1. t = [r \in Rows |-> IF r \in Present(tbl) /\ Selects(stmt, tbl[r])
                            THEN Absent ELSE tbl[r]]
    BY <1>3 DEF Apply
  <2> QED  BY <2>1 DEF TableOK
<1>4. CASE stmt.verb = "insert"
  <2>1. [c \in cols |-> Null] \in Contents(cols)
    BY DEF Contents
  <2>2. \E r \in Rows : t = [tbl EXCEPT ![r] = Put(NewValues(stmt), [c \in cols |-> Null])]
    BY <1>4 DEF Apply
  <2>3. Put(NewValues(stmt), [c \in cols |-> Null]) \in Contents(cols)
    BY <1>1, <1>4, <2>1
  <2> QED  BY <2>2, <2>3 DEF TableOK
<1>5. stmt.verb \in {"update", "delete", "insert"}
  BY DEF Apply
<1> QED  BY <1>2, <1>3, <1>4, <1>5

LEMMA RunInv ==
  ASSUME IInv, NEW stmt, NEW back, back \notin {"opening", "home"}, pc # "home", Run(stmt, back), NEW V, V \subseteq cols,
         NEW values, \A c \in V : values[c] \in Cells,
         stmt.verb \in {"update", "insert"} => NewValues(stmt) = [c \in V |-> values[c]]
  PROVE  TableOK' /\ TabOK'
<1> USE DEF IInv
<1>1. tbl' \in [Rows -> Contents(cols) \cup {Absent}] /\ KeyHolds(tbl', pk)
  <2>1. CASE tbl' \in Apply(stmt) /\ KeyHolds(tbl', pk)
    BY <2>1, ApplyTyped
  <2>2. CASE UNCHANGED tbl
    BY <2>2 DEF TableOK
  <2> QED  BY <2>1, <2>2 DEF Run
<1>2. TableOK'
  BY <1>1 DEF TableOK, Run
<1>3. TabOK'
  BY DEF Run, TabOK, FieldTexts
<1> QED  BY <1>2, <1>3

(* The statements of the three handlers: an error, or what they were told. *)
LEMMA EditStatement ==
  ASSUME IInv, NEW k \in Kinds, NEW so \in Orders(def.cols), NEW wo \in Orders(def.pk),
         NEW stmt, stmt = UpdateRow(k, Ref, AsRead(FormPK), AsRead(FormValues), so, wo)
  PROVE  \/ stmt.verb = "none"
         \/ stmt.verb = "update" /\ Writes(stmt, AsRead(FormValues)) /\ Reaches(stmt, AsRead(FormPK))
<1>1. stmt.error => stmt.verb = "none"
  <2>1. \E table : stmt = Update(k, table, AsRead(FormPK), AsRead(FormValues), so, wo)
    BY DEF UpdateRow, SqliteUpdateRow, PgUpdateRow, MySQLUpdateRow, Kinds
  <2> QED  BY <2>1 DEF Update, Failure, Statement
<1>2. /\ IsFiniteSet(DOMAIN AsRead(FormValues)) /\ so \in Orders(DOMAIN AsRead(FormValues))
      /\ IsFiniteSet(DOMAIN AsRead(FormPK)) /\ wo \in Orders(DOMAIN AsRead(FormPK))
  BY FormTyped
<1>3. ~stmt.error => /\ stmt.verb = "update"
                     /\ Writes(stmt, AsRead(FormValues)) /\ Reaches(stmt, AsRead(FormPK))
  BY <1>2, UpdateFaithful
<1> QED  BY <1>1, <1>3

LEMMA NewStatement ==
  ASSUME IInv, NEW k \in Kinds, NEW so \in Orders(def.cols),
         NEW stmt, stmt = InsertRow(k, Ref, AsRead(FormValues), so)
  PROVE  \/ stmt.verb = "none"
         \/ stmt.verb = "insert" /\ Writes(stmt, AsRead(FormValues))
<1>1. stmt.error => stmt.verb = "none"
  <2>1. \E table : stmt = Insert(k, table, AsRead(FormValues), so)
    BY DEF InsertRow, PrepareSQLiteInsert, PreparePGInsert, PrepareMySQLInsert, Kinds
  <2> QED  BY <2>1 DEF Insert, Failure, Statement
<1>2. IsFiniteSet(DOMAIN AsRead(FormValues)) /\ so \in Orders(DOMAIN AsRead(FormValues))
  BY FormTyped
<1>3. ~stmt.error => stmt.verb = "insert" /\ Writes(stmt, AsRead(FormValues))
  BY <1>2, InsertFaithful
<1> QED  BY <1>1, <1>3

LEMMA DeleteStatement ==
  ASSUME IInv, NEW k \in Kinds, NEW r \in DOMAIN view.key, NEW wo \in Orders(view.pk),
         NEW stmt, stmt = DeleteRow(k, Ref, AsRead(DeletePK(r)), wo)
  PROVE  /\ DOMAIN AsRead(DeletePK(r)) = view.pk
         /\ \/ stmt.verb = "none"
            \/ stmt.verb = "delete" /\ Reaches(stmt, AsRead(DeletePK(r)))
<1>1. stmt.error => stmt.verb = "none"
  <2>1. \E table : stmt = Delete(k, table, AsRead(DeletePK(r)), wo)
    BY DEF DeleteRow, SqliteDeleteRow, PgDeleteRow, MySQLDeleteRow, Kinds
  <2> QED  BY <2>1 DEF Delete, Failure, Statement
<1>2. DOMAIN AsRead(DeletePK(r)) = view.pk
  BY DeleteTyped
<1>3. IsFiniteSet(DOMAIN AsRead(DeletePK(r))) /\ wo \in Orders(DOMAIN AsRead(DeletePK(r)))
  BY <1>2, FormTyped
<1>4. ~stmt.error => stmt.verb = "delete" /\ Reaches(stmt, AsRead(DeletePK(r)))
  BY <1>3, DeleteFaithful
<1> QED  BY <1>1, <1>2, <1>4

LEMMA SaveEditInv == IInv /\ SaveEdit => TableOK' /\ TabOK'
<1> SUFFICES ASSUME IInv, SaveEdit PROVE TableOK' /\ TabOK'
  OBVIOUS
<1>1. PICK k \in Kinds, so \in Orders(def.cols), wo \in Orders(def.pk) :
         Run(UpdateRow(k, Ref, AsRead(FormPK), AsRead(FormValues), so, wo), "form")
  BY DEF SaveEdit
<1> DEFINE stmt == UpdateRow(k, Ref, AsRead(FormPK), AsRead(FormValues), so, wo)
<1>2. stmt.verb \in {"update", "insert"} =>
         NewValues(stmt) = [c \in def.cols |-> AsRead(FormValues)[c]]
  BY EditStatement, FormTyped DEF Writes
<1>3. def.cols \subseteq cols /\ pc = "saving"
  BY DEF IInv, TabOK, SaveEdit
<1> HIDE DEF stmt
<1> QED  BY <1>1, <1>2, <1>3, FormTyped, RunInv DEF stmt

LEMMA SaveNewInv == IInv /\ SaveNew => TableOK' /\ TabOK'
<1> SUFFICES ASSUME IInv, SaveNew PROVE TableOK' /\ TabOK'
  OBVIOUS
<1>1. PICK k \in Kinds, so \in Orders(def.cols) :
         Run(InsertRow(k, Ref, AsRead(FormValues), so), "form")
  BY DEF SaveNew
<1> DEFINE stmt == InsertRow(k, Ref, AsRead(FormValues), so)
<1>2. stmt.verb \in {"update", "insert"} =>
         NewValues(stmt) = [c \in def.cols |-> AsRead(FormValues)[c]]
  BY NewStatement, FormTyped DEF Writes
<1>3. def.cols \subseteq cols /\ pc = "saving"
  BY DEF IInv, TabOK, SaveNew
<1>4. Run(stmt, "form")
  BY <1>1
<1> DEFINE values == AsRead(FormValues)
<1>5. /\ \A c \in def.cols : values[c] \in Cells
      /\ stmt.verb \in {"update", "insert"} => NewValues(stmt) = [c \in def.cols |-> values[c]]
  BY <1>2, FormTyped
<1> HIDE DEF stmt, values
<1> QED  BY <1>3, <1>4, <1>5, RunInv

LEMMA DeleteInv ==
  ASSUME IInv, NEW r \in Rows, DeleteClicked(r)
  PROVE  TableOK' /\ TabOK'
<1>1. PICK k \in Kinds, wo \in Orders(view.pk) :
         Run(DeleteRow(k, Ref, AsRead(DeletePK(r)), wo), "page")
  BY DEF DeleteClicked
<1> DEFINE stmt == DeleteRow(k, Ref, AsRead(DeletePK(r)), wo)
<1>2. stmt.verb \notin {"update", "insert"}
  BY DeleteStatement DEF DeleteClicked
<1>3. pc = "page"
  BY DEF DeleteClicked
<1> HIDE DEF stmt
<1>4. Run(stmt, "page")
  BY <1>1 DEF stmt
<1> DEFINE V == {}
           values == <<>>
<1>5. V \subseteq cols /\ \A c \in V : values[c] \in Cells
  OBVIOUS
<1> HIDE DEF V, values
<1> QED  BY <1>2, <1>3, <1>4, <1>5, RunInv
-----------------------------------------------------------------------------
(* The form and the key in it. *)
LEMMA FormFetched == IInv /\ FetchRow => FormOK'
<1> SUFFICES ASSUME IInv, FetchRow PROVE FormOK'
  OBVIOUS
<1>1. PICK S \in Samples(tbl) : \E current \in FetchRowByPK(S) :
         /\ sample' = [r \in S |-> tbl[r]]
         /\ form' = [shown  |-> [c \in def.cols |-> Cell(current, c)],
                     hidden |-> [c \in def.pk |-> Cell(Link, c)],
                     typed  |-> <<>>]
  BY DEF FetchRow
<1>2. PICK current \in FetchRowByPK(S) :
         /\ sample' = [r \in S |-> tbl[r]]
         /\ form' = [shown  |-> [c \in def.cols |-> Cell(current, c)],
                     hidden |-> [c \in def.pk |-> Cell(Link, c)],
                     typed  |-> <<>>]
  BY <1>1
<1>3. /\ UNCHANGED <<tbl, cols, pk, view, row, def>> /\ pc = "opening" /\ pc' = "form"
      /\ view.pk \subseteq def.pk /\ row \in DOMAIN view.key
  BY DEF FetchRow, theirs, IInv, TabOK
<1>4. Link' = Link /\ DOMAIN Link = view.pk
  BY <1>3 DEF Link
<1>5. \A c \in view.pk : c \in DOMAIN form'.hidden /\ form'.hidden[c] = Link'[c]
  BY <1>2, <1>3, <1>4 DEF Cell
<1>6. ASSUME pk = view.pk, NEW r \in S,
             \A d \in view.pk : Stringify(tbl[r][d]) = Link[d],
             \A q \in S : \A d \in view.pk : tbl[q][d] \in Faithful,
             NEW c \in def.cols
      PROVE  Cell(current, c) = Stringify(tbl[r][c])
  <2>1. \A q \in S : q \in Present(tbl) /\ DOMAIN tbl[q] = cols
    <3>1. S \subseteq Present(tbl)
      BY DEF Samples, kSubset
    <3> QED  BY <3>1, PresentTyped DEF IInv, Contents
  <2>2. pk \subseteq cols /\ c \in cols
    BY DEF IInv, TableOK, TabOK
  <2>3. RowMatches(tbl[r], Link)
    BY <1>4, <1>6, <2>1, <2>2 DEF RowMatches
  <2>4. PICK q \in S : /\ RowMatches(tbl[q], Link)
                       /\ current = [d \in DOMAIN tbl[q] |-> Stringify(tbl[q][d])]
    BY <2>3 DEF FetchRowByPK
  <2>5. ASSUME NEW d \in pk PROVE tbl[q][d] = tbl[r][d] /\ tbl[r][d] # Null
    <3>1. Stringify(tbl[q][d]) = Stringify(tbl[r][d])
      BY <1>4, <1>6, <2>4 DEF RowMatches
    <3>2. tbl[q][d] \in Faithful /\ tbl[r][d] \in Faithful
      BY <1>6
    <3> QED  BY <3>1, <3>2, FaithfulCell
  <2>6. q = r
    <3>1. KeyOf(tbl[q], pk) = KeyOf(tbl[r], pk) /\ \A d \in pk : tbl[q][d] # Null
      BY <2>5 DEF KeyOf
    <3> QED  BY <2>1, <3>1 DEF IInv, TableOK, KeyHolds
  <2> QED  BY <2>1, <2>2, <2>4, <2>6 DEF Cell
<1>7. DOMAIN form'.shown = def.cols /\ \A c \in def.cols : form'.shown[c] = Cell(current, c)
  BY <1>2
<1>8. ASSUME pk' = view'.pk, NEW r \in DOMAIN sample', Recognised(r)',
             NEW c \in DOMAIN form'.shown
      PROVE  form'.shown[c] = Stringify(sample'[r][c])
  <2>1. pk = view.pk /\ r \in S /\ c \in def.cols /\ view' = view
    BY <1>2, <1>3, <1>7, <1>8
  <2>2. \A d \in view.pk : Stringify(tbl[r][d]) = Link[d]
    BY <1>2, <1>4, <1>8, <2>1 DEF Recognised
  <2>3. \A q \in S : \A d \in view.pk : tbl[q][d] \in Faithful
    BY <1>2, <1>8, <2>1 DEF Recognised
  <2>4. Cell(current, c) = Stringify(tbl[r][c])
    BY <1>6, <2>1, <2>2, <2>3
  <2> QED  BY <1>2, <1>7, <2>1, <2>4
<1> QED  BY <1>3, <1>5, <1>8 DEF FormOK

LEMMA FormKept ==
  ASSUME IInv, TheyWrite
  PROVE  FormOK'
<1>1. UNCHANGED <<pc, view, row, def, form, sample>> /\ pk \subseteq pk'
  BY DEF TheyWrite
<1>2. Link' = Link /\ \A r : Recognised(r)' = Recognised(r)
  BY <1>1 DEF Link, Recognised
<1>3. pk' = view.pk => pk = view.pk
  BY <1>1 DEF IInv, TabOK
<1> QED  BY <1>1, <1>2, <1>3 DEF IInv, FormOK

LEMMA FormSubmitted == IInv /\ Submit => FormOK'
<1> SUFFICES ASSUME IInv, Submit PROVE FormOK'
  OBVIOUS
<1>1. /\ UNCHANGED <<tbl, pk, view, row, sample>> /\ pc = "form" /\ pc' = "saving"
  BY DEF Submit, theirs
<1>2. Link' = Link /\ \A r : Recognised(r)' = Recognised(r)
  BY <1>1 DEF Link, Recognised
<1>3. \E t : DOMAIN t = DOMAIN form.shown /\ form' = [form EXCEPT !.typed = t]
  <2>1. \A c, v : DOMAIN [form.shown EXCEPT ![c] = v] = DOMAIN form.shown
    OBVIOUS
  <2>2. \A t \in [DOMAIN form.shown -> Typed] : DOMAIN t = DOMAIN form.shown
    OBVIOUS
  <2> QED  BY <2>1, <2>2 DEF Submit
<1>4. PICK t : /\ DOMAIN t = DOMAIN form.shown
               /\ form' = [shown |-> form.shown, hidden |-> form.hidden, typed |-> t]
  BY <1>3 DEF IInv, TabOK
<1>5. form'.shown = form.shown /\ form'.hidden = form.hidden /\ DOMAIN form'.typed = DOMAIN form.shown
  BY <1>4
<1> QED  BY <1>1, <1>2, <1>5 DEF IInv, FormOK

(* A save that the database refuses leads back to the form. *)
LEMMA FormRefused ==
  ASSUME IInv, pc = "saving", NEW stmt, Run(stmt, "form"), UNCHANGED row
  PROVE  FormOK'
<1>1. /\ UNCHANGED <<pk, view, row, form, sample>>
      /\ pc' = "done" \/ (pc' = "form" /\ UNCHANGED tbl)
  BY DEF Run
<1>2. Link' = Link /\ \A r : Recognised(r)' = Recognised(r)
  BY <1>1 DEF Link, Recognised
<1> QED  BY <1>1, <1>2 DEF IInv, FormOK

LEMMA Inductive == IInv /\ [Next]_vars => IInv'
<1> SUFFICES ASSUME IInv, [Next]_vars PROVE IInv'
  OBVIOUS
<1>1. CASE TheyWrite
  BY <1>1, TheyWriteInv, FormKept DEF IInv
<1>2. CASE ShowRows
  <2>1. FormOK'
    BY <1>2 DEF ShowRows, FormOK
  <2> QED  BY <1>2, <2>1, ShowRowsInv DEF IInv
<1>3. CASE OpenNew
  <2>1. FormOK'
    BY <1>3 DEF OpenNew, FormOK
  <2> QED  BY <1>3, <2>1, OpenInv DEF IInv
<1>4. CASE FetchRow
  BY <1>4, FetchRowInv, FormFetched DEF IInv
<1>5. CASE Submit
  BY <1>5, SubmitInv, FormSubmitted DEF IInv
<1>6. CASE SaveEdit
  <2>1. FormOK'
    BY <1>6, FormRefused DEF SaveEdit
  <2> QED  BY <1>6, <2>1, SaveEditInv DEF IInv
<1>7. CASE SaveNew
  <2>1. FormOK'
    BY <1>7, FormRefused DEF SaveNew
  <2> QED  BY <1>7, <2>1, SaveNewInv DEF IInv
<1>8. ASSUME NEW r \in Rows, OpenEdit(r) PROVE IInv'
  <2>1. FormOK'
    BY <1>8 DEF OpenEdit, FormOK
  <2> QED  BY <1>8, <2>1, OpenInv DEF IInv
<1>9. ASSUME NEW r \in Rows, DeleteClicked(r) PROVE IInv'
  <2>1. FormOK'
    BY <1>9 DEF DeleteClicked, Run, FormOK
  <2> QED  BY <1>9, <2>1, DeleteInv DEF IInv
<1>10. CASE UNCHANGED vars
  <2>1. Link' = Link /\ \A r : Recognised(r)' = Recognised(r)
    BY <1>10 DEF vars, Link, Recognised
  <2>2. TableOK' /\ TabOK' /\ FormOK'
    BY <1>10, <2>1 DEF vars, theirs, IInv, TableOK, TabOK, FormOK, KeyHolds, Present, FieldTexts
  <2> QED  BY <2>2 DEF IInv
<1> QED  BY <1>1, <1>2, <1>3, <1>4, <1>5, <1>6, <1>7, <1>8, <1>9, <1>10 DEF Next, Over

(* The table stays well formed and the tab holds what it says, always. *)
THEOREM Invariant == Spec => []IInv
<1> QED  BY InitInv, Inductive, PTL DEF Spec
-----------------------------------------------------------------------------
(***************************************************************************)
(* The properties.                                                         *)
(***************************************************************************)
(* Which statement was run in a step that ends with row-saved. *)
LEMMA SavedBy ==
  ASSUME IInv, [Next]_vars, Saves
  PROVE  \E stmt : /\ stmt.verb = "update" /\ tbl' \in Apply(stmt)
                   /\ Writes(stmt, AsRead(FormValues)) /\ Reaches(stmt, AsRead(FormPK))
                   /\ missed' = \A r \in Present(tbl) : ~Selects(stmt, tbl[r])
<1>1. SaveEdit
  BY DEF Next, Saves, TheyWrite, ShowRows, OpenNew, FetchRow, Submit, SaveNew, OpenEdit,
     DeleteClicked, Over, vars
<1>2. PICK k \in Kinds, so \in Orders(def.cols), wo \in Orders(def.pk) :
         Run(UpdateRow(k, Ref, AsRead(FormPK), AsRead(FormValues), so, wo), "form")
  BY <1>1 DEF SaveEdit
<1> DEFINE stmt == UpdateRow(k, Ref, AsRead(FormPK), AsRead(FormValues), so, wo)
<1>3. \/ stmt.verb = "none"
      \/ stmt.verb = "update" /\ Writes(stmt, AsRead(FormValues)) /\ Reaches(stmt, AsRead(FormPK))
  BY EditStatement
<1> HIDE DEF stmt
<1>4. /\ tbl' \in Apply(stmt)
      /\ missed' = \A r \in Present(tbl) : ~Selects(stmt, tbl[r])
  BY <1>2 DEF stmt, Run, Saves
<1> QED  BY <1>3, <1>4 DEF Apply

LEMMA AddedBy ==
  ASSUME IInv, [Next]_vars, Adds
  PROVE  \E stmt : stmt.verb = "insert" /\ tbl' \in Apply(stmt)
<1>1. SaveNew
  BY DEF Next, Adds, TheyWrite, ShowRows, OpenNew, FetchRow, Submit, SaveEdit, OpenEdit,
     DeleteClicked, Over, vars
<1>2. PICK k \in Kinds, so \in Orders(def.cols) :
         Run(InsertRow(k, Ref, AsRead(FormValues), so), "form")
  BY <1>1 DEF SaveNew
<1> DEFINE stmt == InsertRow(k, Ref, AsRead(FormValues), so)
<1>3. stmt.verb \in {"none", "insert"}
  BY NewStatement
<1> HIDE DEF stmt
<1>4. tbl' \in Apply(stmt)
  BY <1>2 DEF stmt, Run, Adds
<1> QED  BY <1>3, <1>4 DEF Apply

LEMMA DeletedBy ==
  ASSUME IInv, [Next]_vars, NEW q \in Rows, Deletes(q)
  PROVE  /\ q \in DOMAIN view.key /\ DOMAIN AsRead(DeletePK(q)) = view.pk
         /\ \E stmt : /\ stmt.verb = "delete" /\ tbl' \in Apply(stmt)
                      /\ Reaches(stmt, AsRead(DeletePK(q)))
                      /\ missed' = \A r \in Present(tbl) : ~Selects(stmt, tbl[r])
<1>1. DeleteClicked(q)
  BY DEF Next, Deletes, TheyWrite, ShowRows, OpenNew, FetchRow, Submit, SaveEdit, SaveNew,
     OpenEdit, DeleteClicked, Over, vars
<1>2. PICK k \in Kinds, wo \in Orders(view.pk) :
         Run(DeleteRow(k, Ref, AsRead(DeletePK(q)), wo), "page")
  BY <1>1 DEF DeleteClicked
<1> DEFINE stmt == DeleteRow(k, Ref, AsRead(DeletePK(q)), wo)
<1>3. /\ q \in DOMAIN view.key /\ DOMAIN AsRead(DeletePK(q)) = view.pk
      /\ \/ stmt.verb = "none"
         \/ stmt.verb = "delete" /\ Reaches(stmt, AsRead(DeletePK(q)))
  BY <1>1, DeleteStatement DEF DeleteClicked
<1> HIDE DEF stmt
<1>4. /\ tbl' \in Apply(stmt)
      /\ missed' = \A r \in Present(tbl) : ~Selects(stmt, tbl[r])
  BY <1>2 DEF stmt, Run, Deletes
<1> QED  BY <1>3, <1>4 DEF Apply

(* What changes has the values of the key. *)
LEMMA ChangedHasKey ==
  ASSUME TableOK, NEW stmt, stmt.verb \in {"update", "delete"}, tbl' \in Apply(stmt),
         NEW key, Reaches(stmt, key), NEW r \in Changed
  PROVE  r \in Present(tbl) /\ \A c \in DOMAIN key : c \in DOMAIN tbl[r] /\ tbl[r][c] = key[c]
<1>1. r \in Present(tbl) /\ Selects(stmt, tbl[r])
  BY DEF Apply, Changed
<1> QED  BY <1>1 DEF Reaches

(* And only one row has all the values of the whole key. *)
LEMMA KeyIsUnique ==
  ASSUME TableOK, NEW key, DOMAIN key = pk,
         NEW r \in Present(tbl), NEW q \in Present(tbl),
         \A c \in pk : key[c] \in Cells /\ tbl[r][c] = key[c] /\ tbl[q][c] = key[c]
  PROVE  r = q
<1>1. KeyOf(tbl[r], pk) = KeyOf(tbl[q], pk) /\ \A c \in pk : tbl[r][c] # Null
  BY NullAssumption DEF KeyOf
<1> QED  BY <1>1 DEF TableOK, KeyHolds

LEMMA AtMostOne == ASSUME NEW S, \A x, y \in S : x = y PROVE Cardinality(S) <= 1
<1>1. CASE S = {}
  BY <1>1, FS_EmptySet
<1>2. CASE S # {}
  <2>1. PICK x : S = {x}
    BY <1>2
  <2>2. Cardinality({x}) = 1
    BY FS_Singleton
  <2> QED  BY <2>1, <2>2
<1> QED  BY <1>1, <1>2

(* OneRowAtMost: a click changes one row at most, unless the key is wider  *)
(* than its handler knows; and a delete only rows with the key clicked.    *)
THEOREM OneRow == Spec => OneRowAtMost
<1>1. ASSUME IInv, [Next]_vars, Saves
      PROVE  Cardinality(Changed) <= 1 \/ pk # def.pk
  <2>1. SUFFICES ASSUME pk = def.pk, NEW r \in Changed, NEW q \in Changed PROVE r = q
    BY AtMostOne
  <2>2. PICK stmt : /\ stmt.verb = "update" /\ tbl' \in Apply(stmt)
                    /\ Reaches(stmt, AsRead(FormPK))
    BY <1>1, SavedBy
  <2>3. DOMAIN AsRead(FormPK) = pk /\ \A c \in pk : AsRead(FormPK)[c] \in Cells
    BY <1>1, <2>1, FormTyped
  <2>4. /\ r \in Present(tbl) /\ \A c \in pk : tbl[r][c] = AsRead(FormPK)[c]
        /\ q \in Present(tbl) /\ \A c \in pk : tbl[q][c] = AsRead(FormPK)[c]
    BY <1>1, <2>2, <2>3, ChangedHasKey DEF IInv
  <2> QED  BY <1>1, <2>3, <2>4, KeyIsUnique DEF IInv
<1>2. ASSUME IInv, [Next]_vars, Adds, NEW r \in Changed PROVE tbl[r] = Absent
  BY <1>2, AddedBy DEF Apply, Changed, Present, IInv, TableOK
<1>3. ASSUME IInv, [Next]_vars, NEW q \in Rows, Deletes(q)
      PROVE  /\ Cardinality(Changed) <= 1 \/ Widened
             /\ \A r \in Changed : KeyOf(tbl[r], view.pk) = AsRead(DeletePK(q))
  <2> DEFINE key == AsRead(DeletePK(q))
  <2>1. PICK stmt : /\ stmt.verb = "delete" /\ tbl' \in Apply(stmt)
                    /\ Reaches(stmt, key)
    BY <1>3, DeletedBy
  <2>2. DOMAIN key = view.pk /\ \A c \in view.pk : key[c] \in Cells
    BY <1>3, DeletedBy, DeleteTyped
  <2>3. ASSUME NEW r \in Changed
        PROVE  r \in Present(tbl) /\ \A c \in view.pk : tbl[r][c] = key[c]
    BY <1>3, <2>1, <2>2, ChangedHasKey DEF IInv
  <2>4. key = [c \in view.pk |-> key[c]]
    BY <2>2 DEF AsRead
  <2> HIDE DEF key
  <2>5. \A r \in Changed : KeyOf(tbl[r], view.pk) = key
    BY <2>3, <2>4 DEF KeyOf
  <2>6. ASSUME ~Widened, NEW r \in Changed, NEW p \in Changed PROVE r = p
    BY <1>3, <2>2, <2>3, <2>6, KeyIsUnique DEF Widened, IInv
  <2>7. Cardinality(Changed) <= 1 \/ Widened
    BY <2>6, AtMostOne
  <2> QED  BY <2>5, <2>7 DEF key
<1>4. IInv /\ [Next]_vars => OneRowPerClick
  BY <1>1, <1>2, <1>3 DEF OneRowPerClick
<1> QED  BY <1>4, Invariant, PTL DEF Spec, OneRowAtMost

(* With the page's key whole, unmoved and not widened, what the database   *)
(* reads in the form, or in the delete button, is the key of the row       *)
(* clicked.                                                                *)
LEMMA HiddenKey ==
  ASSUME IInv, Saves, ~LinkMangled, ~KeyMoved(row), ~Widened
  PROVE  /\ row \in Present(tbl) /\ DOMAIN AsRead(FormPK) = pk
         /\ \A c \in pk : c \in DOMAIN tbl[row] /\ tbl[row][c] = AsRead(FormPK)[c]
<1>1. /\ pc = "saving" /\ row # Absent /\ row \in DOMAIN view.key /\ pk = view.pk
      /\ def.pk = pk
  BY DEF Saves, Widened, IInv, TabOK, FormOK
<1>2. row \in Present(tbl)
  <2>1. tbl[row] # Absent
    BY DEF KeyMoved
  <2>2. row \in Rows
    BY <1>1 DEF IInv, TabOK
  <2> QED  BY <2>1, <2>2 DEF Present
<1>3. ASSUME NEW c \in pk
      PROVE  c \in DOMAIN tbl[row] /\ tbl[row][c] = AsRead(FormPK)[c]
  <2>1. tbl[row] \in [cols -> Cells \cup {Null}] /\ c \in cols
    BY <1>2, PresentTyped DEF IInv, TableOK, Contents
  <2>2. tbl[row][c] = view.key[row][c]
    BY <1>1 DEF KeyMoved, KeyOf
  <2>3. Stored[Link[c]] = view.key[row][c]
    BY <1>1 DEF LinkMangled
  <2>4. FormPK[c] = Link[c] /\ c \in DOMAIN FormPK
    BY <1>1 DEF FormPK, Cell, IInv, FormOK
  <2>5. AsRead(FormPK)[c] = Stored[Link[c]]
    BY <2>4 DEF AsRead
  <2> QED  BY <2>1, <2>2, <2>3, <2>5
<1> QED  BY <1>1, <1>2, <1>3, FormTyped

LEMMA ButtonKey ==
  ASSUME IInv, NEW q \in DOMAIN view.key, ~FieldMangled(q), ~KeyMoved(q)
  PROVE  /\ q \in Present(tbl)
         /\ \A c \in view.pk : c \in DOMAIN tbl[q] /\ tbl[q][c] = AsRead(DeletePK(q))[c]
<1>1. q \in Present(tbl)
  BY DEF KeyMoved, Present, IInv, TabOK
<1>2. ASSUME NEW c \in view.pk
      PROVE  c \in DOMAIN tbl[q] /\ tbl[q][c] = AsRead(DeletePK(q))[c]
  <2>1. tbl[q] \in [cols -> Cells \cup {Null}] /\ c \in cols
    BY <1>1, PresentTyped DEF IInv, TableOK, TabOK, Contents
  <2>2. tbl[q][c] = view.key[q][c]
    BY DEF KeyMoved, KeyOf
  <2>3. AsRead(DeletePK(q))[c] = Stored[DeletePK(q)[c]]
    BY DEF AsRead, DeletePK
  <2> QED  BY <2>1, <2>2, <2>3 DEF FieldMangled
<1> QED  BY <1>1, <1>2

(* EditsRowClicked: a save or a delete changes no row but the one whose    *)
(* button was clicked, unless the key was mangled, moved or widened on the *)
(* way.                                                                    *)
THEOREM RightRow == Spec => EditsRowClicked
<1>1. ASSUME IInv, [Next]_vars, Saves, ~LinkMangled, ~KeyMoved(row), ~Widened,
             NEW r \in Changed
      PROVE  r = row
  <2>1. PICK stmt : /\ stmt.verb = "update" /\ tbl' \in Apply(stmt)
                    /\ Reaches(stmt, AsRead(FormPK))
    BY <1>1, SavedBy
  <2>2. /\ row \in Present(tbl) /\ DOMAIN AsRead(FormPK) = pk
        /\ \A c \in pk : tbl[row][c] = AsRead(FormPK)[c]
    BY <1>1, HiddenKey
  <2>3. r \in Present(tbl) /\ \A c \in pk : tbl[r][c] = AsRead(FormPK)[c]
    BY <1>1, <2>1, <2>2, ChangedHasKey DEF IInv
  <2>4. \A c \in pk : AsRead(FormPK)[c] \in Cells
    BY <1>1, <2>2, FormTyped
  <2> QED  BY <1>1, <2>2, <2>3, <2>4, KeyIsUnique DEF IInv
<1>2. ASSUME IInv, [Next]_vars, NEW q \in Rows, Deletes(q), ~FieldMangled(q),
             ~KeyMoved(q), ~Widened, NEW r \in Changed
      PROVE  r = q
  <2>1. PICK stmt : /\ stmt.verb = "delete" /\ tbl' \in Apply(stmt)
                    /\ Reaches(stmt, AsRead(DeletePK(q)))
    BY <1>2, DeletedBy
  <2>2. /\ DOMAIN AsRead(DeletePK(q)) = pk /\ q \in DOMAIN view.key /\ pk = view.pk
        /\ \A c \in pk : AsRead(DeletePK(q))[c] \in Cells
    BY <1>2, DeletedBy, DeleteTyped DEF Widened
  <2>3. q \in Present(tbl) /\ \A c \in pk : tbl[q][c] = AsRead(DeletePK(q))[c]
    BY <1>2, <2>2, ButtonKey
  <2>4. r \in Present(tbl) /\ \A c \in pk : tbl[r][c] = AsRead(DeletePK(q))[c]
    BY <1>2, <2>1, <2>2, ChangedHasKey DEF IInv
  <2> QED  BY <1>2, <2>2, <2>3, <2>4, KeyIsUnique DEF IInv
<1>3. IInv /\ [Next]_vars => ClickHitsRow
  BY <1>1, <1>2 DEF ClickHitsRow
<1> QED  BY <1>3, Invariant, PTL DEF Spec, EditsRowClicked

(* SavedMeansWritten: a statement that matched no row is due to a key that *)
(* was mangled, moved or widened.                                          *)
THEOREM NotMissed == Spec => SavedMeansWritten
<1>1. ASSUME IInv, [Next]_vars, Saves, missed', ~LinkMangled, ~KeyMoved(row), ~Widened
      PROVE  FALSE
  <2>1. PICK stmt : /\ Reaches(stmt, AsRead(FormPK))
                    /\ missed' = \A r \in Present(tbl) : ~Selects(stmt, tbl[r])
    BY <1>1, SavedBy
  <2>2. /\ row \in Present(tbl) /\ DOMAIN AsRead(FormPK) = pk
        /\ \A c \in pk : c \in DOMAIN tbl[row] /\ tbl[row][c] = AsRead(FormPK)[c]
    BY <1>1, HiddenKey
  <2>3. Selects(stmt, tbl[row])
    BY <2>1, <2>2 DEF Reaches
  <2> QED  BY <1>1, <2>1, <2>2, <2>3
<1>2. ASSUME IInv, [Next]_vars, NEW q \in Rows, Deletes(q), missed', ~FieldMangled(q),
             ~KeyMoved(q)
      PROVE  FALSE
  <2>1. PICK stmt : /\ Reaches(stmt, AsRead(DeletePK(q)))
                    /\ missed' = \A r \in Present(tbl) : ~Selects(stmt, tbl[r])
    BY <1>2, DeletedBy
  <2>2. q \in DOMAIN view.key /\ DOMAIN AsRead(DeletePK(q)) = view.pk
    BY <1>2, DeletedBy
  <2>3. /\ q \in Present(tbl)
        /\ \A c \in view.pk : c \in DOMAIN tbl[q] /\ tbl[q][c] = AsRead(DeletePK(q))[c]
    BY <1>2, <2>2, ButtonKey
  <2>4. Selects(stmt, tbl[q])
    BY <2>1, <2>2, <2>3 DEF Reaches
  <2> QED  BY <1>2, <2>1, <2>3, <2>4
<1>3. IInv /\ [Next]_vars => MissExplained
  BY <1>1, <1>2 DEF MissExplained
<1> QED  BY <1>3, Invariant, PTL DEF Spec, SavedMeansWritten

(* UntouchedKept: a column the user did not touch changes only because it  *)
(* was NULL, because its type does not come back from the form, or for one *)
(* of the reasons why the form does not show the row as it is.             *)
THEOREM RestKept == Spec => UntouchedKept
<1>1. ASSUME IInv, [Next]_vars, Saves, NEW r \in Changed, NEW c \in DOMAIN tbl[r],
             tbl'[r][c] # tbl[r][c], ~Widened, Recognised(r), sample[r][c] = tbl[r][c],
             c \in DOMAIN form.typed, form.typed[c] = form.shown[c]
      PROVE  tbl'[r][c] = Stored[Stringify(tbl[r][c])]
  <2>1. PICK stmt : /\ stmt.verb = "update" /\ tbl' \in Apply(stmt)
                    /\ Writes(stmt, AsRead(FormValues)) /\ Reaches(stmt, AsRead(FormPK))
    BY <1>1, SavedBy
  <2>2. r \in Present(tbl) /\ Selects(stmt, tbl[r])
    BY <2>1 DEF Apply, Changed
  <2>3. tbl'[r] = Put(AsRead(FormValues), tbl[r])
    <3>1. NewValues(stmt) = AsRead(FormValues)
      BY <1>1, <2>1 DEF Writes, AsRead
    <3> QED  BY <1>1, <2>1, <2>2, <3>1 DEF Apply, Changed
  <2>4. c \in def.cols /\ tbl'[r][c] = AsRead(FormValues)[c]
    BY <1>1, <2>3, FormTyped DEF Put
  <2>5. tbl'[r][c] = Stored[form.shown[c]]
    BY <1>1, <2>4 DEF FormValues, Cell, AsRead
  <2>6. form.shown[c] = Stringify(sample[r][c])
    BY <1>1 DEF Saves, Widened, IInv, FormOK, Recognised
  <2> QED  BY <1>1, <2>5, <2>6
<1>2. \A v : v = Null => Stringify(v) = ""
  BY DEF Stringify
<1>3. IInv /\ [Next]_vars => SaveKeepsRest
  BY <1>1, <1>2, FaithfulCell DEF SaveKeepsRest
<1> QED  BY <1>3, Invariant, PTL DEF Spec, UntouchedKept

-----------------------------------------------------------------------------
(***************************************************************************)
(* SqlText.  Its operators walk along a sequence with a recursive          *)
(* function. Of each, a lemma "Unfold" shows that such a function exists   *)
(* and satisfies its own equations; what it computes follows by induction  *)
(* on the place in the sequence.                                           *)
(***************************************************************************)

(* Induction over a set: the least number outside of it would follow one   *)
(* inside.                                                                 *)
LEMMA Induct ==
    ASSUME NEW T, 0 \in T, \A n \in Nat : n \in T => n + 1 \in T
    PROVE  \A n \in Nat : n \in T
<1> DEFINE R == OpToRel(<, Nat)
           Rest == Nat \ T
<1>1. IsWellFoundedOn(R, Nat)
  BY NatLessThanWellFounded, Zenon
<1>2. \A a, b \in Nat : a < b => <<a, b>> \in R
  BY Zenon DEF OpToRel
<1> SUFFICES ASSUME Rest # {} PROVE FALSE
  OBVIOUS
<1> HIDE DEF R
<1>3. PICK m \in Rest : \A k \in Rest : ~(<<k, m>> \in R)
  <2>1. Rest \subseteq Nat
    OBVIOUS
  <2> HIDE DEF Rest
  <2> QED  BY <1>1, <2>1, WFMin, Zenon
<1>4. m \in Nat \ {0}
  BY <1>3
<1>5. m - 1 \in Nat /\ m - 1 < m /\ (m - 1) + 1 = m
  BY <1>4
<1>6. m - 1 \in Rest
  BY <1>3, <1>5
<1> QED  BY <1>2, <1>3, <1>4, <1>5, <1>6

-----------------------------------------------------------------------------
(* What Positions does with one number. *)
PositionsBody(up, i, S) ==
    CASE i = 0 -> <<>>
      [] i # 0 /\ i \in S -> Append(up[i - 1], i)
      [] OTHER -> up[i - 1]

(* A function that satisfies the recursion exists: it grows by one number  *)
(* at a time.                                                              *)
LEMMA PositionsExists ==
    ASSUME NEW S, NEW n \in Nat
    PROVE  \E up : up = [i \in 0..n |-> PositionsBody(up, i, S)]
<1> DEFINE Good(m) == \E up : up = [i \in 0..m |-> PositionsBody(up, i, S)]
           T == {m \in Nat : Good(m)}
<1>1. 0 \in T
  <2> DEFINE up == [i \in 0..0 |-> <<>>]
  <2>1. up = [i \in 0..0 |-> PositionsBody(up, i, S)]
    BY DEF PositionsBody
  <2> QED  BY <2>1
<1>2. ASSUME NEW m \in Nat, m \in T
      PROVE  m + 1 \in T
  <2>1. PICK f : f = [i \in 0..m |-> PositionsBody(f, i, S)]
    BY <1>2
  <2> DEFINE g == [i \in 0..(m + 1) |-> IF i <= m THEN f[i] ELSE PositionsBody(f, i, S)]
  <2>2. ASSUME NEW i \in 0..(m + 1)
        PROVE  g[i] = PositionsBody(g, i, S)
    <3>1. CASE i = 0
      <4>1. f[0] = <<>>
        BY <2>1 DEF PositionsBody
      <4> QED  BY <3>1, <4>1 DEF PositionsBody
    <3>2. CASE i # 0
      <4>1. i - 1 \in 0..m /\ i - 1 \in 0..(m + 1) /\ i - 1 <= m
        BY <3>2
      <4>2. g[i - 1] = f[i - 1]
        BY <4>1
      <4>3. g[i] = PositionsBody(f, i, S)
        <5>1. CASE i <= m
          <6>1. i \in 0..m
            BY <5>1
          <6> QED  BY <2>1, <5>1, <6>1
        <5> QED  BY <5>1
      <4> HIDE DEF g
      <4> QED  BY <3>2, <4>2, <4>3 DEF PositionsBody
    <3> QED  BY <3>1, <3>2
  <2>3. g = [i \in 0..(m + 1) |-> g[i]]
    OBVIOUS
  <2> HIDE DEF g
  <2>4. g = [i \in 0..(m + 1) |-> PositionsBody(g, i, S)]
    BY <2>2, <2>3, Zenon
  <2> QED  BY <2>4
<1> HIDE DEF T
<1>3. \A m \in Nat : m \in T
  BY <1>1, <1>2, Induct
<1> QED  BY <1>3 DEF T

(* So the function that Positions defines satisfies its own recursion. *)
LEMMA PositionsUnfold ==
    ASSUME NEW S, NEW n \in Nat
    PROVE  \E up : /\ Positions(n, S) = up[n]
                   /\ \A i \in 0..n : up[i] = PositionsBody(up, i, S)
<1> DEFINE up == CHOOSE up : up = [i \in 0..n |-> PositionsBody(up, i, S)]
<1>1. Positions(n, S) = up[n]
  BY Zenon DEF Positions, PositionsBody
<1>2. up = [i \in 0..n |-> PositionsBody(up, i, S)]
  BY PositionsExists, Zenon
<1> HIDE DEF up
<1> QED  BY <1>1, <1>2

(* Positions grows by n + 1 if that is a member, and by nothing else. *)
LEMMA PositionsStep ==
    ASSUME NEW S
    PROVE  /\ Positions(0, S) = <<>>
           /\ \A n \in Nat : Positions(n + 1, S) =
                 IF n + 1 \in S THEN Append(Positions(n, S), n + 1) ELSE Positions(n, S)
<1>1. Positions(0, S) = <<>>
  BY PositionsUnfold DEF PositionsBody
<1>2. ASSUME NEW n \in Nat
      PROVE  Positions(n + 1, S) =
                IF n + 1 \in S THEN Append(Positions(n, S), n + 1) ELSE Positions(n, S)
  <2>1. PICK f : /\ Positions(n, S) = f[n]
                 /\ \A i \in 0..n : f[i] = PositionsBody(f, i, S)
    BY PositionsUnfold
  <2>2. PICK g : /\ Positions(n + 1, S) = g[n + 1]
                 /\ \A i \in 0..(n + 1) : g[i] = PositionsBody(g, i, S)
    BY PositionsUnfold
  <2> DEFINE T == {i \in Nat : i <= n => f[i] = g[i]}
  <2>3. 0 \in T
    BY <2>1, <2>2 DEF PositionsBody
  <2>4. ASSUME NEW i \in Nat, i \in T
        PROVE  i + 1 \in T
    <3>1. SUFFICES ASSUME i + 1 <= n PROVE f[i + 1] = g[i + 1]
      OBVIOUS
    <3>2. i + 1 \in 0..n /\ i + 1 \in 0..(n + 1) /\ (i + 1) - 1 = i /\ i + 1 # 0 /\ i <= n
      BY <3>1
    <3>3. f[i] = g[i]
      BY <2>4, <3>2
    <3> QED  BY <2>1, <2>2, <3>2, <3>3 DEF PositionsBody
  <2> HIDE DEF T
  <2>5. \A i \in Nat : i \in T
    BY <2>3, <2>4, Induct
  <2>6. f[n] = g[n]
    BY <2>5 DEF T
  <2>7. n + 1 \in 0..(n + 1) /\ (n + 1) - 1 = n /\ n + 1 # 0
    OBVIOUS
  <2> QED  BY <2>1, <2>2, <2>6, <2>7 DEF PositionsBody
<1> QED  BY <1>1, <1>2

(* The positions of S are its members up to n, each of them, in increasing *)
(* order.                                                                  *)
LEMMA PositionsAre ==
    ASSUME NEW S, NEW n \in Nat
    PROVE  LET p == Positions(n, S)
           IN /\ p \in Seq(1..n)
              /\ \A k \in 1..Len(p) : p[k] \in 1..n /\ p[k] \in S
              /\ \A k \in 1..Len(p) : \A j \in 1..(k - 1) : p[j] < p[k]
              /\ \A i \in 1..n : i \in S => \E k \in 1..Len(p) : p[k] = i
<1> DEFINE P(m) == Positions(m, S)
           Good(m) == /\ P(m) \in Seq(1..m)
                      /\ \A k \in 1..Len(P(m)) : P(m)[k] \in 1..m /\ P(m)[k] \in S
                      /\ \A k \in 1..Len(P(m)) : \A j \in 1..(k - 1) : P(m)[j] < P(m)[k]
                      /\ \A i \in 1..m : i \in S => \E k \in 1..Len(P(m)) : P(m)[k] = i
           T == {m \in Nat : Good(m)}
<1>1. 0 \in T
  <2>1. P(0) = <<>>
    BY PositionsStep
  <2> HIDE DEF P
  <2>2. Len(P(0)) = 0 /\ P(0) \in Seq(1..0)
    BY <2>1, EmptySeq, Zenon
  <2>3. 1..0 = {}
    OBVIOUS
  <2> QED  BY <2>2, <2>3
<1>2. ASSUME NEW m \in Nat, m \in T
      PROVE  m + 1 \in T
  <2> DEFINE p == P(m)
             q == P(m + 1)
  <2>1. q = IF m + 1 \in S THEN Append(p, m + 1) ELSE p
    BY PositionsStep
  <2>2. /\ p \in Seq(1..m)
        /\ \A k \in 1..Len(p) : p[k] \in 1..m /\ p[k] \in S
        /\ \A k \in 1..Len(p) : \A j \in 1..(k - 1) : p[j] < p[k]
        /\ \A i \in 1..m : i \in S => \E k \in 1..Len(p) : p[k] = i
    BY <1>2
  <2> SUFFICES /\ q \in Seq(1..(m + 1))
               /\ \A k \in 1..Len(q) : q[k] \in 1..(m + 1) /\ q[k] \in S
               /\ \A k \in 1..Len(q) : \A j \in 1..(k - 1) : q[j] < q[k]
               /\ \A i \in 1..(m + 1) : i \in S => \E k \in 1..Len(q) : q[k] = i
    OBVIOUS
  <2> HIDE DEF P, p, q
  <2>3. p \in Seq(1..(m + 1)) /\ Len(p) \in Nat
    <3>1. 1..m \subseteq 1..(m + 1)
      OBVIOUS
    <3> QED  BY <2>2, <3>1, SeqMonotonic, LenProperties
  <2>4. CASE m + 1 \notin S
    <3>1. q = p
      BY <2>1, <2>4
    <3>2. \A i \in 1..(m + 1) : i \in S => i \in 1..m
      BY <2>4
    <3> QED  BY <2>2, <2>3, <3>1, <3>2
  <2>5. CASE m + 1 \in S
    <3>1. /\ q \in Seq(1..(m + 1)) /\ Len(q) = Len(p) + 1
          /\ \A k \in 1..Len(p) : q[k] = p[k]
          /\ q[Len(p) + 1] = m + 1
      <4>1. q = Append(p, m + 1) /\ m + 1 \in 1..(m + 1)
        BY <2>1, <2>5
      <4> QED  BY <2>3, <4>1, AppendProperties
    <3>2. ASSUME NEW k \in 1..Len(q)
          PROVE  /\ q[k] \in 1..(m + 1) /\ q[k] \in S
                 /\ \A j \in 1..(k - 1) : q[j] < q[k]
      <4>1. CASE k \in 1..Len(p)
        <5>1. \A j \in 1..(k - 1) : j \in 1..Len(p)
          BY <2>3, <4>1
        <5>2. q[k] \in 1..m /\ q[k] \in S /\ \A j \in 1..(k - 1) : p[j] < p[k]
          BY <2>2, <3>1, <4>1
        <5>3. \A i \in 1..m : i \in 1..(m + 1)
          OBVIOUS
        <5> QED  BY <3>1, <4>1, <5>1, <5>2, <5>3
      <4>2. CASE k = Len(p) + 1
        <5>1. \A j \in 1..(k - 1) : j \in 1..Len(p) /\ q[j] \in 1..m
          <6>1. \A j \in 1..(k - 1) : j \in 1..Len(p)
            BY <2>3, <4>2
          <6> QED  BY <2>2, <3>1, <6>1
        <5>2. q[k] = m + 1 /\ \A i \in 1..m : i < m + 1
          BY <3>1, <4>2
        <5> QED  BY <2>5, <5>1, <5>2
      <4> QED  BY <2>3, <3>1, <4>1, <4>2
    <3>3. ASSUME NEW i \in 1..(m + 1), i \in S
          PROVE  \E k \in 1..Len(q) : q[k] = i
      <4>1. CASE i \in 1..m
        <5>1. PICK k \in 1..Len(p) : p[k] = i
          BY <2>2, <3>3, <4>1
        <5> QED  BY <2>3, <3>1, <5>1
      <4>2. CASE i = m + 1
        BY <2>3, <3>1, <4>2
      <4> QED  BY <4>1, <4>2
    <3> QED  BY <3>1, <3>2, <3>3
  <2> QED  BY <2>4, <2>5
<1> HIDE DEF T
<1>3. \A m \in Nat : m \in T
  BY <1>1, <1>2, Induct
<1> QED  BY <1>3 DEF T

(* Only the members between 1 and n count. *)
LEMMA PositionsAgree ==
    ASSUME NEW R, NEW S, NEW n \in Nat, \A i \in 1..n : i \in R <=> i \in S
    PROVE  Positions(n, R) = Positions(n, S)
<1> DEFINE T == {m \in Nat : m <= n => Positions(m, R) = Positions(m, S)}
<1>1. 0 \in T
  BY PositionsStep
<1>2. ASSUME NEW m \in Nat, m \in T
      PROVE  m + 1 \in T
  <2>1. SUFFICES ASSUME m + 1 <= n PROVE Positions(m + 1, R) = Positions(m + 1, S)
    OBVIOUS
  <2>2. m + 1 \in 1..n /\ m <= n
    BY <2>1
  <2> QED  BY <1>2, <2>2, PositionsStep
<1> HIDE DEF T
<1>3. \A m \in Nat : m \in T
  BY <1>1, <1>2, Induct
<1> QED  BY <1>3 DEF T

(* What Pick returns: the elements at the positions. *)
LEMMA PickIs ==
    ASSUME NEW V, NEW s \in Seq(V), NEW S
    PROVE  LET p == Positions(Len(s), S)
           IN /\ Pick(s, S) = [k \in 1..Len(p) |-> s[p[k]]]
              /\ Pick(s, S) \in Seq(V) /\ Len(Pick(s, S)) = Len(p)
              /\ DOMAIN Pick(s, S) = 1..Len(p)
<1> DEFINE p == Positions(Len(s), S)
<1>1. Len(s) \in Nat
  BY LenProperties
<1>2. /\ p \in Seq(1..Len(s)) /\ Len(p) \in Nat /\ DOMAIN p = 1..Len(p)
      /\ \A k \in 1..Len(p) : p[k] \in 1..Len(s)
  BY <1>1, PositionsAre, LenProperties
<1>3. Pick(s, S) = [k \in 1..Len(p) |-> s[p[k]]]
  BY <1>2 DEF Pick
<1> HIDE DEF p
<1>4. \A k \in 1..Len(p) : s[p[k]] \in V
  BY <1>2, ElementOfSeq
<1> QED  BY <1>2, <1>3, <1>4 DEF p

(* A blank at the end goes away; the one before it decides the rest. *)
LEMMA WithoutBlankEnd ==
    ASSUME NEW V, NEW s \in Seq(V), NEW blank \in V
    PROVE  Without(Append(s, blank), blank) = Without(s, blank)
<1> DEFINE t == Append(s, blank)
           n == Len(s)
           R == {i \in DOMAIN t : t[i] # blank}
           S == {i \in DOMAIN s : s[i] # blank}
<1>1. /\ n \in Nat /\ DOMAIN s = 1..n
      /\ t \in Seq(V) /\ Len(t) = n + 1 /\ DOMAIN t = 1..(n + 1)
      /\ \A i \in 1..n : t[i] = s[i]
      /\ t[n + 1] = blank
  BY AppendProperties, LenProperties
<1> HIDE DEF t
<1>2. \A i \in 1..n : i \in R <=> i \in S
  BY <1>1
<1>3. n + 1 \notin R
  BY <1>1
<1> HIDE DEF R, S
<1>4. Positions(n + 1, R) = Positions(n, S)
  <2>1. Positions(n + 1, R) = Positions(n, R)
    BY <1>1, <1>3, PositionsStep
  <2> QED  BY <1>1, <1>2, <2>1, PositionsAgree
<1> DEFINE p == Positions(n, S)
<1>5. /\ Pick(t, R) = [k \in 1..Len(p) |-> t[p[k]]]
      /\ Pick(s, S) = [k \in 1..Len(p) |-> s[p[k]]]
  BY <1>1, <1>4, PickIs
<1>6. \A k \in 1..Len(p) : p[k] \in 1..n
  BY <1>1, PositionsAre
<1> HIDE DEF p
<1>7. Pick(t, R) = Pick(s, S)
  BY <1>1, <1>5, <1>6
<1> QED  BY <1>7 DEF Without, t, R, S

-----------------------------------------------------------------------------
(***************************************************************************)
(* splitSQL: its loop, after i characters.                                 *)
(***************************************************************************)
SplitStart == [out |-> <<>>, cur |-> <<>>, inS |-> FALSE, inD |-> FALSE]
(* after[i] is the state of the loop when i characters have been read. *)
SplitLoop(after, s) ==
    \A i \in 0..Len(s) :
        after[i] = IF i = 0 THEN SplitStart ELSE SplitStep(after[i - 1], s[i])

(* splitSQL is the state after the last character, with the open piece if  *)
(* it is not blank: the recursive function of the model is a run of the    *)
(* loop.                                                                   *)
LEMMA SplitUnfold ==
    ASSUME NEW C, NEW s \in Seq(C)
    PROVE  \E after : /\ SplitLoop(after, s)
                      /\ SplitSQL(s) = IF TrimSpace(after[Len(s)].cur) # <<>>
                                       THEN Append(after[Len(s)].out, after[Len(s)].cur)
                                       ELSE after[Len(s)].out
<1> DEFINE n == Len(s)
           Body(f, i) == IF i = 0 THEN SplitStart ELSE SplitStep(f[i - 1], s[i])
           Good(m) == \E f : f = [i \in 0..m |-> Body(f, i)]
           T == {m \in Nat : Good(m)}
<1>1. 0 \in T
  <2> DEFINE f == [i \in 0..0 |-> SplitStart]
  <2>1. f = [i \in 0..0 |-> Body(f, i)]
    OBVIOUS
  <2> QED  BY <2>1
<1>2. ASSUME NEW m \in Nat, m \in T
      PROVE  m + 1 \in T
  <2>1. PICK f : f = [i \in 0..m |-> Body(f, i)]
    BY <1>2
  <2> DEFINE g == [i \in 0..(m + 1) |-> IF i <= m THEN f[i] ELSE Body(f, i)]
  <2>2. ASSUME NEW i \in 0..(m + 1)
        PROVE  g[i] = Body(g, i)
    <3>1. CASE i = 0
      BY <2>1, <3>1
    <3>2. CASE i # 0
      <4>1. i - 1 \in 0..m /\ i - 1 \in 0..(m + 1) /\ i - 1 <= m
        BY <3>2
      <4>2. g[i - 1] = f[i - 1]
        BY <4>1
      <4>3. g[i] = Body(f, i)
        <5>1. CASE i <= m
          <6>1. i \in 0..m
            BY <5>1
          <6> QED  BY <2>1, <5>1, <6>1
        <5> QED  BY <5>1
      <4> HIDE DEF g
      <4> QED  BY <3>2, <4>2, <4>3
    <3> QED  BY <3>1, <3>2
  <2>3. g = [i \in 0..(m + 1) |-> g[i]]
    OBVIOUS
  <2> HIDE DEF g
  <2>4. g = [i \in 0..(m + 1) |-> Body(g, i)]
    BY <2>2, <2>3, Zenon
  <2>5. Good(m + 1)
    BY <2>4, Zenon
  <2> HIDE DEF Good
  <2> QED  BY <2>5
<1> HIDE DEF T
<1>3. n \in Nat /\ \A m \in Nat : m \in T
  BY <1>1, <1>2, Induct, LenProperties
<1> DEFINE after == CHOOSE f : f = [i \in 0..n |-> Body(f, i)]
<1>4. after = [i \in 0..n |-> Body(after, i)]
  <2>1. Good(n)
    BY <1>3 DEF T
  <2> QED  BY <2>1, Zenon
<1>5. SplitSQL(s) = IF TrimSpace(after[n].cur) # <<>>
                    THEN Append(after[n].out, after[n].cur) ELSE after[n].out
  BY Zenon DEF SplitSQL, SplitStart
<1> HIDE DEF after
<1>6. SplitLoop(after, s)
  BY <1>4 DEF SplitLoop
<1> QED  BY <1>5, <1>6

(* The states of the loop over characters in C. *)
SplitState(C) == [out : Seq(Seq(C)), cur : Seq(C), inS : BOOLEAN, inD : BOOLEAN]

(* One character, field by field. *)
LEMMA SplitStepIs ==
    ASSUME NEW C, NEW acc \in SplitState(C), NEW c \in C
    PROVE  LET st == SplitStep(acc, c)
               cuts == c = ";" /\ ~acc.inS /\ ~acc.inD
           IN /\ st \in SplitState(C)
              /\ st.out = IF cuts THEN Append(acc.out, acc.cur) ELSE acc.out
              /\ st.cur = IF cuts THEN <<>> ELSE Append(acc.cur, c)
              /\ st.inS <=> IF c = SQ /\ ~acc.inD THEN ~acc.inS ELSE acc.inS
              /\ st.inD <=> IF c = DQ /\ ~acc.inS THEN ~acc.inD ELSE acc.inD
<1> DEFINE st == SplitStep(acc, c)
           is(o, u, a, b) == st = [out |-> o, cur |-> u, inS |-> a, inD |-> b]
<1>1. SQ # DQ /\ SQ # ";" /\ DQ # ";"
  BY DEF SQ, DQ
<1>2. /\ acc = [out |-> acc.out, cur |-> acc.cur, inS |-> acc.inS, inD |-> acc.inD]
      /\ acc.out \in Seq(Seq(C)) /\ acc.cur \in Seq(C)
      /\ acc.inS \in BOOLEAN /\ acc.inD \in BOOLEAN
  BY DEF SplitState
<1>3. /\ Append(acc.cur, c) \in Seq(C) /\ Append(acc.out, acc.cur) \in Seq(Seq(C))
      /\ <<>> \in Seq(C)
  BY <1>2, AppendProperties, EmptySeq
<1>4. \A o \in Seq(Seq(C)), u \in Seq(C), a, b \in BOOLEAN :
         is(o, u, a, b) => /\ st \in SplitState(C)
                           /\ st.out = o /\ st.cur = u /\ (st.inS <=> a) /\ (st.inD <=> b)
  BY DEF SplitState
<1>5. CASE c = SQ /\ ~acc.inD
  <2>1. st = [acc EXCEPT !.inS = ~@, !.cur = Append(@, c)]
    BY <1>1, <1>5 DEF SplitStep
  <2>2. PICK b \in BOOLEAN : b <=> ~acc.inS
    OBVIOUS
  <2>3. is(acc.out, Append(acc.cur, c), b, acc.inD)
    BY <1>2, <2>1, <2>2
  <2> HIDE DEF st, is
  <2>4. /\ st \in SplitState(C)
        /\ st.out = acc.out /\ st.cur = Append(acc.cur, c)
        /\ (st.inS <=> b) /\ (st.inD <=> acc.inD)
    BY <1>2, <1>3, <1>4, <2>3, Zenon
  <2> QED  BY <1>1, <1>5, <2>2, <2>4 DEF st
<1>6. CASE c = DQ /\ ~acc.inS
  <2>1. st = [acc EXCEPT !.inD = ~@, !.cur = Append(@, c)]
    BY <1>1, <1>6 DEF SplitStep
  <2>2. PICK b \in BOOLEAN : b <=> ~acc.inD
    OBVIOUS
  <2>3. is(acc.out, Append(acc.cur, c), acc.inS, b)
    BY <1>2, <2>1, <2>2
  <2> HIDE DEF st, is
  <2>4. /\ st \in SplitState(C)
        /\ st.out = acc.out /\ st.cur = Append(acc.cur, c)
        /\ (st.inS <=> acc.inS) /\ (st.inD <=> b)
    BY <1>2, <1>3, <1>4, <2>3, Zenon
  <2> QED  BY <1>1, <1>6, <2>2, <2>4 DEF st
<1>7. CASE c = ";" /\ ~acc.inS /\ ~acc.inD
  <2>1. st = [acc EXCEPT !.out = Append(@, acc.cur), !.cur = <<>>]
    BY <1>1, <1>7 DEF SplitStep
  <2>2. is(Append(acc.out, acc.cur), <<>>, acc.inS, acc.inD)
    BY <1>2, <2>1
  <2> HIDE DEF st, is
  <2>3. /\ st \in SplitState(C)
        /\ st.out = Append(acc.out, acc.cur) /\ st.cur = <<>>
        /\ (st.inS <=> acc.inS) /\ (st.inD <=> acc.inD)
    BY <1>2, <1>3, <1>4, <2>2, Zenon
  <2> QED  BY <1>1, <1>7, <2>3 DEF st
<1>8. CASE /\ ~(c = SQ /\ ~acc.inD) /\ ~(c = DQ /\ ~acc.inS)
           /\ ~(c = ";" /\ ~acc.inS /\ ~acc.inD)
  <2>1. st = [acc EXCEPT !.cur = Append(@, c)]
    BY <1>8 DEF SplitStep
  <2>2. is(acc.out, Append(acc.cur, c), acc.inS, acc.inD)
    BY <1>2, <2>1
  <2> HIDE DEF st, is
  <2>3. /\ st \in SplitState(C)
        /\ st.out = acc.out /\ st.cur = Append(acc.cur, c)
        /\ (st.inS <=> acc.inS) /\ (st.inD <=> acc.inD)
    BY <1>2, <1>3, <1>4, <2>2, Zenon
  <2> QED  BY <1>8, <2>3 DEF st
<1> QED  BY <1>5, <1>6, <1>7, <1>8

(* After any number of characters the loop is in such a state. *)
LEMMA SplitTyped ==
    ASSUME NEW C, NEW s \in Seq(C), NEW after, SplitLoop(after, s), NEW i \in 0..Len(s)
    PROVE  after[i] \in SplitState(C)
<1> DEFINE T == {m \in Nat : m <= Len(s) => after[m] \in SplitState(C)}
<1>1. Len(s) \in Nat
  BY LenProperties
<1>2. 0 \in T
  <2>1. after[0] = SplitStart
    BY <1>1 DEF SplitLoop
  <2>2. \A o \in Seq(Seq(C)), u \in Seq(C) :
           [out |-> o, cur |-> u, inS |-> FALSE, inD |-> FALSE] \in SplitState(C)
    BY DEF SplitState
  <2>3. SplitStart \in SplitState(C)
    BY <2>2, EmptySeq, Zenon DEF SplitStart
  <2> QED  BY <2>1, <2>3
<1>3. ASSUME NEW m \in Nat, m \in T
      PROVE  m + 1 \in T
  <2>1. SUFFICES ASSUME m + 1 <= Len(s) PROVE after[m + 1] \in SplitState(C)
    OBVIOUS
  <2>2. m + 1 \in 0..Len(s) /\ m + 1 \in 1..Len(s) /\ (m + 1) - 1 = m /\ m + 1 # 0 /\ m <= Len(s)
    BY <1>1, <2>1
  <2>3. after[m + 1] = SplitStep(after[m], s[m + 1])
    BY <2>2 DEF SplitLoop
  <2>4. s[m + 1] \in C /\ after[m] \in SplitState(C)
    BY <1>3, <2>2, ElementOfSeq
  <2> HIDE DEF T
  <2> QED  BY <2>3, <2>4, SplitStepIs
<1> HIDE DEF T
<1>4. \A m \in Nat : m \in T
  BY <1>2, <1>3, Induct
<1> QED  BY <1>1, <1>4 DEF T

(***************************************************************************)
(* The two flags after i characters say what a lexer would: outside of any *)
(* quotes, or inside those of one kind.                                    *)
(***************************************************************************)
Quotes == {SQ, DQ}
Bare(after, i) == ~after[i].inS /\ ~after[i].inD
Inside(after, i, q) == (after[i].inS <=> q = SQ) /\ (after[i].inD <=> q = DQ)

(* The two flags are never both set by the code: a quote opens when the    *)
(* loop is outside, the same quote closes, the other kind changes nothing. *)
LEMMA FlagsStep ==
    ASSUME NEW C, NEW s \in Seq(C), NEW after, SplitLoop(after, s), NEW i \in 1..Len(s)
    PROVE  /\ \A q \in Quotes : Inside(after, i - 1, q) =>
                 /\ ~Bare(after, i - 1)
                 /\ s[i] # q => Inside(after, i, q)
                 /\ s[i] = q => Bare(after, i)
           /\ Bare(after, i - 1) =>
                 /\ \A q \in Quotes : s[i] = q => Inside(after, i, q)
                 /\ s[i] \notin Quotes => Bare(after, i)
<1> DEFINE acc == after[i - 1]
           c == s[i]
<1>1. Len(s) \in Nat /\ i - 1 \in 0..Len(s) /\ i \in 0..Len(s) /\ i # 0
  BY LenProperties
<1>2. acc \in SplitState(C) /\ c \in C
  BY <1>1, SplitTyped, ElementOfSeq
<1>3. after[i] = SplitStep(acc, c)
  BY <1>1 DEF SplitLoop
<1>4. acc.inS \in BOOLEAN /\ acc.inD \in BOOLEAN
  BY <1>2 DEF SplitState
<1>5. SQ # DQ /\ SQ # ";" /\ DQ # ";"
  BY DEF SQ, DQ
<1> HIDE DEF acc, c
<1>6. /\ after[i].inS <=> IF c = SQ /\ ~acc.inD THEN ~acc.inS ELSE acc.inS
      /\ after[i].inD <=> IF c = DQ /\ ~acc.inS THEN ~acc.inD ELSE acc.inD
  <2> DEFINE st == SplitStep(acc, c)
  <2>1. /\ st.inS <=> IF c = SQ /\ ~acc.inD THEN ~acc.inS ELSE acc.inS
        /\ st.inD <=> IF c = DQ /\ ~acc.inS THEN ~acc.inD ELSE acc.inD
    BY <1>2, SplitStepIs
  <2> HIDE DEF st
  <2>2. after[i] = st
    BY <1>3 DEF st
  <2> QED  BY <2>1, <2>2
<1>7. ASSUME NEW q \in Quotes, Inside(after, i - 1, q)
      PROVE  /\ ~Bare(after, i - 1)
             /\ c # q => Inside(after, i, q)
             /\ c = q => Bare(after, i)
  <2>1. (acc.inS <=> q = SQ) /\ (acc.inD <=> q = DQ)
    BY <1>7 DEF Inside, acc
  <2>2. ~Bare(after, i - 1) <=> acc.inS \/ acc.inD
    BY DEF Bare, acc
  <2> QED  BY <1>5, <1>6, <2>1, <2>2, Zenon DEF Inside, Bare, Quotes
<1>8. ASSUME Bare(after, i - 1)
      PROVE  /\ \A q \in Quotes : c = q => Inside(after, i, q)
             /\ c \notin Quotes => Bare(after, i)
  <2>1. ~acc.inS /\ ~acc.inD
    BY <1>8 DEF Bare, acc
  <2>2. CASE c = SQ
    BY <1>5, <1>6, <2>1, <2>2, Zenon DEF Inside, Quotes
  <2>3. CASE c = DQ
    BY <1>5, <1>6, <2>1, <2>3, Zenon DEF Inside, Quotes
  <2>4. CASE c # SQ /\ c # DQ
    BY <1>6, <2>1, <2>4, Zenon DEF Bare, Quotes
  <2> QED  BY <2>2, <2>3, <2>4, Zenon
<1> QED  BY <1>7, <1>8 DEF c

-----------------------------------------------------------------------------
(***************************************************************************)
(* The lexer.  Its functions go from the end of the text to the front.     *)
(***************************************************************************)
(* What Closing does at character j. *)
ClosingBody(f, j, t, q) ==
    CASE j <= Len(t) /\ t[j] # q -> f[j + 1]
      [] j < Len(t) /\ t[j] = q /\ t[j + 1] = q -> f[j + 2]
      [] OTHER -> j

(* Closing reads its recursive function behind the opening quote. *)
LEMMA ClosingUnfold ==
    ASSUME NEW C, NEW t \in Seq(C), NEW i \in 1..Len(t)
    PROVE  \E f : /\ \A j \in 1..(Len(t) + 1) : f[j] = ClosingBody(f, j, t, t[i])
                  /\ Closing(t, i) = f[i + 1]
<1> DEFINE n == Len(t)
           q == t[i]
           L == n + 1
           Good(m) == \E f : \A j \in 1..L : j > L - m => f[j] = ClosingBody(f, j, t, q)
           T == {m \in Nat : Good(m)}
<1>1. n \in Nat /\ L \in Nat
  BY LenProperties
<1>2. 0 \in T
  <2>1. \A j \in 1..L : ~(j > L - 0)
    BY <1>1
  <2> HIDE DEF L
  <2> QED  BY <2>1
<1>3. ASSUME NEW m \in Nat, m \in T
      PROVE  m + 1 \in T
  <2>1. PICK f : \A j \in 1..L : j > L - m => f[j] = ClosingBody(f, j, t, q)
    BY <1>3
  <2> DEFINE g == [j \in 1..L |-> IF j > L - m THEN f[j] ELSE ClosingBody(f, j, t, q)]
  <2>2. ASSUME NEW j \in 1..L, j > L - (m + 1)
        PROVE  g[j] = ClosingBody(g, j, t, q)
    <3>1. g[j] = ClosingBody(f, j, t, q)
      BY <2>1
    <3>2. j <= n => j + 1 \in 1..L /\ j + 1 > L - m
      BY <1>1, <2>2
    <3>3. j < n => j + 2 \in 1..L /\ j + 2 > L - m
      BY <1>1, <2>2
    <3>4. j <= n => g[j + 1] = f[j + 1]
      BY <3>2
    <3>5. j < n => g[j + 2] = f[j + 2]
      BY <3>3
    <3> HIDE DEF g, q
    <3> QED  BY <3>1, <3>4, <3>5 DEF ClosingBody
  <2> HIDE DEF g
  <2>3. Good(m + 1)
    BY <2>2
  <2> QED  BY <2>3
<1> HIDE DEF T
<1>4. \A m \in Nat : m \in T
  BY <1>2, <1>3, Induct
<1>5. PICK h : \A j \in 1..L : h[j] = ClosingBody(h, j, t, q)
  <2>1. PICK h : \A j \in 1..L : j > L - L => h[j] = ClosingBody(h, j, t, q)
    BY <1>1, <1>4 DEF T
  <2>2. \A j \in 1..L : j > L - L
    BY <1>1
  <2> QED  BY <2>1, <2>2
<1>6. \E f : f = [j \in 1..L |-> ClosingBody(f, j, t, q)]
  <2> DEFINE f == [j \in 1..L |-> h[j]]
  <2>1. ASSUME NEW j \in 1..L
        PROVE  f[j] = ClosingBody(f, j, t, q)
    <3>1. j <= n => j + 1 \in 1..L
      BY <1>1
    <3>2. j < n => j + 2 \in 1..L
      BY <1>1
    <3>3. (j <= n => f[j + 1] = h[j + 1]) /\ (j < n => f[j + 2] = h[j + 2]) /\ f[j] = h[j]
      BY <3>1, <3>2
    <3> HIDE DEF f, q
    <3> QED  BY <1>5, <3>3 DEF ClosingBody
  <2>2. f = [j \in 1..L |-> f[j]]
    OBVIOUS
  <2> HIDE DEF f
  <2>3. f = [j \in 1..L |-> ClosingBody(f, j, t, q)]
    BY <2>1, <2>2, Zenon
  <2> QED  BY <2>3
<1> DEFINE close == CHOOSE f : f = [j \in 1..L |-> ClosingBody(f, j, t, q)]
<1>7. close = [j \in 1..L |-> ClosingBody(close, j, t, q)]
  BY <1>6, Zenon
<1>8. Closing(t, i) = close[i + 1]
  BY Zenon DEF Closing, ClosingBody
<1> HIDE DEF close
<1> QED  BY <1>7, <1>8

(* Where a quote closes, the flags agree that it does; up to there they    *)
(* hide every semicolon.                                                   *)
Hides(after, t, a, b) ==
    \A k \in a..b : k <= Len(t) /\ t[k] = ";" => ~Bare(after, k - 1)

(* From a quote that opens outside of any other, the loop cuts nowhere     *)
(* before the place where the lexer closes it, and is outside again behind *)
(* it: a doubled quote closes and opens for the loop, with no character    *)
(* between.                                                                *)
LEMMA ClosingAgrees ==
    ASSUME NEW C, NEW t \in Seq(C), NEW after, SplitLoop(after, t),
           NEW i \in 1..Len(t), t[i] \in Quotes, Bare(after, i - 1)
    PROVE  /\ Closing(t, i) \in (i + 1)..(Len(t) + 1)
           /\ Hides(after, t, i, Closing(t, i))
           /\ Closing(t, i) <= Len(t) => Bare(after, Closing(t, i))
<1> DEFINE n == Len(t)
           q == t[i]
<1>1. n \in Nat
  BY LenProperties
<1>2. PICK f : /\ \A j \in 1..(n + 1) : f[j] = ClosingBody(f, j, t, q)
               /\ Closing(t, i) = f[i + 1]
  BY ClosingUnfold
<1> DEFINE Claim(j) == Inside(after, j - 1, q) =>
                          /\ f[j] \in j..(n + 1)
                          /\ Hides(after, t, j, f[j])
                          /\ f[j] <= n => Bare(after, f[j])
           T == {m \in Nat : \A j \in 1..(n + 1) : j > n + 1 - m => Claim(j)}
<1>3. q \in Quotes /\ q # ";"
  BY DEF Quotes, SQ, DQ
<1> HIDE DEF q
<1>4. 0 \in T
  <2>1. \A j \in 1..(n + 1) : ~(j > n + 1 - 0)
    BY <1>1
  <2> HIDE DEF Claim, n
  <2> QED  BY <2>1
<1>5. ASSUME NEW m \in Nat, m \in T
      PROVE  m + 1 \in T
  <2>1. \A j \in 1..(n + 1) : j > n + 1 - m => Claim(j)
    BY <1>5
  <2> HIDE DEF T
  <2>2. ASSUME NEW j \in 1..(n + 1), j > n + 1 - (m + 1), Inside(after, j - 1, q)
        PROVE  /\ f[j] \in j..(n + 1)
               /\ Hides(after, t, j, f[j])
               /\ f[j] <= n => Bare(after, f[j])
    <3>1. CASE j <= n /\ t[j] # q
      <4>1. f[j] = f[j + 1]
        BY <1>2, <3>1 DEF ClosingBody
      <4>2. j \in 1..n /\ j + 1 \in 1..(n + 1) /\ j + 1 > n + 1 - m /\ (j + 1) - 1 = j
        BY <1>1, <2>2, <3>1
      <4>3. ~Bare(after, j - 1) /\ Inside(after, j, q)
        BY <1>3, <2>2, <3>1, <4>2, FlagsStep
      <4>4. /\ f[j + 1] \in (j + 1)..(n + 1)
            /\ Hides(after, t, j + 1, f[j + 1])
            /\ f[j + 1] <= n => Bare(after, f[j + 1])
        BY <2>1, <4>2, <4>3
      <4>5. \A k \in j..f[j + 1] : k = j \/ k \in (j + 1)..f[j + 1]
        BY <4>2, <4>4
      <4>6. Hides(after, t, j, f[j])
        BY <4>1, <4>3, <4>4, <4>5 DEF Hides
      <4>7. f[j] \in j..(n + 1)
        BY <4>1, <4>2, <4>4
      <4> QED  BY <4>1, <4>4, <4>6, <4>7
    <3>2. CASE j < n /\ t[j] = q /\ t[j + 1] = q
      <4>1. f[j] = f[j + 2]
        BY <1>2, <3>2 DEF ClosingBody
      <4>2. /\ j \in 1..n /\ j + 1 \in 1..n /\ j + 2 \in 1..(n + 1) /\ j + 2 > n + 1 - m
            /\ (j + 1) - 1 = j /\ (j + 2) - 1 = j + 1
        BY <1>1, <2>2, <3>2
      <4>3. Bare(after, j)
        BY <1>3, <2>2, <3>2, <4>2, FlagsStep
      <4>4. Inside(after, j + 1, q)
        BY <1>3, <3>2, <4>2, <4>3, FlagsStep
      <4>5. /\ f[j + 2] \in (j + 2)..(n + 1)
            /\ Hides(after, t, j + 2, f[j + 2])
            /\ f[j + 2] <= n => Bare(after, f[j + 2])
        BY <2>1, <4>2, <4>4
      <4>6. \A k \in j..f[j + 2] : k = j \/ k = j + 1 \/ k \in (j + 2)..f[j + 2]
        BY <4>2, <4>5
      <4>7. Hides(after, t, j, f[j])
        BY <1>3, <3>2, <4>1, <4>5, <4>6 DEF Hides
      <4>8. f[j] \in j..(n + 1)
        BY <4>1, <4>2, <4>5
      <4> QED  BY <4>1, <4>5, <4>7, <4>8
    <3>3. CASE ~(j <= n /\ t[j] # q) /\ ~(j < n /\ t[j] = q /\ t[j + 1] = q)
      <4>1. f[j] = j
        BY <1>2, <3>3 DEF ClosingBody
      <4>2. j \in j..(n + 1)
        BY <1>1
      <4>3. ASSUME NEW k \in j..j, k <= n
            PROVE  t[k] # ";"
        <5>1. k = j
          OBVIOUS
        <5> QED  BY <1>3, <3>3, <4>3, <5>1
      <4>4. Hides(after, t, j, j)
        BY <4>3 DEF Hides
      <4>5. ASSUME j <= n
            PROVE  Bare(after, j)
        <5>1. j \in 1..n /\ t[j] = q
          BY <1>1, <3>3, <4>5
        <5> QED  BY <1>3, <2>2, <5>1, FlagsStep
      <4> QED  BY <4>1, <4>2, <4>4, <4>5
    <3> QED  BY <3>1, <3>2, <3>3
  <2>3. \A j \in 1..(n + 1) : j > n + 1 - (m + 1) => Claim(j)
    BY <2>2
  <2> HIDE DEF Claim
  <2> QED  BY <2>3 DEF T
<1>6. \A m \in Nat : m \in T
  <2> HIDE DEF T
  <2> QED  BY <1>4, <1>5, Induct
<1>7. Claim(i + 1)
  <2>1. n + 1 \in T
    BY <1>1, <1>6
  <2>2. i + 1 \in 1..(n + 1) /\ i + 1 > n + 1 - (n + 1)
    BY <1>1
  <2> HIDE DEF Claim
  <2> QED  BY <2>1, <2>2
<1>8. i \in 1..n /\ (i + 1) - 1 = i
  BY <1>1
<1>9. Inside(after, i, q)
  BY <1>3, <1>8, FlagsStep DEF q
<1>10. /\ f[i + 1] \in (i + 1)..(n + 1)
       /\ Hides(after, t, i + 1, f[i + 1])
       /\ f[i + 1] <= n => Bare(after, f[i + 1])
  BY <1>7, <1>8, <1>9
<1>11. \A k \in i..f[i + 1] : k = i \/ k \in (i + 1)..f[i + 1]
  BY <1>8, <1>10
<1>12. Hides(after, t, i, f[i + 1])
  BY <1>3, <1>10, <1>11 DEF Hides, q
<1> QED  BY <1>2, <1>10, <1>12

(* A quote closes behind itself, at most one character behind the text. *)
LEMMA ClosingTyped ==
    ASSUME NEW C, NEW t \in Seq(C), NEW i \in 1..Len(t)
    PROVE  Closing(t, i) \in (i + 1)..(Len(t) + 1)
<1> DEFINE n == Len(t)
           q == t[i]
<1>1. n \in Nat
  BY LenProperties
<1>2. PICK f : /\ \A j \in 1..(n + 1) : f[j] = ClosingBody(f, j, t, q)
               /\ Closing(t, i) = f[i + 1]
  BY ClosingUnfold
<1> DEFINE T == {m \in Nat : \A j \in 1..(n + 1) : j > n + 1 - m => f[j] \in j..(n + 1)}
<1> HIDE DEF q
<1>3. 0 \in T
  BY <1>1
<1>4. ASSUME NEW m \in Nat, m \in T
      PROVE  m + 1 \in T
  <2>1. ASSUME NEW j \in 1..(n + 1), j > n + 1 - (m + 1)
        PROVE  f[j] \in j..(n + 1)
    <3>1. CASE j <= n /\ t[j] # q
      <4>1. f[j] = f[j + 1]
        BY <1>2, <3>1 DEF ClosingBody
      <4>2. j + 1 \in 1..(n + 1) /\ j + 1 > n + 1 - m
        BY <1>1, <2>1, <3>1
      <4>3. f[j + 1] \in (j + 1)..(n + 1)
        BY <1>4, <4>2
      <4> QED  BY <1>1, <4>1, <4>2, <4>3
    <3>2. CASE j < n /\ t[j] = q /\ t[j + 1] = q
      <4>1. f[j] = f[j + 2]
        BY <1>2, <3>2 DEF ClosingBody
      <4>2. j + 2 \in 1..(n + 1) /\ j + 2 > n + 1 - m
        BY <1>1, <2>1, <3>2
      <4>3. f[j + 2] \in (j + 2)..(n + 1)
        BY <1>4, <4>2
      <4> QED  BY <1>1, <4>1, <4>2, <4>3
    <3>3. CASE ~(j <= n /\ t[j] # q) /\ ~(j < n /\ t[j] = q /\ t[j + 1] = q)
      <4>1. f[j] = j
        BY <1>2, <3>3 DEF ClosingBody
      <4> QED  BY <1>1, <4>1
    <3> QED  BY <3>1, <3>2, <3>3
  <2> QED  BY <2>1
<1> HIDE DEF T
<1>5. \A m \in Nat : m \in T
  BY <1>3, <1>4, Induct
<1>6. n + 1 \in T
  BY <1>1, <1>5
<1>7. i + 1 \in 1..(n + 1) /\ i + 1 > n + 1 - (n + 1)
  BY <1>1
<1> QED  BY <1>2, <1>6, <1>7 DEF T

(* What Separators does at character i. *)
SeparatorsBody(f, i, t) ==
    CASE i > Len(t) -> {}
      [] i <= Len(t) /\ t[i] \in {SQ, DQ} -> f[Closing(t, i) + 1]
      [] i <= Len(t) /\ t[i] = ";" -> {i} \cup f[i + 1]
      [] OTHER -> f[i + 1]

(* The cases of that definition exclude each other. *)
LEMMA SeparatorsArms ==
    ASSUME NEW f, NEW t, NEW i \in Nat, Len(t) \in Nat
    PROVE  SeparatorsBody(f, i, t) =
              IF i > Len(t) THEN {}
              ELSE IF t[i] \in Quotes THEN f[Closing(t, i) + 1]
              ELSE IF t[i] = ";" THEN {i} \cup f[i + 1] ELSE f[i + 1]
<1> DEFINE body == SeparatorsBody(f, i, t)
           late == i > Len(t)
           quote == t[i] \in Quotes
           semi == t[i] = ";"
<1>1. (~late <=> i <= Len(t)) /\ ~(quote /\ semi)
  <2>1. \A m, l \in Nat : ~(m > l) <=> m <= l
    OBVIOUS
  <2>2. SQ # ";" /\ DQ # ";"
    BY DEF SQ, DQ
  <2>3. ~(quote /\ semi)
    BY <2>2 DEF Quotes
  <2> QED  BY <2>1, <2>3
<1>2. body = CASE late -> {}
               [] ~late /\ quote -> f[Closing(t, i) + 1]
               [] ~late /\ semi -> {i} \cup f[i + 1]
               [] OTHER -> f[i + 1]
  BY <1>1, Zenon DEF SeparatorsBody, Quotes
<1> SUFFICES body = IF late THEN {} ELSE IF quote THEN f[Closing(t, i) + 1]
                    ELSE IF semi THEN {i} \cup f[i + 1] ELSE f[i + 1]
  OBVIOUS
<1> HIDE DEF body, late, quote, semi
<1> QED  BY <1>1, <1>2

(* At a quote the lexer goes on behind its end ... *)
LEMMA SeparatorsQuote ==
    ASSUME NEW f, NEW t, NEW i \in Nat, Len(t) \in Nat, i <= Len(t), t[i] \in Quotes
    PROVE  SeparatorsBody(f, i, t) = f[Closing(t, i) + 1]
<1>1. ~(i > Len(t))
  OBVIOUS
<1> QED  BY <1>1, SeparatorsArms, Zenon

(* ... and at any other character with the next one. *)
LEMMA SeparatorsPlain ==
    ASSUME NEW f, NEW t, NEW i \in Nat, Len(t) \in Nat, i <= Len(t), t[i] \notin Quotes
    PROVE  SeparatorsBody(f, i, t) = IF t[i] = ";" THEN {i} \cup f[i + 1] ELSE f[i + 1]
<1>1. ~(i > Len(t))
  OBVIOUS
<1> QED  BY <1>1, SeparatorsArms, Zenon

(* Separators reads its recursive function at the first character; the     *)
(* function exists because a quote always closes further on.               *)
LEMMA SeparatorsUnfold ==
    ASSUME NEW C, NEW t \in Seq(C),
           \A i \in 1..Len(t) : t[i] \in Quotes => Closing(t, i) \in (i + 1)..(Len(t) + 1)
    PROVE  \E f : /\ \A i \in 1..(Len(t) + 2) : f[i] = SeparatorsBody(f, i, t)
                  /\ Separators(t) = f[1]
<1> DEFINE n == Len(t)
           L == n + 2
           Good(m) == \E f : \A i \in 1..L : i > L - m => f[i] = SeparatorsBody(f, i, t)
           T == {m \in Nat : Good(m)}
<1>1. n \in Nat /\ L \in Nat
  BY LenProperties
<1>2. 0 \in T
  <2>1. \A i \in 1..L : ~(i > L - 0)
    BY <1>1
  <2> HIDE DEF L
  <2> QED  BY <2>1
<1>3. ASSUME NEW f, NEW g, NEW i \in 1..L, \A j \in 1..L : j > i => f[j] = g[j]
      PROVE  SeparatorsBody(f, i, t) = SeparatorsBody(g, i, t)
  <2>1. i \in Nat
    BY <1>1
  <2>2. CASE i > n
    BY <1>1, <2>1, <2>2, SeparatorsArms
  <2>3. CASE i <= n
    <3>1. i \in 1..n /\ i + 1 \in 1..L /\ i + 1 > i
      BY <1>1, <2>3
    <3>2. f[i + 1] = g[i + 1]
      BY <1>3, <3>1
    <3>3. CASE t[i] \in Quotes
      <4> DEFINE c == Closing(t, i)
      <4>1. c \in (i + 1)..(n + 1)
        BY <3>1, <3>3
      <4>2. c + 1 \in 1..L /\ c + 1 > i
        BY <1>1, <3>1, <4>1
      <4>3. f[c + 1] = g[c + 1]
        BY <1>3, <4>2
      <4> HIDE DEF c
      <4>4. SeparatorsBody(f, i, t) = f[c + 1] /\ SeparatorsBody(g, i, t) = g[c + 1]
        BY <1>1, <2>1, <2>3, <3>3, SeparatorsQuote, Zenon DEF c
      <4> QED  BY <4>3, <4>4
    <3>4. CASE t[i] \notin Quotes
      <4> DEFINE sb(h) == IF t[i] = ";" THEN {i} \cup h[i + 1] ELSE h[i + 1]
      <4>1. SeparatorsBody(f, i, t) = sb(f) /\ SeparatorsBody(g, i, t) = sb(g)
        BY <1>1, <2>1, <2>3, <3>4, SeparatorsPlain, Zenon
      <4> QED  BY <3>2, <4>1
    <3> QED  BY <3>3, <3>4
  <2> QED  BY <1>1, <2>1, <2>2, <2>3
<1>4. ASSUME NEW m \in Nat, m \in T
      PROVE  m + 1 \in T
  <2>1. PICK f : \A i \in 1..L : i > L - m => f[i] = SeparatorsBody(f, i, t)
    BY <1>4
  <2> DEFINE g == [i \in 1..L |-> IF i > L - m THEN f[i] ELSE SeparatorsBody(f, i, t)]
  <2>2. ASSUME NEW i \in 1..L, i > L - (m + 1)
        PROVE  g[i] = SeparatorsBody(g, i, t)
    <3>1. g[i] = SeparatorsBody(f, i, t)
      BY <2>1
    <3>2. \A j \in 1..L : j > i => j > L - m
      BY <1>1, <2>2
    <3>3. \A j \in 1..L : j > i => f[j] = g[j]
      BY <3>2
    <3> HIDE DEF g, L
    <3> QED  BY <1>3, <3>1, <3>3
  <2> HIDE DEF g
  <2>3. Good(m + 1)
    BY <2>2
  <2> QED  BY <2>3
<1> HIDE DEF T
<1>5. \A m \in Nat : m \in T
  BY <1>2, <1>4, Induct
<1>6. PICK h : \A i \in 1..L : h[i] = SeparatorsBody(h, i, t)
  <2>1. PICK h : \A i \in 1..L : i > L - L => h[i] = SeparatorsBody(h, i, t)
    BY <1>1, <1>5 DEF T
  <2>2. \A i \in 1..L : i > L - L
    BY <1>1
  <2> QED  BY <2>1, <2>2
<1>7. \E f : f = [i \in 1..L |-> SeparatorsBody(f, i, t)]
  <2> DEFINE f == [i \in 1..L |-> h[i]]
  <2>1. \A j \in 1..L : f[j] = h[j]
    OBVIOUS
  <2>2. f = [i \in 1..L |-> f[i]]
    OBVIOUS
  <2> HIDE DEF f, L
  <2>3. \A i \in 1..L : f[i] = SeparatorsBody(f, i, t)
    BY <1>3, <1>6, <2>1
  <2>4. f = [i \in 1..L |-> SeparatorsBody(f, i, t)]
    BY <2>2, <2>3, Zenon
  <2> QED  BY <2>4
<1> DEFINE from == CHOOSE f : f = [i \in 1..L |-> SeparatorsBody(f, i, t)]
<1>8. from = [i \in 1..L |-> SeparatorsBody(from, i, t)]
  BY <1>7, Zenon
<1>9. Separators(t) = from[1]
  BY Zenon DEF Separators, SeparatorsBody
<1> HIDE DEF from
<1> QED  BY <1>8, <1>9

(* A separator is a semicolon at which both flags are down. *)
LEMMA SeparatorsAre ==
    ASSUME NEW C, NEW t \in Seq(C), NEW after, SplitLoop(after, t)
    PROVE  Separators(t) = {k \in 1..Len(t) : t[k] = ";" /\ Bare(after, k - 1)}
<1> DEFINE n == Len(t)
           Cut(i) == {k \in i..n : t[k] = ";" /\ Bare(after, k - 1)}
<1>1. n \in Nat
  BY LenProperties
<1>2. Bare(after, 0)
  <2>1. after[0] = SplitStart
    BY <1>1 DEF SplitLoop
  <2> QED  BY <2>1 DEF Bare, SplitStart
<1>3. PICK f : /\ \A i \in 1..(n + 2) : f[i] = SeparatorsBody(f, i, t)
               /\ Separators(t) = f[1]
  BY ClosingTyped, SeparatorsUnfold
<1> DEFINE Claim(i) == (i <= n + 1 => Bare(after, i - 1)) => f[i] = Cut(i)
           T == {m \in Nat : \A i \in 1..(n + 2) : i > n + 2 - m => Claim(i)}
<1>4. 0 \in T
  <2>1. \A i \in 1..(n + 2) : ~(i > n + 2 - 0)
    BY <1>1
  <2> HIDE DEF Claim, n
  <2> QED  BY <2>1
<1>5. ASSUME NEW m \in Nat, m \in T
      PROVE  m + 1 \in T
  <2>1. \A i \in 1..(n + 2) : i > n + 2 - m => Claim(i)
    BY <1>5
  <2> HIDE DEF T
  <2>2. ASSUME NEW i \in 1..(n + 2), i > n + 2 - (m + 1), i <= n + 1 => Bare(after, i - 1)
        PROVE  f[i] = Cut(i)
    <3>1. CASE i > n
      <4>1. Cut(i) = {}
        <5>1. \A k \in i..n : FALSE
          BY <1>1, <3>1
        <5> QED  BY <5>1
      <4>2. f[i] = {}
        <5>1. i \in Nat /\ f[i] = SeparatorsBody(f, i, t)
          BY <1>1, <1>3
        <5> QED  BY <1>1, <3>1, <5>1, SeparatorsArms
      <4> QED  BY <4>1, <4>2
    <3>2. CASE i <= n
      <4>1. /\ i \in 1..n /\ ~(i > n) /\ i + 1 \in 1..(n + 2) /\ i + 1 > n + 2 - m
            /\ (i + 1) - 1 = i /\ Bare(after, i - 1)
        BY <1>1, <2>2, <3>2
      <4>2. CASE t[i] \in Quotes
        <5> DEFINE c == Closing(t, i)
        <5>1. t[i] # ";"
          BY <4>2 DEF Quotes, SQ, DQ
        <5>2. f[i] = f[c + 1]
          <6>1. i \in Nat /\ f[i] = SeparatorsBody(f, i, t)
            BY <1>3, <2>2
          <6> QED  BY <1>1, <3>2, <4>2, <6>1, SeparatorsQuote, Zenon DEF n
        <5>3. /\ c \in (i + 1)..(n + 1)
              /\ Hides(after, t, i, c)
              /\ c <= n => Bare(after, c)
          BY <4>1, <4>2, ClosingAgrees
        <5> HIDE DEF c
        <5>4. c \in Nat /\ c + 1 \in 1..(n + 2) /\ c + 1 > n + 2 - m /\ (c + 1) - 1 = c
              /\ (c + 1 <= n + 1 => c <= n)
          BY <1>1, <4>1, <2>2, <5>3
        <5>5. f[c + 1] = Cut(c + 1)
          <6>1. Claim(c + 1)
            <7> HIDE DEF Claim
            <7> QED  BY <2>1, <5>4
          <6> QED  BY <5>3, <5>4, <6>1
        <5>6. \A k \in i..n : k \in i..c \/ k \in (c + 1)..n
          BY <1>1, <4>1, <5>4
        <5>7. \A k \in (c + 1)..n : k \in i..n
          BY <1>1, <4>1, <5>3
        <5>8. Cut(i) = Cut(c + 1)
          <6>1. \A k \in i..c : k <= n /\ t[k] = ";" => ~Bare(after, k - 1)
            BY <5>3 DEF Hides
          <6>2. \A k \in i..n : k <= n
            BY <1>1, <4>1
          <6>3. ASSUME NEW k \in Cut(i)
                PROVE  k \in Cut(c + 1)
            BY <5>6, <6>1, <6>2
          <6>4. ASSUME NEW k \in Cut(c + 1)
                PROVE  k \in Cut(i)
            BY <5>7
          <6> HIDE DEF Cut
          <6> QED  BY <6>3, <6>4
        <5> QED  BY <5>2, <5>5, <5>8
      <4>3. CASE t[i] \notin Quotes
        <5>1. Bare(after, i)
          BY <4>1, <4>3, FlagsStep
        <5>2. f[i + 1] = Cut(i + 1)
          <6>1. Claim(i + 1)
            <7> HIDE DEF Claim
            <7> QED  BY <2>1, <4>1
          <6> QED  BY <4>1, <5>1, <6>1
        <5>3. \A k \in i..n : k = i \/ k \in (i + 1)..n
          BY <1>1, <4>1
        <5>4. (\A k \in (i + 1)..n : k \in i..n) /\ i \in i..n /\ i \notin (i + 1)..n
          BY <1>1, <4>1
        <5>5. /\ t[i] = ";" => f[i] = {i} \cup f[i + 1]
              /\ t[i] # ";" => f[i] = f[i + 1]
          <6>1. i \in Nat /\ f[i] = SeparatorsBody(f, i, t)
            BY <1>3, <2>2
          <6>2. SeparatorsBody(f, i, t) = IF t[i] = ";" THEN {i} \cup f[i + 1] ELSE f[i + 1]
            BY <1>1, <3>2, <4>3, <6>1, SeparatorsPlain
          <6> QED  BY <6>1, <6>2
        <5>6. ASSUME NEW k
              PROVE  k \in Cut(i) <=> (k = i /\ t[i] = ";") \/ k \in Cut(i + 1)
          BY <4>1, <5>3, <5>4
        <5> HIDE DEF Cut
        <5>7. CASE t[i] = ";"
          <6>1. f[i] = {i} \cup Cut(i + 1)
            BY <5>2, <5>5, <5>7
          <6>2. Cut(i) = {i} \cup Cut(i + 1)
            BY <5>6, <5>7
          <6> QED  BY <6>1, <6>2
        <5>8. CASE t[i] # ";"
          <6>1. f[i] = Cut(i + 1)
            BY <5>2, <5>5, <5>8
          <6>2. Cut(i) = Cut(i + 1)
            BY <5>6, <5>8
          <6> QED  BY <6>1, <6>2
        <5> QED  BY <5>7, <5>8
      <4> QED  BY <4>2, <4>3
    <3> HIDE DEF Cut, n
    <3> QED  BY <1>1, <3>1, <3>2
  <2>3. \A i \in 1..(n + 2) : i > n + 2 - (m + 1) => Claim(i)
    BY <2>2
  <2> HIDE DEF Claim
  <2> QED  BY <2>3 DEF T
<1>6. \A m \in Nat : m \in T
  <2> HIDE DEF T
  <2> QED  BY <1>4, <1>5, Induct
<1>7. Claim(1)
  <2>1. n + 2 \in T
    <3> HIDE DEF T
    <3> QED  BY <1>1, <1>6
  <2>2. 1 \in 1..(n + 2) /\ 1 > n + 2 - (n + 2)
    BY <1>1
  <2> HIDE DEF Claim
  <2> QED  BY <2>1, <2>2
<1>8. f[1] = Cut(1)
  <2>1. 1 - 1 = 0
    OBVIOUS
  <2> HIDE DEF Cut
  <2> QED  BY <1>2, <1>7, <2>1
<1> QED  BY <1>3, <1>8

(***************************************************************************)
(* What splitSQL has collected after i characters, p being the separators  *)
(* among them: the texts between them, and the one that has begun.         *)
(***************************************************************************)
Begin(p, k) == IF k = 0 THEN 1 ELSE p[k] + 1
(* The loop has cut the first i characters of t at the separators p, and   *)
(* holds what follows the last of them.                                    *)
Collected(t, st, p, i) ==
    /\ Len(st.out) = Len(p)
    /\ \A k \in 1..Len(p) : st.out[k] = SubSeq(t, Begin(p, k - 1), p[k] - 1)
    /\ st.cur = SubSeq(t, Begin(p, Len(p)), i)

(* After i characters the pieces of splitSQL are the text between the      *)
(* lexer's separators among them.                                          *)
LEMMA CollectedIs ==
    ASSUME NEW C, NEW t \in Seq(C), NEW after, SplitLoop(after, t), NEW i \in 0..Len(t)
    PROVE  Collected(t, after[i], Positions(i, Separators(t)), i)
<1> DEFINE n == Len(t)
           S == Separators(t)
           P(m) == Positions(m, S)
           T == {m \in Nat : m <= n => Collected(t, after[m], P(m), m)}
<1>1. n \in Nat
  BY LenProperties
<1>2. S = {k \in 1..n : t[k] = ";" /\ Bare(after, k - 1)}
  BY SeparatorsAre
<1> HIDE DEF S
<1>3. 0 \in T
  <2>1. after[0] = SplitStart /\ P(0) = <<>>
    BY <1>1, PositionsStep DEF SplitLoop
  <2> HIDE DEF P
  <2>2. SplitStart.out = <<>> /\ SplitStart.cur = <<>>
    BY DEF SplitStart
  <2>3. Len(<<>>) = 0 /\ SubSeq(t, 1, 0) = <<>>
    BY SubSeqEmpty
  <2>4. \A k \in 1..0 : FALSE
    OBVIOUS
  <2> QED  BY <2>1, <2>2, <2>3, <2>4 DEF Collected, Begin
<1>4. ASSUME NEW m \in Nat, m \in T
      PROVE  m + 1 \in T
  <2>1. SUFFICES ASSUME m + 1 <= n PROVE Collected(t, after[m + 1], P(m + 1), m + 1)
    OBVIOUS
  <2>2. m + 1 \in 1..n /\ m + 1 \in 0..n /\ m \in 0..n /\ m + 1 # 0 /\ (m + 1) - 1 = m
    BY <1>1, <2>1
  <2> DEFINE c == t[m + 1]
             st == after[m]
             new == after[m + 1]
             p == P(m)
             b == Begin(p, Len(p))
  <2>3. c \in C /\ st \in SplitState(C) /\ new \in SplitState(C)
    BY <2>2, SplitTyped, ElementOfSeq
  <2>4. new = SplitStep(st, c)
    BY <2>2 DEF SplitLoop
  <2>5. Collected(t, st, p, m)
    BY <1>4, <2>2
  <2>6. P(m + 1) = IF m + 1 \in S THEN Append(p, m + 1) ELSE p
    BY PositionsStep
  <2>7. m + 1 \in S <=> c = ";" /\ ~st.inS /\ ~st.inD
    BY <1>2, <2>2 DEF Bare
  <2>8. /\ p \in Seq(1..m) /\ Len(p) \in Nat
        /\ \A k \in 1..Len(p) : p[k] \in 1..m
    BY PositionsAre, LenProperties
  <2>9. /\ new.out = IF m + 1 \in S THEN Append(st.out, st.cur) ELSE st.out
        /\ new.cur = IF m + 1 \in S THEN <<>> ELSE Append(st.cur, c)
    <3> HIDE DEF c, st, new, P
    <3>1. PICK cuts \in BOOLEAN : cuts <=> m + 1 \in S
      OBVIOUS
    <3>2. /\ new.out = IF cuts THEN Append(st.out, st.cur) ELSE st.out
          /\ new.cur = IF cuts THEN <<>> ELSE Append(st.cur, c)
      BY <2>3, <2>4, <2>7, <3>1, SplitStepIs
    <3> QED  BY <3>1, <3>2
  <2>10. st.out \in Seq(Seq(C)) /\ st.cur \in Seq(C)
    BY <2>3 DEF SplitState
  <2>11. b \in 1..(m + 1)
    BY <2>8 DEF Begin
  <2>12. /\ Len(st.out) = Len(p)
         /\ \A k \in 1..Len(p) : st.out[k] = SubSeq(t, Begin(p, k - 1), p[k] - 1)
         /\ st.cur = SubSeq(t, b, m)
    BY <2>5 DEF Collected
  <2> HIDE DEF P, p, st, new, b
  <2>13. CASE m + 1 \notin S
    <3>1. P(m + 1) = p /\ new.out = st.out /\ new.cur = Append(st.cur, c)
      BY <2>6, <2>9, <2>13
    <3>2. Append(SubSeq(t, b, m), c) = SubSeq(t, b, m + 1)
      <4>1. b \in 1..n /\ m + 1 \in b..n
        BY <1>1, <2>1, <2>11
      <4>2. SubSeq(t, b, m + 1) = SubSeq(t, b, m) \o <<c>>
        BY <2>2, <4>1, SubSeqRecursiveSecond
      <4>3. SubSeq(t, b, m) \in Seq(C)
        BY <2>10, <2>12
      <4> QED  BY <2>3, <4>2, <4>3, AppendIsConcat
    <3> QED  BY <2>12, <3>1, <3>2 DEF Collected, b, new
  <2>14. CASE m + 1 \in S
    <3> DEFINE r == P(m + 1)
    <3>1. r = Append(p, m + 1) /\ new.out = Append(st.out, st.cur) /\ new.cur = <<>>
      BY <2>6, <2>9, <2>14
    <3>2. p \in Seq(1..n) /\ m + 1 \in 1..n
      BY <2>2, <2>8, SeqMonotonic
    <3>3. /\ Len(r) = Len(p) + 1
          /\ \A k \in 1..Len(p) : r[k] = p[k]
          /\ r[Len(p) + 1] = m + 1
      <4> HIDE DEF r
      <4> QED  BY <3>1, <3>2, AppendProperties
    <3>4. /\ Len(new.out) = Len(p) + 1
          /\ \A k \in 1..Len(p) : new.out[k] = st.out[k]
          /\ new.out[Len(p) + 1] = st.cur
      <4>1. /\ Len(Append(st.out, st.cur)) = Len(st.out) + 1
            /\ \A k \in 1..Len(st.out) : Append(st.out, st.cur)[k] = st.out[k]
            /\ Append(st.out, st.cur)[Len(st.out) + 1] = st.cur
        BY <2>10, AppendProperties
      <4> QED  BY <2>12, <3>1, <4>1, Zenon
    <3> HIDE DEF r
    <3>5. ASSUME NEW k \in 1..Len(r)
          PROVE  new.out[k] = SubSeq(t, Begin(r, k - 1), r[k] - 1)
      <4>1. k \in 1..Len(p) \/ k = Len(p) + 1
        BY <2>8, <3>3
      <4>2. Begin(r, k - 1) = Begin(p, k - 1)
        <5>1. k - 1 # 0 => k - 1 \in 1..Len(p)
          BY <2>8, <3>3
        <5> QED  BY <3>3, <5>1 DEF Begin
      <4>3. CASE k \in 1..Len(p)
        BY <2>12, <3>3, <3>4, <4>2, <4>3
      <4>4. CASE k = Len(p) + 1
        <5>1. k - 1 = Len(p) /\ r[k] - 1 = m
          BY <2>2, <2>8, <3>3, <4>4
        <5> QED  BY <2>12, <3>4, <4>2, <4>4, <5>1 DEF b
      <4> QED  BY <4>1, <4>3, <4>4
    <3>6. new.cur = SubSeq(t, Begin(r, Len(r)), m + 1)
      <4>1. Begin(r, Len(r)) = (m + 1) + 1
        BY <2>8, <3>3 DEF Begin
      <4>2. SubSeq(t, (m + 1) + 1, m + 1) = <<>>
        BY SubSeqEmpty
      <4> QED  BY <3>1, <4>1, <4>2
    <3>7. Len(new.out) = Len(r)
      BY <3>3, <3>4
    <3> QED  BY <3>5, <3>6, <3>7 DEF Collected, r, new
  <2> QED  BY <2>13, <2>14 DEF new
<1> HIDE DEF T
<1>5. \A m \in Nat : m \in T
  BY <1>3, <1>4, Induct
<1>6. i \in T
  BY <1>1, <1>5
<1> QED  BY <1>6 DEF T, S

(* The texts between the cuts, the last one included. *)
Pieces(t, p) ==
    [k \in 1..(Len(p) + 1) |->
        SubSeq(t, Begin(p, k - 1), IF k <= Len(p) THEN p[k] - 1 ELSE Len(t))]

(* The lexer's statements are those pieces, trimmed, without the blank     *)
(* ones.                                                                   *)
LEMMA StatementsArePieces ==
    ASSUME NEW C, NEW t \in Seq(C)
    PROVE  LET w == Pieces(t, Positions(Len(t), Separators(t)))
           IN Statements(t) = Without([k \in DOMAIN w |-> TrimSpace(w[k])], <<>>)
<1> DEFINE n == Len(t)
           p == Positions(n, Separators(t))
           w == Pieces(t, p)
           cuts == <<0>> \o p \o <<n + 1>>
           piece(k) == SubSeq(t, cuts[k] + 1, cuts[k + 1] - 1)
           a == [k \in 1..(Len(cuts) - 1) |-> TrimSpace(piece(k))]
           b == [k \in DOMAIN w |-> TrimSpace(w[k])]
<1>1. n \in Nat
  BY LenProperties
<1>2. /\ p \in Seq(1..n) /\ Len(p) \in Nat
      /\ \A k \in 1..Len(p) : p[k] \in 1..n
  BY <1>1, PositionsAre, LenProperties
<1>3. /\ Len(cuts) = Len(p) + 2
      /\ cuts[1] = 0 /\ cuts[Len(p) + 2] = n + 1
      /\ \A k \in 1..Len(p) : cuts[k + 1] = p[k]
  <2>1. p \in Seq(Int) /\ <<0>> \in Seq(Int) /\ <<n + 1>> \in Seq(Int)
    <3>1. 1..n \subseteq Int
      OBVIOUS
    <3> QED  BY <1>1, <1>2, <3>1, SeqMonotonic
  <2> DEFINE l == <<0>> \o p
  <2>2. /\ l \in Seq(Int) /\ Len(l) = Len(p) + 1
        /\ l[1] = 0 /\ \A k \in 1..Len(p) : l[k + 1] = p[k]
    BY <1>2, <2>1, ConcatProperties
  <2> HIDE DEF p, l
  <2>3. /\ Len(l \o <<n + 1>>) = Len(p) + 2
        /\ \A k \in 1..(Len(p) + 1) : (l \o <<n + 1>>)[k] = l[k]
        /\ (l \o <<n + 1>>)[Len(p) + 2] = n + 1
    BY <1>2, <2>1, <2>2, ConcatProperties
  <2> QED  BY <1>2, <2>2, <2>3 DEF l
<1> HIDE DEF p, cuts
<1>4. DOMAIN w = 1..(Len(p) + 1)
  BY DEF Pieces
<1>5. ASSUME NEW k \in 1..(Len(p) + 1)
      PROVE  piece(k) = w[k]
  <2>1. cuts[k] + 1 = Begin(p, k - 1)
    <3>1. k - 1 # 0 => k - 1 \in 1..Len(p) /\ (k - 1) + 1 = k
      BY <1>2
    <3> QED  BY <1>2, <1>3, <3>1 DEF Begin
  <2>2. cuts[k + 1] - 1 = IF k <= Len(p) THEN p[k] - 1 ELSE n
    <3>1. CASE k <= Len(p)
      <4>1. k \in 1..Len(p)
        BY <1>2, <3>1
      <4> QED  BY <1>3, <3>1, <4>1
    <3>2. CASE ~(k <= Len(p))
      <4>1. k + 1 = Len(p) + 2
        BY <1>2, <3>2
      <4> QED  BY <1>1, <1>3, <3>2, <4>1
    <3> QED  BY <3>1, <3>2
  <2> QED  BY <2>1, <2>2 DEF Pieces
<1>6. a = b
  <2>1. Len(cuts) - 1 = Len(p) + 1
    BY <1>2, <1>3
  <2> HIDE DEF w, piece
  <2> QED  BY <1>4, <1>5, <2>1, Zenon
<1>7. Statements(t) = Without(a, <<>>)
  BY Zenon DEF Statements, cuts, p
<1> QED  BY <1>6, <1>7 DEF p

(* The statements that run are those a lexer finds, for every text:        *)
(* runStatements trims the pieces of splitSQL and skips the blank ones     *)
(* (exec.go:14-28), and a piece that only the end of the text closes is    *)
(* dropped by both if it is blank.                                         *)
THEOREM SplitsLikeLexer ==
    ASSUME NEW C, NEW t \in Seq(C)
    PROVE  RunStatements(t) = Statements(t)
<1> DEFINE n == Len(t)
           p == Positions(n, Separators(t))
           w == Pieces(t, p)
           pieces == SplitSQL(t)
           V == {TrimSpace(u) : u \in Seq(C)} \cup {<<>>}
<1>1. PICK after : /\ SplitLoop(after, t)
                   /\ pieces = IF TrimSpace(after[n].cur) # <<>>
                               THEN Append(after[n].out, after[n].cur)
                               ELSE after[n].out
  BY SplitUnfold
<1> DEFINE out == after[n].out
           cur == after[n].cur
<1>2. n \in Nat
  BY LenProperties
<1>3. out \in Seq(Seq(C)) /\ cur \in Seq(C)
  BY <1>1, <1>2, SplitTyped DEF SplitState
<1>4. /\ Len(out) = Len(p)
      /\ \A k \in 1..Len(p) : out[k] = SubSeq(t, Begin(p, k - 1), p[k] - 1)
      /\ cur = SubSeq(t, Begin(p, Len(p)), n)
  BY <1>1, <1>2, CollectedIs DEF Collected
<1>5. Len(p) \in Nat
  BY <1>3, <1>4, LenProperties
<1> HIDE DEF p, out, cur, pieces, n
<1>6. /\ DOMAIN w = 1..(Len(p) + 1)
      /\ \A k \in 1..Len(p) : w[k] = out[k]
      /\ w[Len(p) + 1] = cur
  <2>1. DOMAIN w = 1..(Len(p) + 1)
    BY DEF Pieces
  <2>2. ASSUME NEW k \in 1..Len(p)
        PROVE  w[k] = out[k]
    <3>1. k \in 1..(Len(p) + 1) /\ k <= Len(p)
      BY <1>5
    <3> QED  BY <1>4, <3>1 DEF Pieces
  <2>3. w[Len(p) + 1] = cur
    <3>1. Len(p) + 1 \in 1..(Len(p) + 1) /\ ~(Len(p) + 1 <= Len(p)) /\ (Len(p) + 1) - 1 = Len(p)
      BY <1>5
    <3> QED  BY <1>4, <3>1 DEF Pieces, n
  <2> QED  BY <2>1, <2>2, <2>3
<1> HIDE DEF w
<1> DEFINE all == [k \in DOMAIN w |-> TrimSpace(w[k])]
           ran == [k \in DOMAIN pieces |-> TrimSpace(pieces[k])]
<1>7. Statements(t) = Without(all, <<>>)
  BY StatementsArePieces DEF w, p, n
<1>8. RunStatements(t) = Without(ran, <<>>)
  BY DEF RunStatements, pieces
<1>9. DOMAIN out = 1..Len(p)
  BY <1>3, <1>4, LenProperties
<1>10. CASE TrimSpace(cur) # <<>>
  <2>1. pieces = Append(out, cur)
    BY <1>1, <1>10 DEF out, cur, n
  <2>2. /\ DOMAIN pieces = 1..(Len(p) + 1)
        /\ \A k \in 1..Len(p) : pieces[k] = out[k]
        /\ pieces[Len(p) + 1] = cur
    <3>1. /\ Append(out, cur) \in Seq(Seq(C))
          /\ Len(Append(out, cur)) = Len(out) + 1
          /\ \A k \in 1..Len(out) : Append(out, cur)[k] = out[k]
          /\ Append(out, cur)[Len(out) + 1] = cur
      BY <1>3, AppendProperties
    <3>2. DOMAIN Append(out, cur) = 1..Len(Append(out, cur))
      BY <3>1, LenProperties
    <3> QED  BY <1>4, <2>1, <3>1, <3>2, Zenon
  <2>3. \A k \in 1..(Len(p) + 1) : pieces[k] = w[k]
    <3>1. \A k \in 1..(Len(p) + 1) : k \in 1..Len(p) \/ k = Len(p) + 1
      BY <1>5
    <3> QED  BY <1>6, <2>2, <3>1, Zenon
  <2>4. ran = all
    BY <1>6, <2>2, <2>3
  <2> QED  BY <1>7, <1>8, <2>4, Zenon
<1>11. CASE TrimSpace(cur) = <<>>
  <2>1. pieces = out
    BY <1>1, <1>11 DEF out, cur, n
  <2>2. ran = [k \in 1..Len(p) |-> TrimSpace(out[k])]
    BY <1>9, <2>1
  <2>3. \A k \in 1..Len(p) : TrimSpace(out[k]) \in V
    <3>1. \A k \in 1..Len(p) : out[k] \in Seq(C)
      BY <1>3, <1>9, ElementOfSeq
    <3> QED  BY <3>1
  <2> HIDE DEF ran, V
  <2>4. ran \in Seq(V) /\ Len(ran) = Len(p)
    BY <1>5, <2>2, <2>3
  <2>5. all = Append(ran, <<>>)
    <3>1. all = [k \in 1..(Len(p) + 1) |-> IF k = Len(p) + 1 THEN <<>> ELSE ran[k]]
      <4>1. \A k \in 1..(Len(p) + 1) : k \in 1..Len(p) \/ k = Len(p) + 1
        BY <1>5
      <4>2. \A k \in 1..(Len(p) + 1) :
               TrimSpace(w[k]) = IF k = Len(p) + 1 THEN <<>> ELSE ran[k]
        BY <1>6, <1>11, <2>2, <4>1, Zenon
      <4> QED  BY <1>6, <4>2, Zenon
    <3> DEFINE more == Append(ran, <<>>)
    <3>2. /\ more \in Seq(V) /\ Len(more) = Len(p) + 1
          /\ \A k \in 1..Len(p) : more[k] = ran[k]
          /\ more[Len(p) + 1] = <<>>
      <4>1. <<>> \in V
        BY DEF V
      <4> QED  BY <2>4, <4>1, AppendProperties
    <3> HIDE DEF more
    <3>3. more = [k \in 1..(Len(p) + 1) |-> more[k]]
      BY <3>2
    <3>4. \A k \in 1..(Len(p) + 1) : more[k] = IF k = Len(p) + 1 THEN <<>> ELSE ran[k]
      <4>1. \A k \in 1..(Len(p) + 1) : k \in 1..Len(p) \/ k = Len(p) + 1
        BY <1>5
      <4> QED  BY <3>2, <4>1
    <3> QED  BY <3>1, <3>3, <3>4, Zenon DEF more
  <2>6. <<>> \in V
    BY DEF V
  <2> HIDE DEF all
  <2> QED  BY <1>7, <1>8, <2>4, <2>5, <2>6, WithoutBlankEnd
<1> QED  BY <1>10, <1>11

(***************************************************************************)
(* The pager.                                                              *)
(***************************************************************************)
-----------------------------------------------------------------------------
(***************************************************************************)
(* The pager. Paged is the invariant of a user who pages: what was seen so *)
(* far is the table's rows up to the end of the page, each once and in     *)
(* order.                                                                  *)
(***************************************************************************)
Least(a, b) == IF a <= b THEN a ELSE b
Most(a, b) == IF a >= b THEN a ELSE b

(* Min and Max choose from a pair. *)
LEMMA MinMaxOfTwo ==
    \A a, b \in Int : Min({a, b}) = Least(a, b) /\ Max({a, b}) = Most(a, b)
<1> SUFFICES ASSUME NEW a \in Int, NEW b \in Int
    PROVE  Min({a, b}) = Least(a, b) /\ Max({a, b}) = Most(a, b)
  OBVIOUS
<1> DEFINE S == {a, b}
<1>1. Min(S) = Least(a, b)
  <2>1. \E x \in S : \A y \in S : x <= y
    BY DEF Least
  <2> HIDE DEF S
  <2>2. Min(S) \in S /\ \A y \in S : Min(S) <= y
    BY <2>1, Zenon DEF Min
  <2> QED  BY <2>2 DEF S, Least
<1>2. Max(S) = Most(a, b)
  <2>1. \E x \in S : \A y \in S : x >= y
    BY DEF Most
  <2> HIDE DEF S
  <2>2. Max(S) \in S /\ \A y \in S : Max(S) >= y
    BY <2>1, Zenon DEF Max
  <2> QED  BY <2>2 DEF S, Most
<1> QED  BY <1>1, <1>2

(* How many rows SampleRows returns. *)
PageLength(n, offset, limit) ==
    Most(0, Least(IF limit = 0 THEN 100 ELSE limit, n - offset))

(* SampleRows returns that many rows, those behind the offset. *)
LEMMA SampleRowsIs ==
    ASSUME NEW n \in Nat, NEW offset \in Nat, NEW limit \in Nat
    PROVE  /\ SampleRows(n, offset, limit) = [i \in 1..PageLength(n, offset, limit) |-> offset + i]
           /\ SampleRows(n, offset, limit) \in Seq(Nat)
           /\ Len(SampleRows(n, offset, limit)) = PageLength(n, offset, limit)
<1> DEFINE most == IF limit = 0 THEN 100 ELSE limit
           less == Least(most, n - offset)
           len == PageLength(n, offset, limit)
<1>1. most \in Nat /\ most = IF limit <= 0 THEN DefaultLimit ELSE limit
  BY DEF DefaultLimit
<1>2. len = Most(0, less)
  BY DEF PageLength
<1> HIDE DEF most
<1>3. less \in Int
  BY <1>1 DEF Least
<1>4. Min({most, n - offset}) = less
  BY <1>1, MinMaxOfTwo
<1> HIDE DEF less, len
<1>5. Max({0, less}) = len
  BY <1>2, <1>3, MinMaxOfTwo
<1>6. len \in Nat
  BY <1>2, <1>3 DEF Most
<1>7. SampleRows(n, offset, limit) = [i \in 1..len |-> offset + i]
  BY <1>1, <1>4, <1>5, Zenon DEF SampleRows
<1>8. \A i \in 1..len : offset + i \in Nat
  BY <1>6
<1> QED  BY <1>6, <1>7, <1>8 DEF len

(* How far the user has come: all rows up to the end of the page shown;    *)
(* with a limit of zero, the first page any number of times.               *)
Paged(at, n, limit) ==
    /\ at.seen \in Seq(Nat)
    /\ IF limit = 0
       THEN at.offset = 0 /\ Range(at.seen) = 1..Least(n, 100)
       ELSE /\ at.offset \in Nat /\ at.before \in Nat
            /\ \/ at.offset = 0 /\ at.before = 0
               \/ at.offset = at.before + limit
            /\ Len(at.seen) = Least(n, at.offset + limit)
            /\ \A i \in 1..Len(at.seen) : at.seen[i] = i

(* Opening the table shows its first page ... *)
LEMMA FirstIsPaged ==
    ASSUME NEW n \in Nat, NEW limit \in Nat
    PROVE  Paged([offset |-> 0, before |-> 0, seen |-> SampleRows(n, 0, limit)], n, limit)
<1> DEFINE page == SampleRows(n, 0, limit)
           len == PageLength(n, 0, limit)
<1>1. page = [i \in 1..len |-> 0 + i] /\ page \in Seq(Nat) /\ Len(page) = len
  BY SampleRowsIs
<1>2. len = Least(n, IF limit = 0 THEN 100 ELSE limit) /\ len \in Nat
  BY DEF PageLength, Most, Least
<1> HIDE DEF page, len
<1>3. \A i \in 1..len : page[i] = i
  BY <1>1
<1>4. Range(page) = 1..len
  <2>1. Range(page) = {page[i] : i \in 1..len}
    BY <1>1, Zenon DEF Range
  <2> QED  BY <1>3, <2>1
<1> QED  BY <1>1, <1>2, <1>3, <1>4 DEF Paged, page

(* ... and a press of next, while it is enabled, the page behind. *)
LEMMA NextIsPaged ==
    ASSUME NEW n \in Nat, NEW limit \in Nat, NEW at, Paged(at, n, limit),
           HasMore(Len(SampleRows(n, at.offset, limit)), limit)
    PROVE  LET to == NextOffset(at.offset, limit)
           IN Paged([offset |-> to, before |-> at.offset,
                     seen |-> at.seen \o SampleRows(n, to, limit)], n, limit)
<1> DEFINE to == NextOffset(at.offset, limit)
           page == SampleRows(n, to, limit)
           new == at.seen \o page
<1>1. at.seen \in Seq(Nat) /\ Len(at.seen) \in Nat
  BY LenProperties DEF Paged
<1>2. CASE limit = 0
  <2>1. at.offset = 0 /\ to = 0 /\ Range(at.seen) = 1..Least(n, 100)
    BY <1>2 DEF Paged, NextOffset
  <2>2. Paged([offset |-> 0, before |-> 0, seen |-> page], n, limit)
    BY <2>1, FirstIsPaged
  <2>3. page \in Seq(Nat) /\ Range(page) = 1..Least(n, 100)
    BY <1>2, <2>2 DEF Paged
  <2> HIDE DEF to, page
  <2>4. new \in Seq(Nat) /\ Range(new) = Range(at.seen) \cup Range(page)
    <3>1. new \in Seq(Nat)
      BY <1>1, <2>3, ConcatProperties
    <3>2. at.seen \in Seq(Nat) /\ page \in Seq(Nat)
      BY <1>1, <2>3
    <3>3. Range(at.seen \o page) = Range(at.seen) \cup Range(page)
      BY <3>2, RangeConcatenation, Zenon
    <3> QED  BY <3>1, <3>3, Zenon
  <2>5. Range(new) = 1..Least(n, 100)
    BY <2>1, <2>3, <2>4, Zenon
  <2> HIDE DEF new
  <2> QED  BY <1>2, <2>1, <2>4, <2>5 DEF Paged, new, page, to
<1>3. CASE limit # 0
  <2>1. /\ at.offset \in Nat /\ at.before \in Nat
        /\ Len(at.seen) = Least(n, at.offset + limit)
        /\ \A i \in 1..Len(at.seen) : at.seen[i] = i
    BY <1>3 DEF Paged
  <2>2. to = at.offset + limit /\ to \in Nat
    BY <2>1 DEF NextOffset
  <2>3. n >= to
    <3>1. PageLength(n, at.offset, limit) >= limit
      BY <2>1, SampleRowsIs DEF HasMore
    <3> QED  BY <1>3, <2>1, <2>2, <3>1 DEF PageLength, Most, Least
  <2> DEFINE len == PageLength(n, to, limit)
  <2>4. page = [i \in 1..len |-> to + i] /\ page \in Seq(Nat) /\ Len(page) = len
    BY <2>2, SampleRowsIs
  <2> HIDE DEF to, page
  <2>5. len \in Nat /\ Len(at.seen) = to /\ to + len = Least(n, to + limit)
    <3>1. len = Most(0, Least(limit, n - to))
      BY <1>3 DEF PageLength
    <3> HIDE DEF len
    <3>2. to \in Nat /\ Len(at.seen) = Least(n, to)
      BY <2>1, <2>2
    <3> QED  BY <2>3, <3>1, <3>2 DEF Most, Least
  <2> HIDE DEF len
  <2>6. /\ new \in Seq(Nat) /\ Len(new) = to + len
        /\ \A i \in 1..(to + len) : new[i] = IF i <= to THEN at.seen[i] ELSE page[i - to]
    <3>1. /\ new \in Seq(Nat) /\ Len(new) = Len(at.seen) + Len(page)
          /\ \A i \in 1..(Len(at.seen) + Len(page)) :
                new[i] = IF i <= Len(at.seen) THEN at.seen[i] ELSE page[i - Len(at.seen)]
      BY <1>1, <2>4, ConcatProperties
    <3> HIDE DEF new
    <3> QED  BY <2>4, <2>5, <3>1
  <2>7. \A i \in 1..(to + len) : new[i] = i
    <3>1. ASSUME NEW i \in 1..(to + len), i <= to
          PROVE  new[i] = i
      BY <2>1, <2>2, <2>5, <2>6, <3>1
    <3>2. ASSUME NEW i \in 1..(to + len), ~(i <= to)
          PROVE  new[i] = i
      <4>1. i - to \in 1..len /\ to + (i - to) = i
        <5>1. to \in Nat /\ len \in Nat
          BY <2>2, <2>5
        <5> QED  BY <3>2, <5>1
      <4> QED  BY <2>4, <2>6, <3>2, <4>1
    <3> QED  BY <3>1, <3>2
  <2> HIDE DEF new
  <2> QED  BY <1>3, <2>1, <2>2, <2>5, <2>6, <2>7 DEF Paged, new, page, to
<1> QED  BY <1>2, <1>3 DEF new, to, page

-----------------------------------------------------------------------------
(***************************************************************************)
(* The new-table form.                                                     *)
(***************************************************************************)
LEMMA ParsedAre ==
    ASSUME NEW R, NEW rows \in Seq(R)
    PROVE  LET columns == ParseCreateTableForm(Browser(rows))
               want == Named(rows)
           IN /\ columns \in Seq({columns[i] : i \in DOMAIN columns})
              /\ Len(columns) = Len(want)
              /\ \A i \in DOMAIN columns : /\ columns[i].name = want[i].name
                                        /\ columns[i].type = want[i].type
                                        /\ columns[i].default = want[i].default
<1> DEFINE n == Len(rows)
           f == Browser(rows)
           col(i) == [name |-> f.name[i], type |-> Nth(f.type, i),
                      nullable |-> Nth(f.nullable, i) = "1",
                      pk |-> Nth(f.pk, i) = "1", default |-> Nth(f.default, i)]
           all == [i \in DOMAIN f.name |-> col(i)]
           S == {i \in DOMAIN f.name : f.name[i] # <<>>}
           p == Positions(n, S)
<1>1. n \in Nat /\ DOMAIN rows = 1..n
  BY LenProperties
<1>2. /\ f.name = [i \in 1..n |-> rows[i].name]
      /\ f.type = [i \in 1..n |-> rows[i].type]
      /\ f.default = [i \in 1..n |-> rows[i].default]
  BY <1>1 DEF Browser
<1>3. /\ ParseCreateTableForm(f) = Pick(all, S)
      /\ Named(rows) = Pick(rows, S)
  <2>1. ParseCreateTableForm(f) = Pick(all, S)
    BY Zenon DEF ParseCreateTableForm
  <2>2. S = {i \in DOMAIN rows : rows[i].name # <<>>}
    <3> HIDE DEF f
    <3> QED  BY <1>1, <1>2
  <2> QED  BY <2>1, <2>2 DEF Named
<1> HIDE DEF f
<1>4. DOMAIN f.name = 1..n /\ Len(f.type) = n /\ Len(f.default) = n
  BY <1>1, <1>2
<1>5. \A i \in 1..n : /\ col(i).name = rows[i].name
                      /\ col(i).type = rows[i].type
                      /\ col(i).default = rows[i].default
  BY <1>1, <1>2, <1>4 DEF Nth
<1> HIDE DEF S, n, col
<1>6. /\ all \in Seq({col(i) : i \in 1..n}) /\ Len(all) = n
      /\ \A i \in 1..n : all[i] = col(i)
  BY <1>1, <1>4
<1> HIDE DEF all
<1>7. /\ Pick(all, S) = [k \in 1..Len(p) |-> all[p[k]]]
      /\ Pick(all, S) \in Seq({col(i) : i \in 1..n})
      /\ Len(Pick(all, S)) = Len(p) /\ DOMAIN Pick(all, S) = 1..Len(p)
  BY <1>6, PickIs
<1>8. Pick(rows, S) = [k \in 1..Len(p) |-> rows[p[k]]] /\ Len(Pick(rows, S)) = Len(p)
  BY PickIs DEF n
<1>9. \A k \in 1..Len(p) : p[k] \in 1..n
  BY <1>1, PositionsAre
<1> DEFINE columns == Pick(all, S)
           want == Pick(rows, S)
<1>10. columns \in Seq({columns[i] : i \in DOMAIN columns})
  <2> HIDE DEF columns
  <2>1. columns \in Seq({col(i) : i \in 1..n})
    BY <1>7 DEF columns
  <2>2. Range(columns) = {columns[i] : i \in DOMAIN columns}
    BY Zenon DEF Range
  <2>3. columns \in Seq(Range(columns))
    BY <2>1, SeqOfRange
  <2> QED  BY <2>2, <2>3
<1>11. ASSUME NEW k \in 1..Len(p)
       PROVE  /\ columns[k].name = want[k].name
              /\ columns[k].type = want[k].type
              /\ columns[k].default = want[k].default
  <2>1. columns[k] = col(p[k]) /\ want[k] = rows[p[k]]
    BY <1>6, <1>7, <1>8, <1>9
  <2> QED  BY <1>5, <1>9, <2>1
<1>12. Len(columns) = Len(want) /\ DOMAIN columns = 1..Len(p)
  BY <1>7, <1>8
<1> HIDE DEF columns, want, p
<1> QED  BY <1>3, <1>10, <1>11, <1>12, Zenon DEF columns, want, f

-----------------------------------------------------------------------------
(***************************************************************************)
(* CREATE TABLE.                                                           *)
(***************************************************************************)
(* The lines are the columns, the key if there is one, and the rest.       *)
LEMMA LinesWellFormed ==
    ASSUME NEW V, NEW columns \in Seq(V), NEW fks \in Nat, NEW comma, NEW D, NEW rest \in Seq(D),
           comma <=> fks > 0, Len(rest) = fks,
           \A i \in 1..fks : rest[i].what = "foreign" /\ (rest[i].comma <=> i < fks)
    PROVE  WellFormed(ColumnLines(columns, fks) \o KeyLine(columns, comma) \o rest, columns, fks)
<1> DEFINE n == Len(columns)
           keys == KeyColumns(columns, n)
           names == [i \in DOMAIN keys |-> keys[i].name]
           a == ColumnLines(columns, fks)
           k == IF keys = <<>> THEN 0 ELSE 1
           key == KeyLine(columns, comma)
           lines == a \o key \o rest
<1>1. n \in Nat /\ DOMAIN columns = 1..n
  BY LenProperties
<1>2. /\ a \in Seq(Range(a)) /\ Len(a) = n
      /\ \A i \in 1..n : /\ a[i].what = "column" /\ a[i].names = <<columns[i].name>>
                         /\ a[i].comma <=> i < n \/ keys # <<>> \/ fks > 0
  <2>1. a = [i \in 1..n |-> Line("column", <<columns[i].name>>, ColumnComma(columns, i, fks))]
    BY <1>1 DEF ColumnLines
  <2>2. a \in Seq({a[i] : i \in 1..n}) /\ Len(a) = n
    <3>1. a = [i \in 1..n |-> a[i]]
      BY <2>1
    <3> HIDE DEF a, n
    <3> QED  BY <1>1, <3>1
  <2>3. a \in Seq(Range(a))
    <3> HIDE DEF a
    <3> QED  BY <2>2, SeqOfRange
  <2>4. ASSUME NEW i \in 1..n
        PROVE  /\ a[i].what = "column" /\ a[i].names = <<columns[i].name>>
               /\ a[i].comma <=> i < n \/ keys # <<>> \/ fks > 0
    <3>1. PICK c : c = ColumnComma(columns, i, fks)
      OBVIOUS
    <3>2. a[i] = [what |-> "column", names |-> <<columns[i].name>>, comma |-> c]
      BY <2>1, <3>1 DEF Line
    <3>3. c <=> i < n \/ keys # <<>> \/ fks > 0
      <4>1. ~(i < n) => i = n
        <5> HIDE DEF n
        <5> QED  BY <1>1
      <4> QED  BY <3>1, <4>1 DEF ColumnComma, n
    <3> HIDE DEF a
    <3> QED  BY <3>2, <3>3
  <2> QED  BY <2>2, <2>3, <2>4
<1>3. /\ key \in Seq(Range(key)) /\ Len(key) = k
      /\ k = 1 => key[1].what = "key" /\ key[1].names = names /\ (key[1].comma <=> fks > 0)
  <2>1. CASE keys = <<>>
    <3>1. key = <<>>
      BY <2>1, Zenon DEF KeyLine
    <3> HIDE DEF key, keys
    <3>2. Len(key) = 0 /\ key \in Seq(Range(key))
      BY <3>1, EmptySeq
    <3> QED  BY <2>1, <3>2
  <2>2. CASE keys # <<>>
    <3> DEFINE line == Line("key", names, comma)
    <3>1. key = <<line>>
      BY <2>2, Zenon DEF KeyLine
    <3>2. line.what = "key" /\ line.names = names /\ line.comma = comma
      BY DEF Line
    <3> HIDE DEF line, key, names, keys
    <3>3. key \in Seq({line}) /\ Len(key) = 1 /\ key[1] = line
      BY <3>1
    <3>4. key \in Seq(Range(key))
      BY <3>3, SeqOfRange
    <3> QED  BY <2>2, <3>2, <3>3, <3>4
  <2> QED  BY <2>1, <2>2
<1> DEFINE len == n + k + fks
           L == Range(a) \cup Range(key) \cup D
<1>4. k \in {0, 1} /\ (k = 1 <=> keys # <<>>)
  OBVIOUS
<1> HIDE DEF a, key, k, n, L, names
<1>5. /\ lines \in Seq(L) /\ Len(lines) = len
      /\ \A i \in 1..n : lines[i] = a[i]
      /\ k = 1 => lines[n + 1] = key[1]
      /\ \A i \in 1..fks : lines[n + k + i] = rest[i]
  <2> DEFINE l == a \o key
  <2>1. a \in Seq(L) /\ key \in Seq(L) /\ rest \in Seq(L)
    <3>1. Range(a) \subseteq L /\ Range(key) \subseteq L /\ D \subseteq L
      BY DEF L
    <3> QED  BY <1>2, <1>3, <3>1, SeqMonotonic
  <2>2. /\ l \in Seq(L) /\ Len(l) = n + k
        /\ \A i \in 1..(n + k) : l[i] = IF i <= n THEN a[i] ELSE key[i - n]
    <3>1. /\ l \in Seq(L) /\ Len(l) = Len(a) + Len(key)
          /\ \A i \in 1..(Len(a) + Len(key)) :
                l[i] = IF i <= Len(a) THEN a[i] ELSE key[i - Len(a)]
      BY <2>1, ConcatProperties
    <3> HIDE DEF l
    <3> QED  BY <1>2, <1>3, <3>1
  <2> HIDE DEF l
  <2>3. /\ l \o rest \in Seq(L) /\ Len(l \o rest) = n + k + fks
        /\ \A i \in 1..(n + k + fks) :
              (l \o rest)[i] = IF i <= n + k THEN l[i] ELSE rest[i - (n + k)]
    <3>1. /\ l \o rest \in Seq(L) /\ Len(l \o rest) = Len(l) + Len(rest)
          /\ \A i \in 1..(Len(l) + Len(rest)) :
                (l \o rest)[i] = IF i <= Len(l) THEN l[i] ELSE rest[i - Len(l)]
      BY <2>1, <2>2, ConcatProperties
    <3> QED  BY <2>2, <3>1
  <2>4. lines = l \o rest
    BY DEF l
  <2> HIDE DEF lines
  <2>5. ASSUME NEW i \in 1..n
        PROVE  lines[i] = a[i]
    <3>1. i \in 1..(n + k) /\ i \in 1..(n + k + fks) /\ i <= n /\ i <= n + k
      BY <1>1, <1>4
    <3> QED  BY <2>2, <2>3, <2>4, <3>1
  <2>6. ASSUME k = 1
        PROVE  lines[n + 1] = key[1]
    <3>1. /\ n + 1 \in 1..(n + k) /\ n + 1 \in 1..(n + k + fks) /\ ~(n + 1 <= n)
          /\ n + 1 <= n + k /\ (n + 1) - n = 1
      BY <1>1, <2>6
    <3> QED  BY <2>2, <2>3, <2>4, <3>1
  <2>7. ASSUME NEW i \in 1..fks
        PROVE  lines[n + k + i] = rest[i]
    <3>1. /\ n + k + i \in 1..(n + k + fks) /\ ~(n + k + i <= n + k)
          /\ (n + k + i) - (n + k) = i
      BY <1>1, <1>4
    <3> QED  BY <2>3, <2>4, <3>1
  <2> QED  BY <2>3, <2>4, <2>5, <2>6, <2>7
<1> HIDE DEF lines, keys
<1>6. ASSUME NEW i \in 1..len
      PROVE  \/ i \in 1..n
             \/ k = 1 /\ i = n + 1
             \/ \E j \in 1..fks : i = n + k + j
  <2>1. CASE i <= n + k
    BY <1>1, <1>4, <2>1
  <2>2. CASE ~(i <= n + k)
    <3>1. i - (n + k) \in 1..fks /\ i = n + k + (i - (n + k))
      BY <1>1, <1>4, <2>2
    <3> QED  BY <3>1
  <2> QED  BY <2>1, <2>2
<1>7. ASSUME NEW i \in 1..len
      PROVE  /\ lines[i].comma <=> i < len
             /\ lines[i].what = "column" <=> i <= n
             /\ lines[i].what = "key" => k = 1 /\ i = n + 1
  <2>1. CASE i \in 1..n
    <3>1. i < len <=> i < n \/ k = 1 \/ fks > 0
      <4>1. k = 0 \/ k = 1
        BY <1>4
      <4> QED  BY <1>1, <2>1, <4>1
    <3> QED  BY <1>1, <1>2, <1>4, <1>5, <2>1, <3>1
  <2>2. CASE k = 1 /\ i = n + 1
    <3>1. (i < len <=> fks > 0) /\ ~(i <= n)
      BY <1>1, <2>2
    <3> QED  BY <1>3, <1>5, <2>2, <3>1
  <2>3. ASSUME NEW j \in 1..fks, i = n + k + j
        PROVE  /\ lines[i].comma <=> i < len
               /\ lines[i].what = "column" <=> i <= n
               /\ lines[i].what # "key"
    <3>1. (i < len <=> j < fks) /\ ~(i <= n)
      BY <1>1, <1>4, <2>3
    <3>2. lines[i] = rest[j]
      BY <1>5, <2>3
    <3> QED  BY <3>1, <3>2
  <2> QED  BY <1>6, <2>1, <2>2, <2>3
<1>8. \A i \in 1..n : lines[i].names = <<columns[i].name>>
  BY <1>2, <1>5
<1>9. {lines[i].names : i \in {j \in 1..len : lines[j].what = "key"}}
         = IF keys = <<>> THEN {} ELSE {names}
  <2>1. CASE keys = <<>>
    <3>1. k # 1
      BY <1>4, <2>1
    <3> QED  BY <1>7, <2>1, <3>1
  <2>2. CASE keys # <<>>
    <3>1. k = 1 /\ n + 1 \in 1..len
      BY <1>1, <1>4, <2>2
    <3>2. lines[n + 1].what = "key" /\ lines[n + 1].names = names
      BY <1>3, <1>5, <3>1
    <3> HIDE DEF len
    <3>3. {j \in 1..len : lines[j].what = "key"} = {n + 1}
      BY <1>7, <3>1, <3>2
    <3> QED  BY <2>2, <3>2, <3>3
  <2> QED  BY <2>1, <2>2
<1>10. DOMAIN lines = 1..len /\ Len(lines) = n + fks + k
  BY <1>1, <1>4, <1>5, LenProperties
<1> HIDE DEF len
<1> QED  BY <1>1, <1>5, <1>7, <1>8, <1>9, <1>10 DEF WellFormed, n, names, keys, k, lines, a, key

(* What the drivers describe a table with is well formed. *)
LEMMA SynthesisedWellFormed ==
    ASSUME NEW V, NEW columns \in Seq(V), NEW fks \in Nat
    PROVE  WellFormed(SynthesisedCreateTable(columns, fks), columns, fks)
<1> DEFINE rest == [i \in 1..fks |-> Line("foreign", <<>>, i < fks)]
           comma == fks > 0
           D == {rest[i] : i \in 1..fks}
<1>1. SynthesisedCreateTable(columns, fks)
         = ColumnLines(columns, fks) \o KeyLine(columns, comma) \o rest
  BY Zenon DEF SynthesisedCreateTable
<1>2. rest \in Seq(D) /\ Len(rest) = fks
  <2>1. rest = [i \in 1..fks |-> rest[i]]
    OBVIOUS
  <2> HIDE DEF rest
  <2> QED  BY <2>1
<1>3. ASSUME NEW i \in 1..fks
      PROVE  rest[i].what = "foreign" /\ (rest[i].comma <=> i < fks)
  <2> DEFINE c == i < fks
             line == [what |-> "foreign", names |-> <<>>, comma |-> c]
  <2>1. rest[i] = line
    BY Zenon DEF Line
  <2> HIDE DEF rest, c
  <2>2. line.what = "foreign" /\ line.comma = c
    OBVIOUS
  <2> HIDE DEF line
  <2>3. rest[i].what = "foreign" /\ (rest[i].comma <=> c)
    BY <2>1, <2>2
  <2> QED  BY <2>3, Zenon DEF c
<1>4. comma <=> fks > 0
  OBVIOUS
<1> HIDE DEF rest, comma, D
<1> QED  BY <1>1, <1>2, <1>3, <1>4, LinesWellFormed

(* So is what the new-table form makes, unless a column or a name is unfit. *)
LEMMA BuiltWellFormed ==
    ASSUME NEW V, NEW columns \in Seq(V), NEW k, NEW table
    PROVE  IF Unfit(k, table, columns)
           THEN BuildCreateTable(k, table, columns) = Refused
           ELSE WellFormed(BuildCreateTable(k, table, columns), columns, 0)
<1>1. CASE Unfit(k, table, columns)
  BY <1>1 DEF BuildCreateTable
<1>2. CASE columns = <<>>
  <2> DEFINE S == {i \in 1..0 : columns[i].pk}
  <2>1. Len(columns) = 0 /\ DOMAIN columns = {} /\ SubSeq(columns, 1, 0) = <<>>
    BY <1>2, SubSeqEmpty
  <2>2. KeyColumns(columns, 0) = <<>>
    <3>1. KeyColumns(columns, 0) = Pick(<<>>, S)
      BY <2>1, Zenon DEF KeyColumns
    <3> HIDE DEF S
    <3> DEFINE e == <<>>
               V0 == {}
    <3>2. e \in Seq(V0) /\ Len(e) = 0 /\ Positions(0, S) = e
      BY PositionsStep
    <3> HIDE DEF e, V0
    <3>3. Pick(e, S) \in Seq(V0) /\ Len(Pick(e, S)) = Len(Positions(Len(e), S))
      <4>1. \A s \in Seq(V0) :
               Pick(s, S) \in Seq(V0) /\ Len(Pick(s, S)) = Len(Positions(Len(s), S))
        BY PickIs
      <4> QED  BY <3>2, <4>1, Zenon
    <3>4. Len(Pick(e, S)) = 0
      BY <3>2, <3>3
    <3> QED  BY <3>1, <3>3, <3>4, EmptySeq DEF e
  <2>3. BuildCreateTable(k, table, columns) = <<>>
    BY <1>2 DEF BuildCreateTable, Refused
  <2>4. WellFormed(<<>>, columns, 0)
    BY <2>1, <2>2 DEF WellFormed
  <2> QED  BY <1>1, <2>3, <2>4
<1>3. CASE columns # <<>> /\ ~Unfit(k, table, columns)
  <2> DEFINE ddl == ColumnLines(columns, 0) \o KeyLine(columns, FALSE)
  <2>1. BuildCreateTable(k, table, columns) = ddl
    BY <1>3, Zenon DEF BuildCreateTable
  <2>2. WellFormed(ddl \o <<>>, columns, 0)
    <3> HIDE DEF ddl
    <3>1. <<>> \in Seq({}) /\ Len(<<>>) = 0 /\ (FALSE <=> 0 > 0)
      OBVIOUS
    <3>2. \A i \in 1..0 : FALSE
      OBVIOUS
    <3> QED  BY <3>1, <3>2, LinesWellFormed DEF ddl
  <2>3. ddl \o <<>> = ddl
    <3> DEFINE a == ColumnLines(columns, 0)
               key == KeyLine(columns, FALSE)
    <3>1. PICK A : a \in Seq(A)
      <4>1. a = [i \in 1..Len(columns) |-> a[i]] /\ Len(columns) \in Nat
        BY LenProperties DEF ColumnLines
      <4> HIDE DEF a
      <4>2. a \in Seq({a[i] : i \in 1..Len(columns)})
        BY <4>1
      <4> QED  BY <4>2
    <3>2. PICK K : key \in Seq(K)
      <4> DEFINE line == Line("key", [i \in DOMAIN KeyColumns(columns, Len(columns)) |->
                                        KeyColumns(columns, Len(columns))[i].name], FALSE)
      <4>1. key = <<>> \/ key = <<line>>
        BY Zenon DEF KeyLine
      <4> HIDE DEF key, line
      <4>2. key \in Seq({line})
        <5>1. <<line>> \in Seq({line})
          OBVIOUS
        <5> QED  BY <4>1, <5>1, EmptySeq
      <4> QED  BY <4>2
    <3> HIDE DEF a, key
    <3> DEFINE L == A \cup K
    <3>3. a \in Seq(L) /\ key \in Seq(L)
      BY <3>1, <3>2, SeqMonotonic
    <3> HIDE DEF L
    <3>4. a \o key \in Seq(L)
      BY <3>3, ConcatProperties
    <3> QED  BY <3>4, ConcatEmptySeq DEF a, key
  <2> HIDE DEF ddl
  <2> QED  BY <1>3, <2>1, <2>2, <2>3
<1> QED  BY <1>1, <1>2, <1>3

-----------------------------------------------------------------------------
(***************************************************************************)
(* Names and literals.                                                     *)
(***************************************************************************)
(* What Unquote does at character i.                                       *)
UnquoteBody(f, i, t, q) ==
    CASE i <= Len(t) /\ t[i] # q -> [f[i + 1] EXCEPT !.text = <<t[i]>> \o @]
      [] i < Len(t) /\ t[i] = q /\ t[i + 1] = q -> [f[i + 2] EXCEPT !.text = <<q>> \o @]
      [] OTHER -> [text |-> <<>>, rest |-> SubSeq(t, i + 1, Len(t))]

(* Unquote reads its recursive function behind the opening quote. *)
LEMMA UnquoteUnfold ==
    ASSUME NEW C, NEW t \in Seq(C), NEW q
    PROVE  \E f : /\ \A j \in 1..(Len(t) + 1) : f[j] = UnquoteBody(f, j, t, q)
                  /\ Unquote(t, q) = f[2]
<1> DEFINE n == Len(t)
           L == n + 1
           Good(m) == \E f : \A j \in 1..L : j > L - m => f[j] = UnquoteBody(f, j, t, q)
           T == {m \in Nat : Good(m)}
<1>1. n \in Nat /\ L \in Nat
  BY LenProperties
<1>2. 0 \in T
  <2>1. \A j \in 1..L : ~(j > L - 0)
    BY <1>1
  <2> HIDE DEF L
  <2> QED  BY <2>1
<1>3. ASSUME NEW f, NEW g, NEW j \in 1..L, \A i \in 1..L : i > j => f[i] = g[i]
      PROVE  UnquoteBody(f, j, t, q) = UnquoteBody(g, j, t, q)
  <2>1. j <= n => j + 1 \in 1..L /\ j + 1 > j
    BY <1>1
  <2>2. j < n => j + 2 \in 1..L /\ j + 2 > j
    BY <1>1
  <2>3. (j <= n => f[j + 1] = g[j + 1]) /\ (j < n => f[j + 2] = g[j + 2])
    BY <1>3, <2>1, <2>2
  <2> QED  BY <2>3, Zenon DEF UnquoteBody
<1>4. ASSUME NEW m \in Nat, m \in T
      PROVE  m + 1 \in T
  <2>1. PICK f : \A j \in 1..L : j > L - m => f[j] = UnquoteBody(f, j, t, q)
    BY <1>4
  <2> DEFINE g == [j \in 1..L |-> IF j > L - m THEN f[j] ELSE UnquoteBody(f, j, t, q)]
  <2>2. ASSUME NEW j \in 1..L, j > L - (m + 1)
        PROVE  g[j] = UnquoteBody(g, j, t, q)
    <3>1. g[j] = UnquoteBody(f, j, t, q)
      BY <2>1
    <3>2. \A i \in 1..L : i > j => i > L - m
      BY <1>1, <2>2
    <3>3. \A i \in 1..L : i > j => f[i] = g[i]
      BY <3>2
    <3> HIDE DEF g, L
    <3> QED  BY <1>3, <3>1, <3>3
  <2> HIDE DEF g
  <2>3. Good(m + 1)
    BY <2>2
  <2> QED  BY <2>3
<1> HIDE DEF T
<1>5. \A m \in Nat : m \in T
  BY <1>2, <1>4, Induct
<1>6. PICK h : \A j \in 1..L : h[j] = UnquoteBody(h, j, t, q)
  <2>1. PICK h : \A j \in 1..L : j > L - L => h[j] = UnquoteBody(h, j, t, q)
    BY <1>1, <1>5 DEF T
  <2>2. \A j \in 1..L : j > L - L
    BY <1>1
  <2> QED  BY <2>1, <2>2
<1>7. \E f : f = [j \in 1..L |-> UnquoteBody(f, j, t, q)]
  <2> DEFINE f == [j \in 1..L |-> h[j]]
  <2>1. \A j \in 1..L : f[j] = h[j]
    OBVIOUS
  <2>2. f = [j \in 1..L |-> f[j]]
    OBVIOUS
  <2> HIDE DEF f, L
  <2>3. \A j \in 1..L : f[j] = UnquoteBody(f, j, t, q)
    BY <1>3, <1>6, <2>1
  <2>4. f = [j \in 1..L |-> UnquoteBody(f, j, t, q)]
    BY <2>2, <2>3, Zenon
  <2> QED  BY <2>4
<1> DEFINE from == CHOOSE f : f = [j \in 1..L |-> UnquoteBody(f, j, t, q)]
<1>8. from = [j \in 1..L |-> UnquoteBody(from, j, t, q)]
  BY <1>7, Zenon
<1>9. Unquote(t, q) = from[2]
  BY Zenon DEF Unquote, UnquoteBody
<1> HIDE DEF from
<1> QED  BY <1>8, <1>9

(* d is s with each q doubled; of the ith character of s, pos[i] is the    *)
(* last place in d.                                                        *)
Doubles(d, s, q, pos) ==
    /\ \A i \in 0..Len(s) : pos[i] \in 0..Len(d)
    /\ pos[0] = 0 /\ pos[Len(s)] = Len(d)
    /\ \A i \in 1..Len(s) :
          IF s[i] = q THEN /\ pos[i] = pos[i - 1] + 2
                           /\ d[pos[i - 1] + 1] = q /\ d[pos[i - 1] + 2] = q
          ELSE pos[i] = pos[i - 1] + 1 /\ d[pos[i - 1] + 1] = s[i]

(* EXCEPT on what Unquote returns. *)
LEMMA TextExcept ==
    ASSUME NEW f, NEW x, NEW y, NEW a, f = [text |-> x, rest |-> y]
    PROVE  [f EXCEPT !.text = a \o @] = [text |-> a \o x, rest |-> y]
<1>1. f.text = x
  OBVIOUS
<1>2. PICK z : z = a \o x
  OBVIOUS
<1>3. [f EXCEPT !.text = z] = [text |-> z, rest |-> y]
  OBVIOUS
<1>4. [f EXCEPT !.text = a \o @] = [f EXCEPT !.text = z]
  BY <1>1, <1>2
<1> QED  BY <1>2, <1>3, <1>4

(* What has been doubled between quotes is read back. *)
LEMMA ReadBack ==
    ASSUME NEW C, NEW q \in C, NEW s \in Seq(C), NEW d \in Seq(C), NEW pos,
           Doubles(d, s, q, pos), NEW rest \in Seq(C), rest = <<>> \/ rest[1] # q
    PROVE  Unquote(<<q>> \o d \o <<q>> \o rest, q) = [text |-> s, rest |-> rest]
<1> DEFINE t == <<q>> \o d \o <<q>> \o rest
           n == Len(s)
           m == Len(d)
           r == Len(rest)
<1>1. n \in Nat /\ m \in Nat /\ r \in Nat
  BY LenProperties
<1>2. /\ t \in Seq(C) /\ Len(t) = m + 2 + r
      /\ \A k \in 1..m : t[k + 1] = d[k]
      /\ t[m + 2] = q
      /\ \A k \in 1..r : t[m + 2 + k] = rest[k]
  <2> DEFINE a == <<q>> \o d
             b == a \o <<q>>
  <2>1. <<q>> \in Seq(C) /\ Len(<<q>>) = 1 /\ <<q>>[1] = q
    OBVIOUS
  <2>2. /\ a \in Seq(C) /\ Len(a) = 1 + m
        /\ \A k \in 1..(1 + m) : a[k] = IF k <= 1 THEN <<q>>[k] ELSE d[k - 1]
    BY <2>1, ConcatProperties
  <2> HIDE DEF a
  <2>3. /\ b \in Seq(C) /\ Len(b) = m + 2
        /\ \A k \in 1..(m + 2) : b[k] = IF k <= m + 1 THEN a[k] ELSE <<q>>[k - (m + 1)]
    <3>1. /\ b \in Seq(C) /\ Len(b) = Len(a) + Len(<<q>>)
          /\ \A k \in 1..(Len(a) + Len(<<q>>)) :
                b[k] = IF k <= Len(a) THEN a[k] ELSE <<q>>[k - Len(a)]
      BY <2>1, <2>2, ConcatProperties
    <3> HIDE DEF b, m
    <3> QED  BY <1>1, <2>1, <2>2, <3>1
  <2> HIDE DEF b
  <2>4. /\ b \o rest \in Seq(C) /\ Len(b \o rest) = m + 2 + r
        /\ \A k \in 1..(m + 2 + r) :
              (b \o rest)[k] = IF k <= m + 2 THEN b[k] ELSE rest[k - (m + 2)]
    <3>1. /\ b \o rest \in Seq(C) /\ Len(b \o rest) = Len(b) + r
          /\ \A k \in 1..(Len(b) + r) :
                (b \o rest)[k] = IF k <= Len(b) THEN b[k] ELSE rest[k - Len(b)]
      BY <2>3, ConcatProperties
    <3> QED  BY <2>3, <3>1
  <2>5. t = b \o rest
    BY DEF a, b
  <2> HIDE DEF t, m, r
  <2>6. ASSUME NEW k \in 1..m
        PROVE  t[k + 1] = d[k]
    <3>1. /\ k + 1 \in 1..(1 + m) /\ k + 1 \in 1..(m + 2) /\ k + 1 \in 1..(m + 2 + r)
          /\ ~(k + 1 <= 1) /\ k + 1 <= m + 1 /\ k + 1 <= m + 2 /\ (k + 1) - 1 = k
      BY <1>1
    <3> QED  BY <2>2, <2>3, <2>4, <2>5, <3>1
  <2>7. t[m + 2] = q
    <3>1. /\ m + 2 \in 1..(m + 2) /\ m + 2 \in 1..(m + 2 + r)
          /\ ~(m + 2 <= m + 1) /\ m + 2 <= m + 2 /\ (m + 2) - (m + 1) = 1
      BY <1>1
    <3> QED  BY <2>1, <2>3, <2>4, <2>5, <3>1
  <2>8. ASSUME NEW k \in 1..r
        PROVE  t[m + 2 + k] = rest[k]
    <3>1. /\ m + 2 + k \in 1..(m + 2 + r) /\ ~(m + 2 + k <= m + 2)
          /\ (m + 2 + k) - (m + 2) = k
      BY <1>1
    <3> QED  BY <2>4, <2>5, <3>1
  <2> QED  BY <2>4, <2>5, <2>6, <2>7, <2>8
<1> HIDE DEF t
<1>3. PICK f : /\ \A j \in 1..(Len(t) + 1) : f[j] = UnquoteBody(f, j, t, q)
               /\ Unquote(t, q) = f[2]
  BY <1>2, UnquoteUnfold
<1> DEFINE Read(i) == [text |-> SubSeq(s, i + 1, n), rest |-> rest]
           T == {k \in Nat : k <= n => f[pos[n - k] + 2] = Read(n - k)}
<1>4. 0 \in T
  <2> DEFINE j == m + 2
  <2>1. pos[n] + 2 = j /\ n - 0 = n /\ j \in 1..(Len(t) + 1) /\ j <= Len(t)
    BY <1>1, <1>2 DEF Doubles
  <2>2. SubSeq(s, n + 1, n) = <<>>
    BY <1>1, SubSeqEmpty
  <2>3. SubSeq(t, j + 1, Len(t)) = rest
    <3> DEFINE u == SubSeq(t, j + 1, Len(t))
    <3>1. j + 1 \in Int /\ Len(t) \in Int /\ Len(t) - (j + 1) + 1 = r
      BY <1>1, <1>2
    <3>2. \A k \in (j + 1)..Len(t) : t[k] \in C
      <4>1. \A k \in (j + 1)..Len(t) : k \in 1..Len(t)
        BY <1>1, <1>2
      <4> QED  BY <1>2, <4>1, ElementOfSeq
    <3>3. /\ u \in Seq(C)
          /\ Len(u) = IF j + 1 <= Len(t) THEN Len(t) - (j + 1) + 1 ELSE 0
          /\ \A k \in 1..(Len(t) - (j + 1) + 1) : u[k] = t[(j + 1) + k - 1]
      <4> HIDE DEF j
      <4> QED  BY <3>1, <3>2, SubSeqProperties
    <3>4. Len(u) = r
      BY <1>1, <1>2, <3>3
    <3>5. \A k \in 1..r : u[k] = rest[k]
      <4>1. \A k \in 1..r : (j + 1) + k - 1 = m + 2 + k
        BY <1>1
      <4> HIDE DEF u, j, m, r
      <4> QED  BY <1>2, <3>1, <3>3, <4>1
    <3> HIDE DEF u
    <3>6. u = rest
      BY <3>3, <3>4, <3>5, SeqEqual DEF r
    <3> QED  BY <3>6 DEF u
  <2>4. ~(j < Len(t) /\ t[j] = q /\ t[j + 1] = q)
    <3>1. ASSUME j < Len(t) PROVE t[j + 1] = rest[1] /\ rest # <<>>
      <4>1. 1 \in 1..r /\ m + 2 + 1 = j + 1
        BY <1>1, <1>2, <3>1
      <4> QED  BY <1>2, <4>1
    <3> QED  BY <3>1
  <2>5. t[j] = q
    BY <1>2
  <2> HIDE DEF j
  <2>6. f[j] = [text |-> <<>>, rest |-> SubSeq(t, j + 1, Len(t))]
    BY <1>3, <2>1, <2>4, <2>5, Zenon DEF UnquoteBody
  <2> QED  BY <1>1, <2>1, <2>2, <2>3, <2>6
<1>5. ASSUME NEW k \in Nat, k \in T
      PROVE  k + 1 \in T
  <2>1. SUFFICES ASSUME k + 1 <= n PROVE f[pos[n - (k + 1)] + 2] = Read(n - (k + 1))
    <3> HIDE DEF Read, n
    <3> QED  OBVIOUS
  <2> DEFINE i == n - k
             j == pos[i - 1] + 2
             c == s[i]
  <2>2. /\ i \in 1..n /\ i - 1 \in 0..n /\ i \in 0..n /\ n - (k + 1) = i - 1
        /\ (i - 1) + 1 = i
    BY <1>1, <2>1
  <2>3. f[pos[i] + 2] = Read(i)
    BY <1>1, <1>5, <2>1
  <2> HIDE DEF T, i
  <2>4. pos[i - 1] \in 0..m /\ pos[i] \in 0..m
    BY <2>2 DEF Doubles
  <2>5. SubSeq(s, i, n) = <<c>> \o SubSeq(s, i + 1, n)
    <3>1. n \in i..n
      BY <1>1, <2>2
    <3> QED  BY <2>2, <3>1, SubSeqRecursiveFirst
  <2>6. CASE c = q
    <3>1. /\ pos[i] = pos[i - 1] + 2
          /\ d[pos[i - 1] + 1] = q /\ d[pos[i - 1] + 2] = q
      BY <2>2, <2>6 DEF Doubles
    <3>2. /\ pos[i - 1] + 1 \in 1..m /\ pos[i - 1] + 2 \in 1..m
          /\ (pos[i - 1] + 1) + 1 = j /\ (pos[i - 1] + 2) + 1 = j + 1
          /\ j < Len(t) /\ j <= Len(t) /\ j \in 1..(Len(t) + 1) /\ pos[i] + 2 = j + 2
      <4> HIDE DEF m, r
      <4>1. Len(t) = m + 2 + r
        BY <1>2
      <4> QED  BY <1>1, <2>4, <3>1, <4>1
    <3>3. t[j] = q /\ t[j + 1] = q
      BY <1>2, <3>1, <3>2
    <3> HIDE DEF j
    <3>4. f[j] = [f[j + 2] EXCEPT !.text = <<q>> \o @]
      BY <1>3, <3>2, <3>3, Zenon DEF UnquoteBody
    <3>5. f[j + 2] = [text |-> SubSeq(s, i + 1, n), rest |-> rest]
      BY <2>3, <3>2
    <3>6. f[j] = [text |-> <<q>> \o SubSeq(s, i + 1, n), rest |-> rest]
      <4> DEFINE h == f[j + 2]
                 x == SubSeq(s, i + 1, n)
      <4>1. h = [text |-> x, rest |-> rest] /\ f[j] = [h EXCEPT !.text = <<q>> \o @]
        BY <3>4, <3>5
      <4> HIDE DEF h, x
      <4>2. [h EXCEPT !.text = <<q>> \o @] = [text |-> <<q>> \o x, rest |-> rest]
        BY <4>1, TextExcept, Zenon
      <4> QED  BY <4>1, <4>2, Zenon DEF x
    <3> QED  BY <2>2, <2>5, <2>6, <3>6 DEF j
  <2>7. CASE c # q
    <3>1. pos[i] = pos[i - 1] + 1 /\ d[pos[i - 1] + 1] = c
      BY <2>2, <2>7 DEF Doubles
    <3>2. /\ pos[i - 1] + 1 \in 1..m /\ (pos[i - 1] + 1) + 1 = j
          /\ j <= Len(t) /\ j \in 1..(Len(t) + 1) /\ pos[i] + 2 = j + 1
      <4> HIDE DEF m, r
      <4>1. Len(t) = m + 2 + r
        BY <1>2
      <4>2. pos[i] = pos[i - 1] + 1
        BY <3>1
      <4> QED  BY <1>1, <2>4, <4>1, <4>2
    <3>3. t[j] = c
      BY <1>2, <3>1, <3>2
    <3> HIDE DEF j
    <3>4. f[j] = [f[j + 1] EXCEPT !.text = <<c>> \o @]
      BY <1>3, <2>7, <3>2, <3>3, Zenon DEF UnquoteBody
    <3>5. f[j + 1] = [text |-> SubSeq(s, i + 1, n), rest |-> rest]
      BY <2>3, <3>2
    <3>6. f[j] = [text |-> <<c>> \o SubSeq(s, i + 1, n), rest |-> rest]
      <4> DEFINE h == f[j + 1]
                 x == SubSeq(s, i + 1, n)
      <4>1. h = [text |-> x, rest |-> rest] /\ f[j] = [h EXCEPT !.text = <<c>> \o @]
        BY <3>4, <3>5
      <4> HIDE DEF h, x
      <4>2. [h EXCEPT !.text = <<c>> \o @] = [text |-> <<c>> \o x, rest |-> rest]
        BY <4>1, TextExcept, Zenon
      <4> QED  BY <4>1, <4>2, Zenon DEF x
    <3> QED  BY <2>2, <2>5, <3>6 DEF j
  <2> QED  BY <2>6, <2>7
<1> HIDE DEF T
<1>6. \A k \in Nat : k \in T
  BY <1>4, <1>5, Induct
<1>7. f[pos[0] + 2] = Read(0)
  <2>1. n \in T
    BY <1>1, <1>6
  <2>2. n - n = 0
    BY <1>1
  <2> HIDE DEF Read
  <2> QED  BY <1>1, <2>1, <2>2 DEF T
<1>8. pos[0] + 2 = 2 /\ SubSeq(s, 0 + 1, n) = s
  BY SubSeqFull DEF Doubles
<1> QED  BY <1>3, <1>7, <1>8 DEF t

(* FlattenSeq of the community modules satisfies its own recursion. *)
LEMMA FlattenUnfold ==
    ASSUME NEW C, NEW d \in Seq(Seq(C)), Len(d) # 0
    PROVE  \E f : /\ \A i \in 1..Len(d) : f[i] = IF i = 1 THEN d[i] ELSE f[i - 1] \o d[i]
                  /\ FlattenSeq(d) = f[Len(d)]
<1> DEFINE n == Len(d)
           Body(f, i) == IF i = 1 THEN d[i] ELSE f[i - 1] \o d[i]
           Good(m) == \E f : f = [i \in 1..m |-> Body(f, i)]
           T == {m \in Nat : Good(m)}
<1>1. 0 \in T
  <2> DEFINE f == [i \in 1..0 |-> <<>>]
  <2>1. f = [i \in 1..0 |-> Body(f, i)]
    <3>1. \A i \in 1..0 : FALSE
      OBVIOUS
    <3> QED  BY <3>1
  <2> HIDE DEF f
  <2> QED  BY <2>1
<1>2. ASSUME NEW m \in Nat, m \in T
      PROVE  m + 1 \in T
  <2>1. PICK f : f = [i \in 1..m |-> Body(f, i)]
    BY <1>2
  <2> DEFINE g == [i \in 1..(m + 1) |-> IF i <= m THEN f[i] ELSE Body(f, i)]
  <2>2. ASSUME NEW i \in 1..(m + 1)
        PROVE  g[i] = Body(g, i)
    <3>1. g[i] = Body(f, i)
      <4>1. CASE i <= m
        <5>1. i \in 1..m
          BY <4>1
        <5> QED  BY <2>1, <4>1, <5>1
      <4>2. CASE ~(i <= m)
        BY <4>2
      <4> QED  BY <4>1, <4>2
    <3>2. i # 1 => g[i - 1] = f[i - 1]
      <4>1. i # 1 => i - 1 \in 1..(m + 1) /\ i - 1 <= m
        OBVIOUS
      <4> QED  BY <4>1
    <3> HIDE DEF g
    <3> QED  BY <3>1, <3>2
  <2>3. g = [i \in 1..(m + 1) |-> g[i]]
    OBVIOUS
  <2> HIDE DEF g
  <2>4. g = [i \in 1..(m + 1) |-> Body(g, i)]
    BY <2>2, <2>3, Zenon
  <2>5. Good(m + 1)
    BY <2>4, Zenon
  <2> HIDE DEF Good
  <2> QED  BY <2>5
<1> HIDE DEF T
<1>3. n \in Nat /\ \A m \in Nat : m \in T
  BY <1>1, <1>2, Induct, LenProperties
<1> DEFINE flat == CHOOSE f : f = [i \in 1..n |-> Body(f, i)]
<1>4. flat = [i \in 1..n |-> Body(flat, i)]
  <2>1. Good(n)
    BY <1>3 DEF T
  <2> QED  BY <2>1, Zenon
<1>5. FlattenSeq(d) = flat[n]
  BY Zenon DEF FlattenSeq
<1> HIDE DEF flat
<1>6. \A i \in 1..n : flat[i] = Body(flat, i)
  BY <1>4
<1> QED  BY <1>5, <1>6

(* What quoteLiteral puts between its quotes is the text with every quote  *)
(* doubled.                                                                *)
LEMMA DoubledIs ==
    ASSUME NEW C, NEW q \in C, NEW s \in Seq(C)
    PROVE  LET d == FlattenSeq([i \in DOMAIN s |-> IF s[i] = q THEN <<q, q>> ELSE <<s[i]>>])
           IN d \in Seq(C) /\ \E pos : Doubles(d, s, q, pos)
<1> DEFINE n == Len(s)
           e == [i \in DOMAIN s |-> IF s[i] = q THEN <<q, q>> ELSE <<s[i]>>]
           d == FlattenSeq(e)
<1>1. n \in Nat /\ DOMAIN s = 1..n /\ \A i \in 1..n : s[i] \in C
  BY LenProperties, ElementOfSeq
<1>2. e \in Seq(Seq(C)) /\ Len(e) = n
  <2>1. \A i \in 1..n : (IF s[i] = q THEN <<q, q>> ELSE <<s[i]>>) \in Seq(C)
    BY <1>1
  <2> HIDE DEF n
  <2> QED  BY <1>1, <2>1
<1>3. \A i \in 1..n :
         /\ e[i] \in Seq(C)
         /\ s[i] = q => Len(e[i]) = 2 /\ e[i][1] = q /\ e[i][2] = q
         /\ s[i] # q => Len(e[i]) = 1 /\ e[i][1] = s[i]
  BY <1>1
<1>4. CASE n = 0
  <2> DEFINE pos == [i \in 0..0 |-> 0]
  <2>1. e = <<>> /\ d = e
    <3>1. d = e
      BY <1>2, <1>4, Zenon DEF FlattenSeq
    <3> HIDE DEF e, n
    <3> QED  BY <1>2, <1>4, <3>1, EmptySeq
  <2>2. d \in Seq(C) /\ Len(d) = 0
    BY <2>1, EmptySeq
  <2> HIDE DEF d
  <2>3. pos[0] = 0 /\ (\A i \in 0..0 : pos[i] \in 0..0) /\ (\A i \in 1..0 : FALSE)
    OBVIOUS
  <2> HIDE DEF pos
  <2>4. Doubles(d, s, q, pos)
    BY <1>4, <2>2, <2>3 DEF Doubles
  <2> QED  BY <2>2, <2>4 DEF d, e
<1>5. CASE n # 0
  <2> HIDE DEF e, n
  <2>1. PICK f : /\ \A i \in 1..n : f[i] = IF i = 1 THEN e[i] ELSE f[i - 1] \o e[i]
                 /\ d = f[n]
    BY <1>2, <1>5, FlattenUnfold
  <2> HIDE DEF d
  <2> DEFINE pos == [i \in 0..n |-> IF i = 0 THEN 0 ELSE Len(f[i])]
             Good(i) == /\ f[i] \in Seq(C) /\ Len(f[i]) = pos[i]
                        /\ \A m \in 1..i :
                              /\ pos[m] = pos[m - 1] + Len(e[m])
                              /\ pos[m] \in 0..pos[i] /\ pos[m - 1] \in 0..pos[i]
                              /\ \A k \in 1..Len(e[m]) : f[i][pos[m - 1] + k] = e[m][k]
             T == {i \in Nat : i \in 1..n => Good(i)}
  <2>2. pos[0] = 0 /\ \A i \in 1..n : pos[i] = Len(f[i])
    BY <1>1
  <2> HIDE DEF pos
  <2>3. 0 \in T
    OBVIOUS
  <2>4. ASSUME NEW i \in Nat, i \in T
        PROVE  i + 1 \in T
    <3>1. SUFFICES ASSUME i + 1 \in 1..n PROVE Good(i + 1)
      <4> HIDE DEF Good
      <4> QED  OBVIOUS
    <3> DEFINE x == e[i + 1]
               y == f[i + 1]
    <3>2. x \in Seq(C) /\ Len(x) \in Nat
      BY <1>3, <3>1, LenProperties
    <3>3. CASE i = 0
      <4>1. y = x /\ i + 1 = 1 /\ pos[1] = Len(x) /\ (i + 1) - 1 = 0
        BY <2>1, <2>2, <3>1, <3>3
      <4>2. \A m \in 1..1 : m = 1
        OBVIOUS
      <4> HIDE DEF x, y
      <4>3. Good(1)
        <5>1. f[1] = x /\ e[1] = x
          BY <4>1 DEF x, y
        <5>2. \A k \in 1..Len(x) : 0 + k = k
          BY <3>2
        <5>3. pos[1] = pos[0] + Len(x) /\ pos[1] \in 0..pos[1] /\ pos[0] \in 0..pos[1]
          BY <2>2, <3>2, <4>1
        <5>4. \A k \in 1..Len(x) : f[1][pos[0] + k] = e[1][k]
          BY <2>2, <5>1, <5>2
        <5>5. 1 - 1 = 0 /\ Len(e[1]) = Len(x)
          BY <5>1
        <5>6. ASSUME NEW m \in 1..1
              PROVE  /\ pos[m] = pos[m - 1] + Len(e[m])
                     /\ pos[m] \in 0..pos[1] /\ pos[m - 1] \in 0..pos[1]
                     /\ \A k \in 1..Len(e[m]) : f[1][pos[m - 1] + k] = e[m][k]
          <6>1. m = 1
            OBVIOUS
          <6> QED  BY <5>3, <5>4, <5>5, <6>1
        <5> QED  BY <3>2, <4>1, <5>1, <5>6
      <4> HIDE DEF Good
      <4> QED  BY <4>1, <4>3
    <3>4. CASE i # 0
      <4>1. i \in 1..n /\ (i + 1) - 1 = i /\ i + 1 # 1
        BY <1>1, <3>1, <3>4
      <4>2. Good(i)
        BY <2>4, <4>1
      <4> DEFINE w == f[i]
                 a == pos[i]
                 l == Len(x)
      <4>3. y = w \o x
        BY <2>1, <3>1, <4>1
      <4>4. w \in Seq(C) /\ Len(w) = a /\ a \in Nat
        BY <4>2, LenProperties
      <4>5. /\ y \in Seq(C) /\ Len(y) = a + l
            /\ \A k \in 1..(a + l) : y[k] = IF k <= a THEN w[k] ELSE x[k - a]
        <5> HIDE DEF w, x
        <5>1. /\ w \o x \in Seq(C) /\ Len(w \o x) = Len(w) + Len(x)
              /\ \A k \in 1..(Len(w) + Len(x)) :
                    (w \o x)[k] = IF k <= Len(w) THEN w[k] ELSE x[k - Len(w)]
          BY <3>2, <4>4, ConcatProperties
        <5> HIDE DEF y
        <5> QED  BY <4>3, <4>4, <5>1
      <4>6. pos[i + 1] = a + l
        BY <2>2, <3>1, <4>5
      <4>7. l \in Nat
        BY <3>2
      <4> HIDE DEF w, x, y, a, l
      <4>8. ASSUME NEW m \in 1..(i + 1)
            PROVE  /\ pos[m] = pos[m - 1] + Len(e[m])
                   /\ pos[m] \in 0..(a + l) /\ pos[m - 1] \in 0..(a + l)
                   /\ \A k \in 1..Len(e[m]) : y[pos[m - 1] + k] = e[m][k]
        <5>1. CASE m \in 1..i
          <6>1. /\ pos[m] = pos[m - 1] + Len(e[m])
                /\ pos[m] \in 0..a /\ pos[m - 1] \in 0..a
                /\ \A k \in 1..Len(e[m]) : w[pos[m - 1] + k] = e[m][k]
            BY <4>2, <5>1 DEF w, a
          <6>2. m \in 1..n
            BY <1>1, <4>1, <5>1
          <6>3. Len(e[m]) \in Nat
            BY <1>3, <6>2, LenProperties
          <6>4. \A k \in 1..Len(e[m]) : pos[m - 1] + k \in 1..(a + l) /\ pos[m - 1] + k <= a
            BY <4>4, <4>7, <6>1, <6>3
          <6>5. pos[m] \in 0..(a + l) /\ pos[m - 1] \in 0..(a + l)
            BY <4>4, <4>7, <6>1
          <6> QED  BY <4>5, <6>1, <6>4, <6>5
        <5>2. CASE m = i + 1
          <6>1. e[m] = x /\ pos[m] = a + l /\ pos[m - 1] = a /\ Len(e[m]) = l
            BY <4>1, <4>6, <5>2 DEF x, a, l
          <6>2. \A k \in 1..l : a + k \in 1..(a + l) /\ ~(a + k <= a) /\ (a + k) - a = k
            BY <4>4, <4>7
          <6>3. \A k \in 1..l : y[a + k] = x[k]
            BY <4>5, <6>2
          <6>4. a + l \in 0..(a + l) /\ a \in 0..(a + l)
            BY <4>4, <4>7
          <6> QED  BY <6>1, <6>3, <6>4
        <5> QED  BY <5>1, <5>2
      <4> QED  BY <4>5, <4>6, <4>8 DEF y
    <3> QED  BY <3>3, <3>4
  <2> HIDE DEF T
  <2>5. \A i \in Nat : i \in T
    BY <2>3, <2>4, Induct
  <2>6. Good(n)
    <3>1. n \in 1..n
      BY <1>1, <1>5
    <3> HIDE DEF Good
    <3> QED  BY <1>1, <2>5, <3>1 DEF T
  <2>7. d \in Seq(C) /\ Len(d) = pos[n]
    BY <2>1, <2>6
  <2>8. Doubles(d, s, q, pos)
    <3>1. ASSUME NEW i \in 0..n PROVE pos[i] \in 0..Len(d)
      <4>1. CASE i = 0
        <5>1. Len(d) \in Nat
          BY <2>7, LenProperties
        <5> QED  BY <2>2, <4>1, <5>1
      <4>2. CASE i # 0
        <5>1. i \in 1..n
          BY <1>1, <4>2
        <5> QED  BY <2>6, <2>7, <5>1
      <4> QED  BY <4>1, <4>2
    <3>2. ASSUME NEW i \in 1..n
          PROVE  IF s[i] = q THEN /\ pos[i] = pos[i - 1] + 2
                                  /\ d[pos[i - 1] + 1] = q /\ d[pos[i - 1] + 2] = q
                 ELSE pos[i] = pos[i - 1] + 1 /\ d[pos[i - 1] + 1] = s[i]
      <4>1. /\ pos[i] = pos[i - 1] + Len(e[i])
            /\ \A k \in 1..Len(e[i]) : d[pos[i - 1] + k] = e[i][k]
        BY <2>1, <2>6
      <4>2. CASE s[i] = q
        <5>1. Len(e[i]) = 2 /\ e[i][1] = q /\ e[i][2] = q
          BY <1>3, <4>2
        <5>2. 1 \in 1..2 /\ 2 \in 1..2
          OBVIOUS
        <5> QED  BY <4>1, <4>2, <5>1, <5>2
      <4>3. CASE s[i] # q
        <5>1. Len(e[i]) = 1 /\ e[i][1] = s[i]
          BY <1>3, <4>3
        <5>2. 1 \in 1..1
          OBVIOUS
        <5> QED  BY <4>1, <4>3, <5>1, <5>2
      <4> QED  BY <4>2, <4>3
    <3> HIDE DEF Good
    <3> QED  BY <2>2, <2>7, <3>1, <3>2 DEF Doubles, n
  <2> QED  BY <2>7, <2>8 DEF d, e
<1> QED  BY <1>4, <1>5

(* A database reads back the string that quoteLiteral was given, whatever  *)
(* quotes it holds (identifier.go:52-56).                                  *)
THEOREM LiteralsReadBack ==
    ASSUME NEW C, SQ \in C, NEW s \in Seq(C)
    PROVE  Unquote(QuoteLiteral(s), SQ) = [text |-> s, rest |-> <<>>]
<1> DEFINE d == FlattenSeq([i \in DOMAIN s |-> IF s[i] = SQ THEN <<SQ, SQ>> ELSE <<s[i]>>])
           lit == <<SQ>> \o d \o <<SQ>>
<1>1. d \in Seq(C) /\ \E pos : Doubles(d, s, SQ, pos)
  BY DoubledIs
<1>2. QuoteLiteral(s) = lit
  BY Zenon DEF QuoteLiteral
<1> HIDE DEF d
<1>3. <<SQ>> \in Seq(C)
  OBVIOUS
<1>4. lit \in Seq(C)
  BY <1>1, <1>3, ConcatProperties
<1> DEFINE none == <<>>
<1>5. none \in Seq(C)
  BY EmptySeq
<1>6. lit \o none = lit
  <2> HIDE DEF lit
  <2> QED  BY <1>4, ConcatEmptySeq
<1>7. Unquote(lit \o none, SQ) = [text |-> s, rest |-> none]
  <2>1. PICK pos : Doubles(d, s, SQ, pos)
    BY <1>1
  <2>2. none = <<>> \/ none[1] # SQ
    OBVIOUS
  <2> HIDE DEF none
  <2> QED  BY <1>1, <1>5, <2>1, <2>2, ReadBack
<1> QED  BY <1>2, <1>6, <1>7

(* A name that does not contain the quote is its own doubling. *)
LEMMA NamesReadBack ==
    ASSUME NEW C, NEW q \in C, NEW s \in Seq(C), q \notin Range(s),
           NEW rest \in Seq(C), rest = <<>> \/ rest[1] # q
    PROVE  Unquote(<<q>> \o s \o <<q>> \o rest, q) = [text |-> s, rest |-> rest]
<1> DEFINE pos == [i \in 0..Len(s) |-> i]
<1>1. Len(s) \in Nat
  BY LenProperties
<1>2. ASSUME NEW i \in 1..Len(s)
      PROVE  s[i] # q /\ pos[i] = pos[i - 1] + 1 /\ s[pos[i - 1] + 1] = s[i]
  <2>1. i - 1 \in 0..Len(s) /\ i \in 0..Len(s) /\ (i - 1) + 1 = i
    BY <1>1
  <2>2. i \in DOMAIN s
    BY <1>1
  <2>3. s[i] # q
    BY <2>2 DEF Range
  <2> QED  BY <2>1, <2>3
<1>3. pos[0] = 0 /\ pos[Len(s)] = Len(s) /\ \A i \in 0..Len(s) : pos[i] \in 0..Len(s)
  BY <1>1
<1> HIDE DEF pos
<1>4. Doubles(s, s, q, pos)
  BY <1>2, <1>3 DEF Doubles
<1> QED  BY <1>4, ReadBack

(* quoteIdent puts a name without the dialect's quote between two of them. *)
LEMMA QuotedIs ==
    ASSUME NEW C, NEW k, QuoteChar(k) \in C, NEW s \in Seq(C), s # <<>>,
           QuoteChar(k) \notin Range(s)
    PROVE  LET q == QuoteChar(k)
           IN /\ QuoteIdent(k, s) = <<q>> \o s \o <<q>>
              /\ QuoteIdent(k, s) \in Seq(C)
              /\ QuoteIdent(k, s) # Refused
              /\ QuoteIdent(k, s)[1] = q
<1> DEFINE q == QuoteChar(k)
           a == <<q>> \o s
<1>1. QuoteIdent(k, s) = a \o <<q>>
  BY Zenon DEF QuoteIdent, CannotQuote
<1> HIDE DEF q
<1>2. <<q>> \in Seq(C) /\ Len(<<q>>) = 1 /\ <<q>>[1] = q
  BY DEF q
<1>3. Len(s) \in Nat
  BY LenProperties
<1>4. /\ a \in Seq(C) /\ Len(a) = 1 + Len(s)
      /\ \A i \in 1..(1 + Len(s)) : a[i] = IF i <= 1 THEN <<q>>[i] ELSE s[i - 1]
  BY <1>2, ConcatProperties
<1>5. a[1] = q
  BY <1>2, <1>3, <1>4
<1> HIDE DEF a
<1>6. /\ a \o <<q>> \in Seq(C) /\ Len(a \o <<q>>) = Len(a) + 1
      /\ \A i \in 1..(Len(a) + 1) :
             (a \o <<q>>)[i] = IF i <= Len(a) THEN a[i] ELSE <<q>>[i - Len(a)]
  BY <1>2, <1>4, ConcatProperties
<1>7. (a \o <<q>>)[1] = q
  BY <1>3, <1>4, <1>5, <1>6
<1>8. a \o <<q>> # <<>>
  BY <1>3, <1>4, <1>6
<1> QED  BY <1>1, <1>6, <1>7, <1>8 DEF q, a, Refused

(* A database reads back the schema and the name that qualified was given, *)
(* and it refuses exactly the names that hold the dialect's quote, and no  *)
(* name at all (identifier.go:10-50): also a schema or a name with dots,   *)
(* or with the other dialects' quotes.                                     *)
THEOREM QualifiedNamesReadBack ==
    ASSUME NEW C, NEW k, QuoteChar(k) \in C, "." \in C, QuoteChar(k) # ".",
           NEW schema \in Seq(C), NEW name \in Seq(C)
    PROVE  LET q == QuoteChar(k)
               quoted == Qualified(k, schema, name)
               one == Unquote(quoted, q)
               two == Unquote(Tail(one.rest), q)
           IN IF name = <<>> \/ q \in Range(schema \o name) THEN quoted = Refused
              ELSE /\ quoted[1] = q
                   /\ IF schema = <<>> THEN one = [text |-> name, rest |-> <<>>]
                      ELSE /\ one.text = schema /\ Head(one.rest) = "."
                           /\ two = [text |-> name, rest |-> <<>>]
<1> DEFINE q == QuoteChar(k)
           quoted == Qualified(k, schema, name)
           a == QuoteIdent(k, schema)
           b == QuoteIdent(k, name)
           one == Unquote(quoted, q)
           two == Unquote(Tail(one.rest), q)
           none == <<>>
<1> SUFFICES IF name = <<>> \/ q \in Range(schema \o name) THEN quoted = Refused
             ELSE /\ quoted[1] = q
                  /\ IF schema = <<>> THEN one = [text |-> name, rest |-> <<>>]
                     ELSE /\ one.text = schema /\ Head(one.rest) = "."
                          /\ two = [text |-> name, rest |-> <<>>]
  OBVIOUS
<1>1. Range(schema \o name) = Range(schema) \cup Range(name)
  BY RangeConcatenation
<1>2. Range(none) = {}
  BY DEF Range
<1>3. none \in Seq(C) /\ (none = <<>> \/ none[1] # q)
  BY EmptySeq
<1>4. CASE name = <<>> \/ q \in Range(name)
  <2>1. b = Refused
    BY <1>4, Zenon DEF QuoteIdent, CannotQuote
  <2>2. quoted = Refused
    BY <2>1, Zenon DEF Qualified
  <2> HIDE DEF quoted, q, one, two
  <2> QED  BY <1>1, <1>4, <2>2
<1>5. CASE name # <<>> /\ q \notin Range(name) /\ q \in Range(schema)
  <2>1. schema # <<>>
    BY <1>2, <1>5
  <2>2. a = Refused
    BY <1>5, Zenon DEF QuoteIdent, CannotQuote
  <2>3. quoted = Refused
    BY <2>1, <2>2, Zenon DEF Qualified
  <2> HIDE DEF quoted, q, one, two
  <2> QED  BY <1>1, <1>5, <2>3
<1>6. CASE name # <<>> /\ q \notin Range(name) /\ q \notin Range(schema)
  <2>1. /\ b = <<q>> \o name \o <<q>> /\ b \in Seq(C)
        /\ b # Refused /\ b[1] = q
    BY <1>6, QuotedIs
  <2>2. Unquote(b, q) = [text |-> name, rest |-> none]
    <3>1. b \o none = b
      BY <2>1, ConcatEmptySeq
    <3> HIDE DEF b, none, q
    <3>2. Unquote(<<q>> \o name \o <<q>> \o none, q) = [text |-> name, rest |-> none]
      BY <1>3, <1>6, NamesReadBack DEF q
    <3> QED  BY <2>1, <3>1, <3>2
  <2>3. CASE schema = <<>>
    <3>1. quoted = b
      BY <2>3, Zenon DEF Qualified
    <3> HIDE DEF quoted, b, q
    <3> QED  BY <1>1, <1>6, <2>1, <2>2, <2>3, <3>1
  <2>4. CASE schema # <<>>
    <3> DEFINE rest == <<".">> \o b
    <3>1. /\ a = <<q>> \o schema \o <<q>> /\ a \in Seq(C)
          /\ a # Refused /\ a[1] = q
      BY <1>6, <2>4, QuotedIs
    <3>2. quoted = (a \o <<".">>) \o b
      BY <2>1, <2>4, <3>1, Zenon DEF Qualified
    <3> HIDE DEF quoted, a, b, q
    <3>3. <<".">> \in Seq(C) /\ Len(<<".">>) = 1 /\ <<".">>[1] = "."
      OBVIOUS
    <3>4. /\ rest \in Seq(C) /\ Len(rest) = 1 + Len(b)
          /\ \A i \in 1..(1 + Len(b)) : rest[i] = IF i <= 1 THEN <<".">>[i] ELSE b[i - 1]
      BY <2>1, <3>3, ConcatProperties
    <3>5. Len(b) \in Nat
      BY <2>1, LenProperties
    <3>6. rest[1] = "." /\ rest # <<>>
      BY <3>3, <3>4, <3>5
    <3>7. quoted = a \o rest
      <4> DEFINE dot == <<".">>
      <4>1. dot \in Seq(C) /\ a \in Seq(C) /\ b \in Seq(C)
        BY <2>1, <3>1, <3>3
      <4> HIDE DEF dot
      <4>2. (a \o dot) \o b = a \o (dot \o b)
        BY <4>1, ConcatAssociative
      <4> QED  BY <3>2, <4>2, Zenon DEF rest, dot
    <3>8. Head(rest) = "." /\ Tail(rest) = b
      <4> DEFINE v == Tail(rest)
      <4>1. v \in Seq(C) /\ Len(v) = Len(rest) - 1 /\ \A i \in 1..Len(v) : v[i] = rest[i + 1]
        <5> HIDE DEF rest
        <5> QED  BY <3>4, <3>6, HeadTailProperties
      <4> HIDE DEF v, rest
      <4>2. Len(v) = Len(b)
        BY <3>4, <3>5, <4>1
      <4>3. ASSUME NEW i \in 1..Len(v)
            PROVE  v[i] = b[i]
        <5>1. i + 1 \in 1..(1 + Len(b)) /\ ~(i + 1 <= 1) /\ (i + 1) - 1 = i
          BY <3>5, <4>2
        <5> QED  BY <3>4, <4>1, <5>1
      <4>4. v = b
        BY <2>1, <4>1, <4>2, <4>3, SeqEqual
      <4>5. Head(rest) = rest[1]
        BY <3>4
      <4> QED  BY <3>6, <4>4, <4>5 DEF v
    <3> HIDE DEF rest
    <3>9. Unquote(<<q>> \o schema \o <<q>> \o rest, q) = [text |-> schema, rest |-> rest]
      <4>1. rest[1] # q
        BY <3>6 DEF q
      <4> QED  BY <1>6, <3>4, <4>1, NamesReadBack DEF q
    <3>10. one = [text |-> schema, rest |-> rest]
      BY <3>1, <3>7, <3>9
    <3> HIDE DEF one
    <3>11. one.text = schema /\ one.rest = rest
      BY <3>10
    <3>12. two = [text |-> name, rest |-> <<>>]
      BY <2>2, <3>8, <3>11
    <3>13. quoted[1] = q
      <4>1. Len(a) \in Nat /\ Len(a) # 0
        BY <3>1, LenProperties, EmptySeq DEF Refused
      <4>2. quoted[1] = a[1]
        <5>1. \A i \in 1..(Len(a) + Len(rest)) :
                 (a \o rest)[i] = IF i <= Len(a) THEN a[i] ELSE rest[i - Len(a)]
          BY <3>1, <3>4, ConcatProperties
        <5>2. 1 \in 1..(Len(a) + Len(rest)) /\ 1 <= Len(a)
          BY <3>4, <3>5, <4>1
        <5> QED  BY <3>7, <5>1, <5>2
      <4> QED  BY <3>1, <4>2
    <3> HIDE DEF two
    <3> QED  BY <1>1, <1>6, <2>4, <3>8, <3>11, <3>12, <3>13, Zenon
  <2> QED  BY <2>3, <2>4
<1> QED  BY <1>4, <1>5, <1>6

-----------------------------------------------------------------------------
(***************************************************************************)
(* The calls.  CallInv says which values the input takes and that the      *)
(* result is what the operation makes of it; of the pages, how far the     *)
(* user has come.  The lemmas above turn each part into its property.      *)
(***************************************************************************)
(* The characters of CallInit's names. *)
NameChars == {"a", DQ, BQ, "."}

ExecInv ==
    input.op = "exec" =>
        /\ input.text \in Seq({"a", " ", SQ, DQ, ";"})
        /\ result # NoResult => result[1] = RunStatements(input.text)

LiteralInv ==
    input.op = "literal" =>
        /\ input.text \in Seq({"a", SQ, ";"})
        /\ result # NoResult => result[1] = QuoteLiteral(input.text)

NameInv ==
    input.op = "name" =>
        /\ input.schema \in Seq(NameChars) /\ input.name \in Seq(NameChars)
        /\ result # NoResult =>
              result[1] = Qualified(input.kind, input.schema, input.name)

FormInv ==
    input.op = "form" =>
        /\ input.rows \in Seq(Range(input.rows))
        /\ result # NoResult =>
              LET made == ParseCreateTableForm(Browser(input.rows))
              IN result[1] = [cols |-> made, ddl |-> BuildCreateTable(input.kind, input.table, made)]

DescribeInv ==
    input.op = "describe" =>
        /\ input.cols \in Seq(Range(input.cols)) /\ input.fks \in Nat
        /\ result # NoResult => result[1] = SynthesisedCreateTable(input.cols, input.fks)

PagesInv ==
    input.op = "pages" =>
        /\ input.rows \in Nat /\ input.limit \in Nat
        /\ result # NoResult => Paged(result[1], input.rows, input.limit)

(* Inductive: an operation returns once, and next goes on from where the   *)
(* page was.                                                               *)
CallInv == ExecInv /\ LiteralInv /\ NameInv /\ FormInv /\ DescribeInv /\ PagesInv

(* The texts of up to n characters are sequences of them. *)
LEMMA TextsAreSequences ==
    ASSUME NEW C, NEW n \in Nat
    PROVE  Texts(C, n) \subseteq Seq(C)
BY DEF Texts

(* The inputs are what CallInv says. *)
LEMMA CallInvInit == CallInit => CallInv
<1> SUFFICES ASSUME CallInit PROVE CallInv
  OBVIOUS
<1>1. result = NoResult
  BY DEF CallInit
<1>2. ASSUME input.op = "exec"
      PROVE  input.text \in Seq({"a", " ", SQ, DQ, ";"})
  <2>1. input \in [op : {"exec"}, text : Texts({"a", " ", SQ, DQ, ";"}, MaxText)]
    BY <1>2 DEF CallInit
  <2> QED  BY <2>1, MaxTextAssumption, TextsAreSequences
<1>3. ASSUME input.op = "literal"
      PROVE  input.text \in Seq({"a", SQ, ";"})
  <2>1. input \in [op : {"literal"}, text : Texts({"a", SQ, ";"}, MaxText)]
    BY <1>3 DEF CallInit
  <2> QED  BY <2>1, MaxTextAssumption, TextsAreSequences
<1>4. ASSUME input.op = "name"
      PROVE  input.schema \in Seq(NameChars) /\ input.name \in Seq(NameChars)
  <2>1. input \in [op : {"name"}, kind : Dialects, schema : Texts(NameChars, MaxName),
                   name : Texts(NameChars, MaxName)]
    BY <1>4 DEF CallInit, NameChars
  <2> QED  BY <2>1, MaxTextAssumption, TextsAreSequences
<1>5. ASSUME input.op = "form"
      PROVE  input.rows \in Seq(Range(input.rows))
  <2>1. input \in [op : {"form"}, kind : Dialects, table : Tables, rows : Forms]
    BY <1>5 DEF CallInit
  <2>2. PICK n \in 1..MaxColumns : \E R : input.rows \in [1..n -> R]
    BY <2>1 DEF Forms
  <2>3. PICK R : input.rows \in [1..n -> R]
    BY <2>2
  <2>4. n \in Nat
    BY MaxFormAssumption
  <2>5. input.rows \in Seq(R)
    BY <2>3, <2>4
  <2> QED  BY <2>5, SeqOfRange
<1>6. ASSUME input.op = "describe"
      PROVE  input.cols \in Seq(Range(input.cols)) /\ input.fks \in Nat
  <2>1. input \in [op : {"describe"}, cols : Described, fks : 0..MaxForeign]
    BY <1>6 DEF CallInit
  <2> DEFINE c(n, keys) == [i \in 1..n |-> [name |-> <<"c", ToString(i)>>, pk |-> i \in keys]]
  <2>2. PICK n \in 0..MaxColumns : \E keys \in SUBSET (1..n) : input.cols = c(n, keys)
    <3>1. Described = UNION {{c(n, keys) : keys \in SUBSET (1..n)} : n \in 0..MaxColumns}
      BY Zenon DEF Described
    <3> HIDE DEF c
    <3> QED  BY <2>1, <3>1
  <2>3. PICK keys \in SUBSET (1..n) : input.cols = c(n, keys)
    BY <2>2
  <2>4. n \in Nat
    BY MaxFormAssumption
  <2>5. input.cols \in Seq({c(n, keys)[i] : i \in 1..n})
    <3>1. c(n, keys) = [i \in 1..n |-> c(n, keys)[i]]
      OBVIOUS
    <3> HIDE DEF c
    <3> QED  BY <2>3, <2>4, <3>1
  <2>6. input.cols \in Seq(Range(input.cols))
    <3> HIDE DEF c
    <3> QED  BY <2>5, SeqOfRange
  <2> QED  BY <2>1, <2>6, MaxFormAssumption
<1>7. ASSUME input.op = "pages"
      PROVE  input.rows \in Nat /\ input.limit \in Nat
  <2>1. input \in [op : {"pages"}, rows : 0..MaxRows, limit : 0..MaxLimit]
    BY <1>7 DEF CallInit
  <2> QED  BY <2>1, MaxPageAssumption
<1> QED  BY <1>1, <1>2, <1>3, <1>4, <1>5, <1>6, <1>7
         DEF CallInv, ExecInv, LiteralInv, NameInv, FormInv, DescribeInv, PagesInv

(* CallInv is inductive: each operation puts its own result there, and a   *)
(* press of next leads from one page to the page behind it.                *)
LEMMA CallInvHolds == CallSpec => []CallInv
<1> USE DEF CallInv, ExecInv, LiteralInv, NameInv, FormInv, DescribeInv, PagesInv
<1>1. CallInv /\ [CallNext]_call => CallInv'
  <2> SUFFICES ASSUME CallInv, [CallNext]_call PROVE CallInv'
    OBVIOUS
  <2>1. CASE UNCHANGED call
    BY <2>1 DEF call
  <2>2. CASE Exec
    BY <2>2 DEF Exec, Returns
  <2>3. CASE Literal
    BY <2>3 DEF Literal, Returns
  <2>4. CASE Name
    BY <2>4 DEF Name, Returns
  <2>5. CASE HandleCreateTable
    BY <2>5 DEF HandleCreateTable, Returns
  <2>6. CASE Synthesise
    BY <2>6 DEF Synthesise, Returns
  <2>7. CASE FirstPage
    <3> DEFINE at == [offset |-> 0, before |-> 0, seen |-> SampleRows(input.rows, 0, input.limit)]
    <3>1. input.op = "pages" /\ result' = <<at>> /\ input' = input
      BY <2>7 DEF FirstPage, Returns, Page
    <3>2. Paged(at, input.rows, input.limit)
      BY <3>1, FirstIsPaged
    <3> HIDE DEF at
    <3> QED  BY <3>1, <3>2
  <2>8. CASE PressNext
    <3> DEFINE at == result[1]
               to == NextOffset(at.offset, input.limit)
               then == [offset |-> to, before |-> at.offset,
                        seen |-> at.seen \o SampleRows(input.rows, to, input.limit)]
    <3>1. /\ input.op = "pages" /\ result' = <<then>> /\ input' = input /\ result # NoResult
          /\ HasMore(Len(SampleRows(input.rows, at.offset, input.limit)), input.limit)
      BY <2>8 DEF PressNext, Page, NextEnabled
    <3>2. Paged(then, input.rows, input.limit)
      BY <3>1, NextIsPaged
    <3> HIDE DEF then
    <3> QED  BY <3>1, <3>2
  <2> QED  BY <2>1, <2>2, <2>3, <2>4, <2>5, <2>6, <2>7, <2>8 DEF CallNext
<1> QED  BY <1>1, CallInvInit, PTL DEF CallSpec

(* splitSQL, with its two flags, cuts a text for the editor where a lexer  *)
(* of SQL would, however long it is and however its quotes are nested,     *)
(* doubled or left open.                                                   *)
THEOREM SplitMatchesLexerHolds == CallSpec => []SplitMatchesLexer
<1>1. CallInv => SplitMatchesLexer
  BY SplitsLikeLexer DEF CallInv, ExecInv, SplitMatchesLexer, Done
<1> QED  BY <1>1, CallInvHolds, PTL

(* Identifiers and literals are read back as they were given, whatever     *)
(* mixture of quotes, dots and others the names and strings are; only a    *)
(* name that its dialect could not read back is refused.                   *)
THEOREM QuotingScansBackHolds == CallSpec => []QuotingScansBack
<1>1. CallInv => QuotingScansBack
  <2> DEFINE q == QuoteChar(input.kind)
             one == Unquote(result[1], q)
             two == Unquote(Tail(one.rest), q)
  <2> SUFFICES ASSUME CallInv
      PROVE  /\ Done("literal") => Unquote(result[1], SQ) = [text |-> input.text, rest |-> <<>>]
             /\ Done("name") =>
                   IF input.name = <<>> \/ q \in Range(input.schema \o input.name)
                   THEN result[1] = Refused
                   ELSE /\ result[1][1] = q
                        /\ IF input.schema = <<>> THEN one = [text |-> input.name, rest |-> <<>>]
                           ELSE /\ one.text = input.schema /\ Head(one.rest) = "."
                                /\ two = [text |-> input.name, rest |-> <<>>]
    BY Zenon DEF QuotingScansBack
  <2>1. ASSUME Done("literal")
        PROVE  Unquote(result[1], SQ) = [text |-> input.text, rest |-> <<>>]
    <3>1. input.text \in Seq({"a", SQ, ";"}) /\ result[1] = QuoteLiteral(input.text)
      BY <2>1 DEF CallInv, LiteralInv, Done
    <3> QED  BY <3>1, LiteralsReadBack
  <2>2. ASSUME Done("name")
        PROVE  IF input.name = <<>> \/ q \in Range(input.schema \o input.name)
               THEN result[1] = Refused
               ELSE /\ result[1][1] = q
                    /\ IF input.schema = <<>> THEN one = [text |-> input.name, rest |-> <<>>]
                       ELSE /\ one.text = input.schema /\ Head(one.rest) = "."
                            /\ two = [text |-> input.name, rest |-> <<>>]
    <3>1. /\ input.schema \in Seq(NameChars) /\ input.name \in Seq(NameChars)
          /\ result[1] = Qualified(input.kind, input.schema, input.name)
      BY <2>2 DEF CallInv, NameInv, Done
    <3>2. q \in NameChars /\ q # "." /\ "." \in NameChars
      BY DEF QuoteChar, NameChars, DQ, BQ
    <3> DEFINE k == input.kind
               schema == input.schema
               name == input.name
               quoted == Qualified(k, schema, name)
    <3> HIDE DEF NameChars, k, schema, name
    <3>3. LET c == QuoteChar(k)
              first == Unquote(quoted, c)
              second == Unquote(Tail(first.rest), c)
          IN IF name = <<>> \/ c \in Range(schema \o name) THEN quoted = Refused
             ELSE /\ quoted[1] = c
                  /\ IF schema = <<>> THEN first = [text |-> name, rest |-> <<>>]
                     ELSE /\ first.text = schema /\ Head(first.rest) = "."
                          /\ second = [text |-> name, rest |-> <<>>]
      BY <3>1, <3>2, QualifiedNamesReadBack DEF k, schema, name
    <3>4. result[1] = quoted
      BY <3>1 DEF k, schema, name
    <3> HIDE DEF quoted
    <3> QED  BY <3>3, <3>4 DEF k, schema, name
  <2> QED  BY <2>1, <2>2
<1> QED  BY <1>1, CallInvHolds, PTL

(* The fields of an empty row of the new-table form shift none of a later  *)
(* row's, for a form of any length.                                        *)
THEOREM FormColumnsAlignedHolds == CallSpec => []FormColumnsAligned
<1>1. CallInv => FormColumnsAligned
  <2> SUFFICES ASSUME CallInv, Done("form") PROVE FormColumnsAligned
    BY DEF FormColumnsAligned
  <2> DEFINE made == ParseCreateTableForm(Browser(input.rows))
             want == Named(input.rows)
  <2>1. result[1] = [cols |-> made, ddl |-> BuildCreateTable(input.kind, input.table, made)]
    BY DEF CallInv, FormInv, Done
  <2>2. input.rows \in Seq(Range(input.rows))
    BY DEF CallInv, FormInv, Done
  <2>3. /\ Len(made) = Len(want)
        /\ \A i \in DOMAIN made : /\ made[i].name = want[i].name
                                  /\ made[i].type = want[i].type
                                  /\ made[i].default = want[i].default
    BY <2>2, ParsedAre
  <2> HIDE DEF made
  <2>4. result[1].cols = made
    BY <2>1
  <2> QED  BY <2>3, <2>4, Zenon DEF FormColumnsAligned
<1> QED  BY <1>1, CallInvHolds, PTL

(* The commas of a CREATE TABLE are right for any number of columns and    *)
(* foreign keys, and whichever columns are the key; and the form is        *)
(* refused for a missing type and an unfit name only.                      *)
THEOREM DDLWellFormedHolds == CallSpec => []DDLWellFormed
<1>1. CallInv => DDLWellFormed
  <2> DEFINE columns == result[1].cols
             q == QuoteChar(input.kind)
             unfit == \/ input.table.name = <<>> \/ q \in Range(input.table.name)
                      \/ input.kind # "sqlite" /\ q \in Range(input.table.schema)
                      \/ \E i \in DOMAIN columns :
                            \/ columns[i].type = "" \/ columns[i].name = <<>>
                            \/ q \in Range(columns[i].name)
  <2> SUFFICES ASSUME CallInv
      PROVE  /\ Done("describe") => WellFormed(result[1], input.cols, input.fks)
             /\ Done("form") =>
                   IF unfit THEN result[1].ddl = Refused
                   ELSE WellFormed(result[1].ddl, columns, 0)
    BY Zenon DEF DDLWellFormed
  <2>1. ASSUME Done("describe")
        PROVE  WellFormed(result[1], input.cols, input.fks)
    BY <2>1, SynthesisedWellFormed DEF CallInv, DescribeInv, Done
  <2>2. ASSUME Done("form")
        PROVE  IF unfit THEN result[1].ddl = Refused
               ELSE WellFormed(result[1].ddl, columns, 0)
    <3> DEFINE made == ParseCreateTableForm(Browser(input.rows))
               built == BuildCreateTable(input.kind, input.table, made)
    <3>1. result[1] = [cols |-> made, ddl |-> built]
      BY <2>2 DEF CallInv, FormInv, Done
    <3>2. input.rows \in Seq(Range(input.rows))
      BY <2>2 DEF CallInv, FormInv, Done
    <3>3. made \in Seq({made[i] : i \in DOMAIN made})
      BY <3>2, ParsedAre
    <3> HIDE DEF made
    <3>4. IF Unfit(input.kind, input.table, made) THEN built = Refused
          ELSE WellFormed(built, made, 0)
      BY <3>3, BuiltWellFormed
    <3> HIDE DEF built
    <3>5. columns = made /\ result[1].ddl = built
      BY <3>1
    <3> HIDE DEF columns
    <3>6. Unfit(input.kind, input.table, columns) <=> unfit
      <4>1. \A x : x \notin Range(<<>>)
        BY DEF Range
      <4> HIDE DEF q
      <4>2. q \in Range(input.table.schema) => input.table.schema # <<>>
        BY <4>1
      <4> QED  BY <4>2, Zenon DEF Unfit, CannotQuote, q
    <3> QED  BY <3>4, <3>5, <3>6, Zenon
  <2> QED  BY <2>1, <2>2
<1> QED  BY <1>1, CallInvHolds, PTL

(* Pressing next shows every row once and in order, of a table of any size *)
(* and with any limit; with a limit of zero, what the driver's default     *)
(* holds.                                                                  *)
THEOREM PagesCoverTableHolds == CallSpec => []PagesCoverTable
<1>1. CallInv => PagesCoverTable
  <2> DEFINE at == result[1]
             n == input.rows
             limit == input.limit
  <2> SUFFICES ASSUME CallInv, Done("pages")
      PROVE  IF limit = 0
             THEN Range(at.seen) = 1..Min({n, DefaultLimit})
             ELSE /\ at.seen = [i \in 1..Len(at.seen) |-> i]
                  /\ ~ NextEnabled(at.offset) => Len(at.seen) = n
                  /\ PrevOffset(at.offset, limit) = at.before
    BY DEF PagesCoverTable
  <2>1. n \in Nat /\ limit \in Nat /\ Paged(at, n, limit)
    BY DEF CallInv, PagesInv, Done
  <2>2. CASE limit = 0
    <3>1. Min({n, DefaultLimit}) = Least(n, 100)
      BY <2>1, MinMaxOfTwo DEF DefaultLimit
    <3> QED  BY <2>1, <2>2, <3>1 DEF Paged
  <2>3. CASE limit # 0
    <3> HIDE DEF at, n, limit
    <3>1. /\ at.offset \in Nat /\ at.before \in Nat
          /\ \/ at.offset = 0 /\ at.before = 0
             \/ at.offset = at.before + limit
          /\ Len(at.seen) = Least(n, at.offset + limit)
          /\ \A i \in 1..Len(at.seen) : at.seen[i] = i
          /\ at.seen \in Seq(Nat)
      BY <2>1, <2>3 DEF Paged
    <3>2. at.seen = [i \in 1..Len(at.seen) |-> i]
      <4> DEFINE seen == at.seen
      <4>1. seen \in Seq(Nat) /\ \A i \in 1..Len(seen) : seen[i] = i
        BY <3>1
      <4> HIDE DEF seen
      <4>2. seen = [i \in 1..Len(seen) |-> seen[i]]
        BY <4>1, LenProperties
      <4>3. seen = [i \in 1..Len(seen) |-> i]
        BY <4>1, <4>2, Zenon
      <4> QED  BY <4>3 DEF seen
    <3>3. PrevOffset(at.offset, limit) = at.before
      BY <2>1, <3>1 DEF PrevOffset
    <3>4. ASSUME ~ NextEnabled(at.offset)
          PROVE  Len(at.seen) = n
      <4>1. ~(PageLength(n, at.offset, limit) >= limit)
        <5>1. Len(SampleRows(n, at.offset, limit)) = PageLength(n, at.offset, limit)
          BY <2>1, <3>1, SampleRowsIs
        <5> QED  BY <3>4, <5>1 DEF NextEnabled, HasMore, Page, n, limit
      <4> QED  BY <2>1, <2>3, <3>1, <4>1 DEF PageLength, Most, Least
    <3> QED  BY <2>3, <3>2, <3>3, <3>4
  <2> QED  BY <2>2, <2>3
<1> QED  BY <1>1, CallInvHolds, PTL
==================================================================================
