------------------------------ MODULE RowEdit ------------------------------
(***************************************************************************)
(* Editing the rows of a table in the browser (server/handlers_object.go,  *)
(* the templates object_data.html and row_form.html), while other users    *)
(* write to the same table and alter it.  One tab goes from a page of rows *)
(* to one change.  The server keeps nothing between the requests: each one *)
(* describes the table again, and the key of the row travels through the   *)
(* page, the link of the edit button and the hidden fields of the form.    *)
(*                                                                         *)
(* What the database stores (cells) and what the browser shows and sends   *)
(* (texts) are kept apart: a cell is printed in one way for the link and   *)
(* the delete button and in another one for the fields of the form, and a  *)
(* text is read again by the database, for the type of its column.         *)
(***************************************************************************)
EXTENDS RowStatements

CONSTANTS
    Rows,        \* identities of the rows, which the program cannot see
    Key, Columns,     \* the key column, and the others
    Cells,       \* what a column stores, but for NULL
    Text,        \* what a page shows and a form sends; "" is the empty one
    GoType,      \* the type of a cell once normaliseValue has seen it: for
                 \* []byte and time.Time a string
    Printed,     \* how fmt prints it; a time, as RFC 3339
    Plain,       \* how strconv formats it, if it is a number or a bool
    Stored,      \* the cell that the database makes of a text
    LinkText,    \* what a text placed unescaped in a query string arrives as
    NilText,     \* how fmt prints a nil
    SampleSize,  \* rows fetchRowByPK looks at (1000 in the code)
    Typed,       \* bound: the texts a user types
    Theirs,      \* bound: what other users write into a column
    MaxWrites,   \* bound: writes of other users
    Null, Absent \* an empty cell; a row that is not there

ASSUME SampleAssumption == SampleSize \in Nat \ {0}
ASSUME ColumnsAssumption == Key \notin Columns /\ IsFiniteSet(Columns)
ASSUME TextAssumption ==
    /\ {"", NilText} \subseteq Text /\ LinkText \in [Text -> Text]
    /\ Printed \in [Cells -> Text] /\ Plain \in [Cells -> Text]
    /\ Stored \in [Text -> Cells]
ASSUME NullAssumption == Null \notin Cells
ASSUME BoundsAssumption == Typed \subseteq Text /\ Theirs \subseteq Cells \cup {Null}
ASSUME AbsentAssumption ==
    \A C \in SUBSET (Columns \cup {Key}) : Absent \notin [C -> Cells \cup {Null}]

VARIABLES
    tbl,      \* the table: what each row holds in each column
    cols,     \* its columns
    pk,       \* the columns of its primary key
    writes,   \* writes of other users so far
    pc,       \* "home", "page", "opening", "form", "saving"; "done" when the
              \* tab has been told row-saved
    view,     \* the page of rows: the key's columns, and its value per row
    row,      \* the row whose button was clicked; Absent for a new one
    def,      \* the table as last described: its columns and its key
    form,     \* the form: values shown, hidden key, and the texts typed
    sample,   \* history: the rows fetchRowByPK looked at, with their contents
    missed    \* history: the last statement selected no row

theirs == <<tbl, cols, pk, writes>>
vars == <<theirs, pc, view, row, def, form, sample, missed>>

Ref == [schema |-> "public", name |-> "t"]
Present(t) == {r \in Rows : t[r] # Absent}
Contents(C) == [C -> Cells \cup {Null}]
Put(new, contents) ==       \* contents with the values of new in its columns
    [c \in DOMAIN new \cup DOMAIN contents |->
        IF c \in DOMAIN new THEN new[c] ELSE contents[c]]
KeyOf(contents, k) == [c \in k |-> contents[c]]

(* SQLite lets a column of a primary key be NULL, and such keys be equal. *)
KeyHolds(t, k) ==
    \A r, q \in Present(t) :
        /\ \A c \in k : t[r][c] # Null
        /\ KeyOf(t[r], k) = KeyOf(t[q], k)
        => r = q
NoRows == [pk |-> {}, key |-> <<>>]
NoForm == [shown |-> <<>>, hidden |-> <<>>, typed |-> <<>>]
Orders(S) == {o \in [1..Cardinality(S) -> S] : IsInjective(o)}

(* SampleRows with a limit: no order is asked for. *)
Samples(t) == kSubset(IF SampleSize < Cardinality(Present(t)) THEN SampleSize
                      ELSE Cardinality(Present(t)), Present(t))

DescribeTable == [cols |-> cols, pk |-> pk]

Init ==
    /\ cols \in {{Key} \cup C : C \in SUBSET Columns}
    /\ tbl \in [Rows -> Contents(cols) \cup {Absent}]
    /\ pk \in {{Key} \cup C : C \in SUBSET (cols \ {Key})}
    /\ KeyHolds(tbl, pk)
    /\ writes = 0
    /\ pc = "home"
    /\ view = NoRows
    /\ row = Absent
    /\ def = [cols |-> {}, pk |-> {}]
    /\ form = NoForm
    /\ sample = <<>>
    /\ missed = FALSE

-----------------------------------------------------------------------------
(***************************************************************************)
(* Other users.  What they write before the first page is part of Init,    *)
(* and nobody looks at what they write after the last request.             *)
(***************************************************************************)
TheyWrite ==
    /\ writes < MaxWrites /\ pc \notin {"home", "done"}
    /\ writes' = writes + 1
    /\ \/ \E r \in Rows, v \in [cols -> Theirs] \cup {Absent} :
             /\ tbl' = [tbl EXCEPT ![r] = v]
             /\ KeyHolds(tbl', pk)
             /\ UNCHANGED <<cols, pk>>
       \/ \E c \in Columns \ cols, v \in Theirs :  \* add column
             /\ cols' = cols \cup {c}
             /\ tbl' = [r \in Rows |-> IF tbl[r] = Absent THEN Absent
                                       ELSE Put([d \in {c} |-> v], tbl[r])]
             /\ UNCHANGED pk
       \/ \E c \in cols \ pk :              \* a wider primary key
             /\ pk' = pk \cup {c} /\ KeyHolds(tbl, pk')
             /\ UNCHANGED <<tbl, cols>>
    /\ UNCHANGED <<pc, view, row, def, form, sample, missed>>

-----------------------------------------------------------------------------
(***************************************************************************)
(* The tab.                                                                *)
(***************************************************************************)
(* handleObjectData; the buttons are there because the table has a key. *)
ShowRows ==
    /\ pc = "home"
    /\ pc' = "page"
    /\ view' = [pk |-> pk, key |-> [r \in Present(tbl) |-> KeyOf(tbl[r], pk)]]
    /\ def' = DescribeTable
    /\ UNCHANGED <<theirs, row, form, sample, missed>>

(* The edit button: handleRowEditForm describes the table. *)
OpenEdit(r) ==
    /\ pc = "page" /\ r \in DOMAIN view.key
    /\ pc' = "opening"
    /\ row' = r
    /\ view' = [view EXCEPT !.key = [q \in {r} |-> view.key[q]]]
    /\ def' = DescribeTable
    /\ UNCHANGED <<theirs, form, sample, missed>>

(* The pk_ parameters of its link, printed with %v. *)
LinkKey(v) == IF v = Null THEN NilText ELSE Printed[v]
Link == [c \in view.pk |-> LinkText[LinkKey(view.key[row][c])]]

(* The types formatAny knows; it formats any other as "". *)
FormatAny(v) == IF GoType[v] \in {"bool", "int64", "int", "float64"}
                THEN Plain[v] ELSE ""

(* Mutant: what fmt prints for a nil. *)
StringifyNil(v) == CASE v = Null -> NilText
                     [] v # Null /\ GoType[v] = "string" -> Printed[v]
                     [] OTHER -> FormatAny(v)

Stringify(v) == CASE v = Null -> ""
                  [] v # Null /\ GoType[v] = "string" -> Printed[v]
                  [] OTHER -> FormatAny(v)

RowMatches(contents, key) ==
    \A c \in DOMAIN key : c \in DOMAIN contents /\ Stringify(contents[c]) = key[c]

(* The first row of the sample with that key; or else only the key. *)
FetchRowByPK(S) ==
    LET found == {r \in S : RowMatches(tbl[r], Link)}
    IN IF found # {}
       THEN {[c \in DOMAIN tbl[r] |-> Stringify(tbl[r][c])] : r \in found}
       ELSE {[c \in def.cols \cap view.pk |-> Link[c]]}

Cell(m, c) == IF c \in DOMAIN m THEN m[c] ELSE ""   \* a missing map entry

(* The rest of handleRowEditForm, and row_form.html. *)
FetchRow ==
    /\ pc = "opening"
    /\ pc' = "form"
    /\ \E S \in Samples(tbl) : \E current \in FetchRowByPK(S) :
          /\ sample' = [r \in S |-> tbl[r]]
          /\ form' = [shown  |-> [c \in def.cols |-> Cell(current, c)],
                      hidden |-> [c \in def.pk |-> Cell(Link, c)],
                      typed  |-> <<>>]
    /\ UNCHANGED <<theirs, view, row, def, missed>>

(* handleRowForm: an empty form for a new row. *)
OpenNew ==
    /\ pc = "page"
    /\ pc' = "form"
    /\ row' = Absent
    /\ def' = DescribeTable
    /\ form' = [NoForm EXCEPT !.shown = [c \in def'.cols |-> ""]]
    /\ view' = NoRows
    /\ UNCHANGED <<theirs, sample, missed>>

(* The user changes fields and saves; the handler describes the table.  At *)
(* most one field is changed in an edit.                                   *)
Submit ==
    /\ pc = "form"
    /\ pc' = "saving"
    /\ \/ \E c \in DOMAIN form.shown, v \in Typed :
             form' = [form EXCEPT !.typed = [form.shown EXCEPT ![c] = v]]
       \/ row = Absent /\ \E t \in [DOMAIN form.shown -> Typed] :
             form' = [form EXCEPT !.typed = t]
    /\ def' = DescribeTable
    /\ UNCHANGED <<theirs, view, row, sample, missed>>

(* Fields of columns the form did not have arrive empty. *)
FormValues == [c \in def.cols |-> Cell(form.typed, c)]

(* Mutant: the key is read from the visible fields. *)
VisiblePK == [c \in def.pk |-> Cell(form.typed, c)]

FormPK == [c \in def.pk |-> Cell(form.hidden, c)]

(* The arguments of a statement, as the database reads them. *)
AsRead(texts) == [c \in DOMAIN texts |-> Stored[texts[c]]]

(* What a statement makes of the table; the database chooses the row a new *)
(* one goes to, and leaves the columns it does not name empty.             *)
Apply(stmt) ==
    LET hit(r) == r \in Present(tbl) /\ Selects(stmt, tbl[r])
        new == [c \in cols |-> Null]
    IN CASE stmt.verb = "update" ->
              {[r \in Rows |-> IF hit(r) THEN Put(NewValues(stmt), tbl[r]) ELSE tbl[r]]}
         [] stmt.verb = "delete" ->
              {[r \in Rows |-> IF hit(r) THEN Absent ELSE tbl[r]]}
         [] stmt.verb = "insert" ->
              {[tbl EXCEPT ![r] = Put(NewValues(stmt), new)] : r \in Rows \ Present(tbl)}
         [] OTHER -> {}

(* The statement is run; any may be refused, for the type of a value or a  *)
(* constraint, and then the tab is still where it was.                     *)
Run(stmt, back) ==
    /\ \/ /\ tbl' \in Apply(stmt)
          /\ KeyHolds(tbl', pk)
          /\ pc' = "done"
          /\ missed' = \A r \in Present(tbl) : ~Selects(stmt, tbl[r])
       \/ UNCHANGED <<tbl, missed>> /\ pc' = back
    /\ UNCHANGED <<cols, pk, writes, view, def, form, sample>>

(* handleRowUpdate. *)
SaveEdit ==
    /\ pc = "saving" /\ row # Absent
    /\ \E k \in Kinds, so \in Orders(def.cols), wo \in Orders(def.pk) :
          Run(UpdateRow(k, Ref, AsRead(FormPK), AsRead(FormValues), so, wo), "form")
    /\ UNCHANGED row

(* handleRowInsert.  The form has no null_ fields, so that every column of *)
(* the table is given a text.                                              *)
SaveNew ==
    /\ pc = "saving" /\ row = Absent
    /\ \E k \in Kinds, so \in Orders(def.cols) :
          Run(InsertRow(k, Ref, AsRead(FormValues), so), "form")
    /\ UNCHANGED row

(* The hidden fields of the delete button; html/template leaves a nil out. *)
FieldKey(v) == IF v = Null THEN "" ELSE Printed[v]
DeletePK(r) == [c \in view.pk |-> FieldKey(view.key[r][c])]

(* handleRowDelete does not describe the table: the key is the page's. *)
DeleteClicked(r) ==
    /\ pc = "page" /\ r \in DOMAIN view.key
    /\ row' = r
    /\ \E k \in Kinds, wo \in Orders(view.pk) :
          Run(DeleteRow(k, Ref, AsRead(DeletePK(r)), wo), "page")

Over == pc = "done" /\ UNCHANGED vars

Next == \/ TheyWrite
        \/ ShowRows \/ OpenNew \/ FetchRow \/ Submit \/ SaveEdit \/ SaveNew
        \/ \E r \in Rows : OpenEdit(r) \/ DeleteClicked(r)
        \/ Over

Spec == Init /\ [][Next]_vars

-----------------------------------------------------------------------------
(***************************************************************************)
(* Properties.  Nothing below is a version check or a lock of the program: *)
(* they say how far its keys reach without one.                            *)
(***************************************************************************)
Changed == {r \in Rows : tbl'[r] # tbl[r]}
Saves == pc = "saving" /\ row # Absent /\ pc' = "done"
Adds == pc = "saving" /\ row = Absent /\ pc' = "done"
Deletes(q) == pc = "page" /\ pc' = "done" /\ row' = q
Widened == pk # view.pk
KeyMoved(r) ==
    tbl[r] = Absent \/ KeyOf(tbl[r], view.pk) # view.key[r]

(* The key of the row, as it comes back from the page, selects another     *)
(* value: it is NULL, the link loses part of it, or the database reads it  *)
(* as something else.                                                      *)
LinkMangled == \E c \in view.pk : Stored[Link[c]] # view.key[row][c]
FieldMangled(r) == \E c \in view.pk : Stored[DeletePK(r)[c]] # view.key[r][c]

(* A click changes one row at most, in whatever order the driver visits    *)
(* the columns, unless the key has become wider since the handler of the   *)
(* save described the table, or since the page of the delete was shown;    *)
(* and then those whose key is what the database reads on the page.        *)
OneRowPerClick ==
    /\ Saves => Cardinality(Changed) <= 1 \/ pk # def.pk
    /\ Adds => \A r \in Changed : tbl[r] = Absent
    /\ \A q \in Rows : Deletes(q) =>
          /\ Cardinality(Changed) <= 1 \/ Widened
          /\ \A r \in Changed : KeyOf(tbl[r], view.pk) = AsRead(DeletePK(q))
OneRowAtMost == [][OneRowPerClick]_vars

(* The row that a save or a delete changes is the row whose button was     *)
(* clicked, unless its key did not survive the link or the hidden field,   *)
(* or other users have moved or widened the key: the hidden key is the one *)
(* of the page, not what the user types.                                   *)
ClickHitsRow ==
    /\ Saves => Changed \subseteq {row} \/ LinkMangled \/ KeyMoved(row) \/ Widened
    /\ \A q \in Rows : Deletes(q) =>
          Changed \subseteq {q} \/ FieldMangled(q) \/ KeyMoved(q) \/ Widened
EditsRowClicked == [][ClickHitsRow]_vars

(* Cells that a form gives back as it was given them. *)
Faithful ==
    {v \in Cells : \/ GoType[v] = "string" /\ Stored[Printed[v]] = v
                  \/ /\ GoType[v] \in {"bool", "int64", "int", "float64"}
                     /\ Stored[Plain[v]] = v}

(* fetchRowByPK has looked at the row, its key was the one in the link,    *)
(* and no key it looked at is shown as something else.                     *)
Recognised(r) ==
    /\ r \in DOMAIN sample
    /\ \A d \in view.pk : Stringify(sample[r][d]) = Link[d]
    /\ \A q \in DOMAIN sample : \A d \in view.pk : sample[q][d] \in Faithful

(* The form writes back every column.  One that the user did not touch     *)
(* still changes only for one of these reasons: its column is younger than *)
(* the form; it was NULL, and becomes empty; the form does not give its    *)
(* type back; another user has written it since; fetchRowByPK did not      *)
(* recognise the row, or the key was widened, so that the form shows only  *)
(* a key, or another row.                                                  *)
SaveKeepsRest ==
    Saves => \A r \in Changed : \A c \in DOMAIN tbl[r] :
        \/ tbl'[r][c] = tbl[r][c]
        \/ c \notin DOMAIN form.typed
        \/ form.typed[c] # form.shown[c]
        \/ tbl[r][c] = Null /\ tbl'[r][c] = Stored[""]
        \/ tbl[r][c] # Null /\ tbl[r][c] \notin Faithful
        \/ ~Recognised(r)
        \/ sample[r][c] # tbl[r][c]
        \/ Widened
UntouchedKept == [][SaveKeepsRest]_vars

(* row-saved is also what the tab is told when the statement matched no    *)
(* row: the handlers do not look at the number of rows.  That happens only *)
(* if other users moved, deleted or widened the key of the row, or the key *)
(* did not survive the link or the hidden field.                           *)
MissExplained ==
    /\ Saves /\ missed' => LinkMangled \/ KeyMoved(row) \/ Widened
    /\ \A q \in Rows : Deletes(q) /\ missed' => FieldMangled(q) \/ KeyMoved(q)
SavedMeansWritten == [][MissExplained]_vars

(* "fetchRowByPK pulls the current value of a row identified by its        *)
(* primary-key columns" (handlers_object.go:201): when it has looked at    *)
(* the row, with the key that the link names, the form shows the strings   *)
(* that the row holds.  It does not if formatAny has no case for the key.  *)
FormShowsRow ==
    /\ pc = "form" /\ row \in DOMAIN sample
    /\ view.pk \subseteq DOMAIN sample[row]
    /\ KeyOf(sample[row], view.pk) = view.key[row] /\ ~LinkMangled
    => \A c \in DOMAIN sample[row] \cap DOMAIN form.shown :
          /\ sample[row][c] # Null /\ GoType[sample[row][c]] = "string"
          => form.shown[c] = Printed[sample[row][c]]
=============================================================================
