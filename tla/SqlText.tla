------------------------------ MODULE SqlText ------------------------------
(***************************************************************************)
(* The pure parts of the program that make and take apart SQL, and the     *)
(* pager: splitSQL and runStatements (dbx/exec.go), quoting (identifier.   *)
(* go), the CREATE TABLE builders (ddl.go) behind the new-table form       *)
(* (handlers_create.go, create_table.html), SampleRows with the buttons of *)
(* object_data.html.  Each is applied once to an input of a small set, and *)
(* compared with what a reader of SQL, or of the page, would do.           *)
(***************************************************************************)
EXTENDS Integers, Sequences, FiniteSets, SequencesExt

CONSTANTS
    MaxText,     \* bound: characters of a text for the SQL editor
    MaxName,     \* bound: characters of a name
    MaxColumns,  \* bound: columns of the new-table form
    MaxForeign,  \* bound: foreign keys of a table
    MaxRows,     \* bound: rows of a table that is paged through
    MaxLimit     \* bound: rows asked for in a page

ASSUME MaxTextAssumption == MaxText \in Nat /\ MaxName \in Nat
ASSUME MaxFormAssumption == MaxColumns \in Nat /\ MaxForeign \in Nat
ASSUME MaxPageAssumption == MaxRows \in Nat /\ MaxLimit \in Nat

VARIABLES input, result
call == <<input, result>>

Dialects == {"sqlite", "postgres", "mysql"}
SQ == "'"
DQ == "\""
BQ == "bq"    \* the backtick
Texts(chars, n) == UNION {[1..m -> chars] : m \in 0..n}

(* The members of S between 1 and n, in increasing order. *)
Positions(n, S) ==
    LET upto[i \in 0..n] ==
            CASE i = 0 -> <<>>
              [] i # 0 /\ i \in S -> Append(upto[i - 1], i)
              [] OTHER -> upto[i - 1]
    IN upto[n]

(* The elements of s at the positions in S, in their order. *)
Pick(s, S) ==
    LET at == Positions(Len(s), S)
    IN [k \in DOMAIN at |-> s[at[k]]]

Without(s, blank) == Pick(s, {i \in DOMAIN s : s[i] # blank})

-----------------------------------------------------------------------------
(***************************************************************************)
(* The SQL editor.                                                         *)
(***************************************************************************)
TrimSpace(s) ==
    LET solid == {i \in DOMAIN s : s[i] # " "}
    IN IF solid = {} THEN <<>> ELSE SubSeq(s, Min(solid), Max(solid))

(* Mutant: a double quote inside a string opens an identifier. *)
SplitStepNoNesting(acc, c) ==
    CASE c = SQ -> [acc EXCEPT !.inS = ~@, !.cur = Append(@, c)]
      [] c = DQ -> [acc EXCEPT !.inD = ~@, !.cur = Append(@, c)]
      [] c = ";" /\ ~acc.inS /\ ~acc.inD ->
            [acc EXCEPT !.out = Append(@, acc.cur), !.cur = <<>>]
      [] OTHER -> [acc EXCEPT !.cur = Append(@, c)]

SplitStep(acc, c) ==
    CASE c = SQ /\ ~acc.inD -> [acc EXCEPT !.inS = ~@, !.cur = Append(@, c)]
      [] c = DQ /\ ~acc.inS -> [acc EXCEPT !.inD = ~@, !.cur = Append(@, c)]
      [] c = ";" /\ ~acc.inS /\ ~acc.inD ->
            [acc EXCEPT !.out = Append(@, acc.cur), !.cur = <<>>]
      [] OTHER -> [acc EXCEPT !.cur = Append(@, c)]

SplitSQL(s) ==
    LET after[i \in 0..Len(s)] ==
            IF i = 0 THEN [out |-> <<>>, cur |-> <<>>, inS |-> FALSE, inD |-> FALSE]
            ELSE SplitStep(after[i - 1], s[i])
        end == after[Len(s)]
    IN IF TrimSpace(end.cur) # <<>> THEN Append(end.out, end.cur) ELSE end.out

RunStatements(s) ==
    LET pieces == SplitSQL(s)
    IN Without([i \in DOMAIN pieces |-> TrimSpace(pieces[i])], <<>>)

(* Where the quote opened at i of t closes, a doubled one being a          *)
(* character of the string; behind the end if it does not.                 *)
Closing(t, i) ==
    LET close[j \in 1..(Len(t) + 1)] ==
            CASE j <= Len(t) /\ t[j] # t[i] -> close[j + 1]
              [] j < Len(t) /\ t[j] = t[i] /\ t[j + 1] = t[i] -> close[j + 2]
              [] OTHER -> j
    IN close[i + 1]

(* The semicolons of t that no string and no quoted name contains. *)
Separators(t) ==
    LET from[i \in 1..(Len(t) + 2)] ==
            CASE i > Len(t) -> {}
              [] i <= Len(t) /\ t[i] \in {SQ, DQ} -> from[Closing(t, i) + 1]
              [] i <= Len(t) /\ t[i] = ";" -> {i} \cup from[i + 1]
              [] OTHER -> from[i + 1]
    IN from[1]

Statements(t) ==
    LET cuts == <<0>> \o Positions(Len(t), Separators(t)) \o <<Len(t) + 1>>
        piece(k) == SubSeq(t, cuts[k] + 1, cuts[k + 1] - 1)
    IN Without([k \in 1..(Len(cuts) - 1) |-> TrimSpace(piece(k))], <<>>)

-----------------------------------------------------------------------------
(***************************************************************************)
(* Names and literals.                                                     *)
(***************************************************************************)
Refused == <<>>    \* an error: nothing has been built
QuoteChar(k) == IF k = "mysql" THEN BQ ELSE DQ

(* Mutant: every dialect quotes with double quotes. *)
QuoteIdentDouble(k, name) ==
    IF name = <<>> \/ DQ \in Range(name) THEN Refused ELSE <<DQ>> \o name \o <<DQ>>

CannotQuote(k, name) == name = <<>> \/ QuoteChar(k) \in Range(name)
QuoteIdent(k, name) ==
    IF CannotQuote(k, name) THEN Refused
    ELSE <<QuoteChar(k)>> \o name \o <<QuoteChar(k)>>

Qualified(k, schema, name) ==
    LET s == QuoteIdent(k, schema)
        n == QuoteIdent(k, name)
    IN CASE schema = <<>> -> n
         [] schema # <<>> /\ Refused \in {s, n} -> Refused
         [] OTHER -> s \o <<".">> \o n

QuoteLiteral(s) ==
    <<SQ>> \o FlattenSeq([i \in DOMAIN s |-> IF s[i] = SQ THEN <<SQ, SQ>> ELSE <<s[i]>>])
           \o <<SQ>>

(* What a database reads at the start of t if quote q is there: the text   *)
(* between the quotes, a doubled quote being one of its characters, and    *)
(* what follows.                                                           *)
Unquote(t, q) ==
    LET from[i \in 1..(Len(t) + 1)] ==
            CASE i <= Len(t) /\ t[i] # q ->
                    [from[i + 1] EXCEPT !.text = <<t[i]>> \o @]
              [] i < Len(t) /\ t[i] = q /\ t[i + 1] = q ->
                    [from[i + 2] EXCEPT !.text = <<q>> \o @]
              [] OTHER -> [text |-> <<>>, rest |-> SubSeq(t, i + 1, Len(t))]
    IN from[2]

-----------------------------------------------------------------------------
(***************************************************************************)
(* The new-table form.  A row of the form has a name, a type, two boxes    *)
(* and a default; the first row's boxes are hidden fields.                 *)
(***************************************************************************)
(* What the browser sends: all the texts, but of the boxes those ticked. *)
Ticked(boxes, hidden) ==
    <<hidden>> \o [i \in 1..Len(Without(Tail(boxes), FALSE)) |-> "1"]

Browser(rows) ==
    [name |-> [i \in DOMAIN rows |-> rows[i].name],
     type |-> [i \in DOMAIN rows |-> rows[i].type],
     default |-> [i \in DOMAIN rows |-> rows[i].default],
     nullable |-> Ticked([i \in DOMAIN rows |-> rows[i].nullable], "0"),
     pk |-> Ticked([i \in DOMAIN rows |-> rows[i].pk], "1")]

Nth(s, i) == IF i <= Len(s) THEN s[i] ELSE ""

(* Mutant: the fields are looked up by the columns kept so far. *)
ParseByCount(f) ==
    LET named == Positions(Len(f.name), {i \in DOMAIN f.name : f.name[i] # <<>>})
    IN [k \in DOMAIN named |->
           [name |-> f.name[named[k]], type |-> Nth(f.type, k),
            nullable |-> Nth(f.nullable, k) = "1", pk |-> Nth(f.pk, k) = "1",
            default |-> Nth(f.default, k)]]

ParseCreateTableForm(f) ==
    LET named == {i \in DOMAIN f.name : f.name[i] # <<>>}
        col(i) == [name |-> f.name[i], type |-> Nth(f.type, i),
                   nullable |-> Nth(f.nullable, i) = "1",
                   pk |-> Nth(f.pk, i) = "1", default |-> Nth(f.default, i)]
    IN Pick([i \in DOMAIN f.name |-> col(i)], named)

-----------------------------------------------------------------------------
(***************************************************************************)
(* CREATE TABLE, as lines between the parentheses and whether a comma      *)
(* follows each.                                                           *)
(***************************************************************************)
KeyColumns(cols, n) == Pick(SubSeq(cols, 1, n), {i \in 1..n : cols[i].pk})
Line(what, names, comma) == [what |-> what, names |-> names, comma |-> comma]

(* Mutant: only the columns are counted. *)
ColumnCommaByCount(cols, i, fks) == i < Len(cols)

(* After column i: the names of key columns have been collected so far. *)
ColumnComma(cols, i, fks) ==
    i < Len(cols) \/ KeyColumns(cols, i) # <<>> \/ fks > 0

ColumnLines(cols, fks) ==
    [i \in DOMAIN cols |-> Line("column", <<cols[i].name>>, ColumnComma(cols, i, fks))]
KeyLine(cols, comma) ==
    LET keys == KeyColumns(cols, Len(cols))
    IN IF keys = <<>> THEN <<>>
       ELSE <<Line("key", [i \in DOMAIN keys |-> keys[i].name], comma)>>

(* A name that cannot be quoted, or no type; SQLite's driver drops the schema. *)
Unfit(k, table, cols) ==
    \/ CannotQuote(k, table.name)
    \/ k # "sqlite" /\ table.schema # <<>> /\ CannotQuote(k, table.schema)
    \/ \E i \in DOMAIN cols : CannotQuote(k, cols[i].name) \/ cols[i].type = ""

BuildCreateTable(k, table, cols) ==
    IF cols = <<>> \/ Unfit(k, table, cols) THEN Refused
    ELSE ColumnLines(cols, 0) \o KeyLine(cols, FALSE)

SynthesisedCreateTable(cols, fks) ==
    ColumnLines(cols, fks) \o KeyLine(cols, fks > 0)
        \o [i \in 1..fks |-> Line("foreign", <<>>, i < fks)]

-----------------------------------------------------------------------------
(***************************************************************************)
(* The pager.                                                              *)
(***************************************************************************)
(* Mutant: the page before the last row is taken for the last one. *)
HasMoreStrict(len, limit) == len > limit

HasMore(len, limit) == len >= limit

DefaultLimit == 100

(* SampleRows: rows offset + 1 and following, the driver's default for a   *)
(* limit that is not positive.                                             *)
SampleRows(n, offset, limit) ==
    LET most == IF limit <= 0 THEN DefaultLimit ELSE limit
    IN [i \in 1..Max({0, Min({most, n - offset})}) |-> offset + i]

NextOffset(offset, limit) == offset + limit
PrevOffset(offset, limit) == IF offset > limit THEN offset - limit ELSE 0

-----------------------------------------------------------------------------
(***************************************************************************)
(* One call of each, on every small input.                                 *)
(***************************************************************************)
Tables == [schema : {<<>>, <<DQ>>}, name : {<<"t">>, <<BQ>>}]
FirstRow == [name : {<<"c", "1">>}, type : {"t1"}, default : {"", "d1"}, nullable : {FALSE}, pk : {TRUE}]
FormRow(i) ==
    [name : {<<>>, <<"c", ToString(i)>>, <<DQ>>}, type : {"", "t" \o ToString(i)},
     default : {"", "d" \o ToString(i)}, nullable : BOOLEAN, pk : BOOLEAN]
Forms ==
    LET rows(i) == IF i = 1 THEN FirstRow ELSE FormRow(i)
        all(n) == [1..n -> UNION {rows(i) : i \in 1..n}]
    IN UNION {{f \in all(n) : \A i \in 1..n : f[i] \in rows(i)} : n \in 1..MaxColumns}
Described ==    \* the columns of a table, as DescribeTable reports them
    UNION {{[i \in 1..n |-> [name |-> <<"c", ToString(i)>>, pk |-> i \in keys]] : keys \in SUBSET (1..n)}
              : n \in 0..MaxColumns}

NoResult == <<>>
CallInit ==
    /\ result = NoResult
    /\ \/ input \in [op : {"exec"}, text : Texts({"a", " ", SQ, DQ, ";"}, MaxText)]
       \/ input \in [op : {"literal"}, text : Texts({"a", SQ, ";"}, MaxText)]
       \/ input \in [op : {"name"}, kind : Dialects, schema : Texts({"a", DQ, BQ, "."}, MaxName),
                     name : Texts({"a", DQ, BQ, "."}, MaxName)]
       \/ input \in [op : {"form"}, kind : Dialects, table : Tables, rows : Forms]
       \/ input \in [op : {"describe"}, cols : Described, fks : 0..MaxForeign]
       \/ input \in [op : {"pages"}, rows : 0..MaxRows, limit : 0..MaxLimit]

Returns(value) == result = NoResult /\ result' = <<value>> /\ UNCHANGED input

Exec == input.op = "exec" /\ Returns(RunStatements(input.text))
Literal == input.op = "literal" /\ Returns(QuoteLiteral(input.text))
Name == input.op = "name" /\ Returns(Qualified(input.kind, input.schema, input.name))
HandleCreateTable ==
    /\ input.op = "form"
    /\ LET cols == ParseCreateTableForm(Browser(input.rows))
       IN Returns([cols |-> cols, ddl |-> BuildCreateTable(input.kind, input.table, cols)])
Synthesise ==
    /\ input.op = "describe"
    /\ Returns(SynthesisedCreateTable(input.cols, input.fks))

(* The table is opened, and next is pressed while it is enabled. *)
Page(offset) == SampleRows(input.rows, offset, input.limit)
NextEnabled(offset) == HasMore(Len(Page(offset)), input.limit)
FirstPage ==
    /\ input.op = "pages"
    /\ Returns([offset |-> 0, before |-> 0, seen |-> Page(0)])
PressNext ==
    /\ input.op = "pages" /\ result # NoResult
    /\ LET at == result[1]
           to == NextOffset(at.offset, input.limit)
       IN /\ NextEnabled(at.offset)
          /\ Len(at.seen) <= MaxRows    \* bound
          /\ result' = <<[offset |-> to, before |-> at.offset, seen |-> at.seen \o Page(to)]>>
    /\ UNCHANGED input

CallNext == \/ Exec \/ Literal \/ Name \/ HandleCreateTable \/ Synthesise
            \/ FirstPage \/ PressNext
CallSpec == CallInit /\ [][CallNext]_call

-----------------------------------------------------------------------------
Done(op) == input.op = op /\ result # NoResult

(* The editor's text is cut into exactly the statements a lexer of SQL     *)
(* finds in it: at each semicolon outside strings and quoted names, also   *)
(* when quotes are doubled, nested in the other kind or never closed       *)
(* (splitSQL toggles two flags and keeps no position).                     *)
SplitMatchesLexer == Done("exec") => result[1] = Statements(input.text)

(* A quoted name or literal ends where it was meant to: the database reads *)
(* back the schema, the name or the string that was given and nothing is   *)
(* left over; a name that could not be read back is refused, no other is.  *)
QuotingScansBack ==
    /\ Done("literal") => Unquote(result[1], SQ) = [text |-> input.text, rest |-> <<>>]
    /\ Done("name") =>
          LET q == QuoteChar(input.kind)
              one == Unquote(result[1], q)
              two == Unquote(Tail(one.rest), q)
          IN IF input.name = <<>> \/ q \in Range(input.schema \o input.name)
             THEN result[1] = Refused
             ELSE /\ result[1][1] = q
                  /\ IF input.schema = <<>> THEN one = [text |-> input.name, rest |-> <<>>]
                     ELSE /\ one.text = input.schema /\ Head(one.rest) = "."
                          /\ two = [text |-> input.name, rest |-> <<>>]

Named(rows) == Pick(rows, {i \in DOMAIN rows : rows[i].name # <<>>})

(* The columns of the new table are the rows of the form that have a name, *)
(* in their order and each with its own type and default: an empty row in  *)
(* the middle shifts no field of a later one.                              *)
FormColumnsAligned ==
    Done("form") =>
        LET cols == result[1].cols
            want == Named(input.rows)
        IN /\ Len(cols) = Len(want)
           /\ \A i \in DOMAIN cols : /\ cols[i].name = want[i].name
                                     /\ cols[i].type = want[i].type
                                     /\ cols[i].default = want[i].default

(* ... and with its own boxes.  handlers_create.go:85 says the per-column  *)
(* fields are read into the definition; a browser does not send a box that *)
(* is not ticked, so those of later rows are read for earlier ones.        *)
FlagsFollowColumns ==
    Done("form") =>
        LET cols == result[1].cols
            want == Named(input.rows)
        IN \A i \in DOMAIN cols : /\ cols[i].nullable = want[i].nullable
                                  /\ cols[i].pk = want[i].pk

WellFormed(lines, cols, fks) ==
    LET keys == KeyColumns(cols, Len(cols))
        names == [i \in DOMAIN keys |-> keys[i].name]
    IN /\ \A i \in DOMAIN lines : lines[i].comma <=> i < Len(lines)
       /\ \A i \in DOMAIN lines : lines[i].what = "column" <=> i <= Len(cols)
       /\ \A i \in DOMAIN cols : lines[i].names = <<cols[i].name>>
       /\ {lines[i].names : i \in {j \in DOMAIN lines : lines[j].what = "key"}}
            = (IF keys = <<>> THEN {} ELSE {names})
       /\ Len(lines) = Len(cols) + fks + (IF keys = <<>> THEN 0 ELSE 1)

(* Between the parentheses of a CREATE TABLE every line but the last ends  *)
(* in a comma, whatever columns, key and foreign keys there are, and the   *)
(* key names every key column.  The form is refused for a column without a *)
(* type, a table without a name, and a name with its dialect's quote in it *)
(* - of the schema only where the dialect has schemas - and for nothing    *)
(* else.                                                                   *)
DDLWellFormed ==
    /\ Done("describe") => WellFormed(result[1], input.cols, input.fks)
    /\ Done("form") =>
          LET cols == result[1].cols
              ddl == result[1].ddl
              q == QuoteChar(input.kind)
          IN IF \/ input.table.name = <<>> \/ q \in Range(input.table.name)
                \/ input.kind # "sqlite" /\ q \in Range(input.table.schema)
                \/ \E i \in DOMAIN cols : \/ cols[i].type = "" \/ cols[i].name = <<>>
                                          \/ q \in Range(cols[i].name)
             THEN ddl = Refused
             ELSE WellFormed(ddl, cols, 0)

(* A user who presses next while it is enabled sees every row of the table *)
(* once and in order, prev leads to the page before, and with a limit of   *)
(* zero, for which the driver takes its default but the page its zero,     *)
(* next shows the first page again, and nothing behind the default.        *)
PagesCoverTable ==
    Done("pages") =>
        LET at == result[1]
        IN IF input.limit = 0
           THEN Range(at.seen) = 1..Min({input.rows, DefaultLimit})
           ELSE /\ at.seen = [i \in 1..Len(at.seen) |-> i]
                /\ ~ NextEnabled(at.offset) => Len(at.seen) = input.rows
                /\ PrevOffset(at.offset, input.limit) = at.before
=============================================================================
